----------------------------- MODULE GateProofs -----------------------------
(***************************************************************************)
(* What holds of integrations alone, and of the Gates that compose them,   *)
(* and why no node of a Run is starved of its next step.                   *)
(***************************************************************************)
EXTENDS GateProperties, WellFoundedInduction, TLAPS

-----------------------------------------------------------------------------
(***************************************************************************)
(* What git, the refs and the rows say stays one history, for every set of *)
(* Changesets and any number of lost calls.  That every Changeset of the   *)
(* workspace but the newest has its ref (Sound) is what makes the three    *)
(* questions of a call enough.  The lemmas are about Moves, which is what  *)
(* a module that composes the calls with other steps does to the rows.     *)
(***************************************************************************)

CallTypes ==
  {NoCall} \cup [step : {"apply", "ref", "record", "conflict", "wait"},
                 changeset : Changesets, at : Commits]

IntegrationTypeOK ==
  /\ snapshot \in Commits /\ head \in Commits
  /\ ref \in [Changesets -> [set : BOOLEAN, at : Commits]]
  /\ change \in [Changesets -> {"none", "pending", "integrated", "conflict"}]
  /\ conflictTask \in [Changesets -> {"none", "pending", "cancelled"}]
  /\ call \in CallTypes

\* Every Changeset of the commit has its ref.
Sound(commit) == \A i \in 1..Len(commit) : ref[commit[i]].set
\* No Changeset is committed twice.
Once(commit) == \A i, j \in 1..Len(commit) : commit[i] = commit[j] => i = j

RefsNameHistory ==
  \A c \in Changesets : ref[c].set => Ancestor(ref[c].at, head) /\ Sound(ref[c].at)
OnlyTheNewestLacksItsRef == \A i \in 1..Len(head) : i < Len(head) => ref[head[i]].set
CallKnows ==
  /\ At("ref") => TrailerNames(call.changeset)
  /\ At("record") => ref[call.changeset] = [set |-> TRUE, at |-> call.at]

IntegrationInv ==
  /\ IntegrationTypeOK
  /\ Ancestor(snapshot, head) /\ Sound(snapshot)
  /\ RefsNameHistory /\ OnlyTheNewestLacksItsRef /\ Once(head)
  /\ CallKnows

\* What a step does to the rows and to git, whatever else it does.
Move ==
  \/ CallSteps \/ Returns
  \/ call' = NoCall /\ UNCHANGED <<git, rows>>
  \/ \E c \in Changesets :
       Begins(c) \/ ((Produces(c) \/ ConflictCancelled(c)) /\ UNCHANGED call)
  \/ UNCHANGED <<git, rows, call>>
-----------------------------------------------------------------------------
\* Two commits of one history are comparable.
LEMMA Comparable ==
  ASSUME NEW a \in Commits, NEW b \in Commits, NEW h \in Commits,
         Ancestor(a, h), Ancestor(b, h)
  PROVE  Ancestor(a, b) \/ Ancestor(b, a)
  BY DEF Commits, Ancestor

\* What a new commit keeps.
LEMMA Committing ==
  ASSUME NEW h \in Commits, NEW c \in Changesets
  PROVE  /\ Append(h, c) \in Commits /\ Len(Append(h, c)) = Len(h) + 1
         /\ Append(h, c)[Len(h) + 1] = c
         /\ \A i \in 1..Len(h) : Append(h, c)[i] = h[i]
         /\ \A a \in Commits : Ancestor(a, h) => Ancestor(a, Append(h, c))
  BY DEF Commits, Ancestor

LEMMA Itself == ASSUME NEW h \in Commits PROVE Ancestor(h, h)
  BY DEF Commits, Ancestor

\* A call under way is no idle one.
LEMMA UnderWay ==
  ASSUME call \in CallTypes, NEW step, At(step), step # "none"
  PROVE  /\ call \in [step : {"apply", "ref", "record", "conflict", "wait"},
                      changeset : Changesets, at : Commits]
         /\ call.changeset \in Changesets /\ call.at \in Commits
  BY DEF CallTypes, NoCall, At

-----------------------------------------------------------------------------
LEMMA CommitKeeps ==
  ASSUME IntegrationInv, Commit
  PROVE  IntegrationInv'
  <1> DEFINE c == call.changeset
  <1> USE DEF IntegrationInv, Commit, git, rows, Unknown, InPlace
  <1>1. c \in Changesets /\ call.at \in Commits
        /\ call \in [step : {"apply", "ref", "record", "conflict", "wait"},
                      changeset : Changesets, at : Commits]
    BY UnderWay DEF IntegrationTypeOK
  <1>2. head' = Append(head, c) /\ head \in Commits /\ head' \in Commits /\ Len(head) \in Nat
        /\ Len(head') = Len(head) + 1 /\ head'[Len(head) + 1] = c
        /\ \A i \in 1..Len(head) : head'[i] = head[i] /\ head[i] \in Changesets
    BY <1>1, Committing DEF IntegrationTypeOK, Commits
  <1>3. IntegrationTypeOK'
    BY <1>1, <1>2 DEF IntegrationTypeOK, CallTypes, NoCall
  <1>4. \A a \in Commits : Ancestor(a, head) => Ancestor(a, head')
    BY <1>1, <1>2, Committing
  <1>5. Ancestor(snapshot, head)' /\ Sound(snapshot)'
    BY <1>4 DEF IntegrationTypeOK, Sound, Ancestor
  <1>6. RefsNameHistory'
    BY <1>4 DEF IntegrationTypeOK, RefsNameHistory, Sound, Ancestor
  <1>7. \A i \in 1..Len(head) : ref[head[i]].set
    BY DEF Sound
  <1>8. \A i \in 1..Len(head) : head[i] # c
    BY <1>7
  <1>9. OnlyTheNewestLacksItsRef' /\ Once(head)'
    BY <1>2, <1>7, <1>8 DEF OnlyTheNewestLacksItsRef, Once
  <1>10. CallKnows'
    BY <1>1, <1>2 DEF CallKnows, At, TrailerNames, Commits
  <1> QED
    BY <1>3, <1>5, <1>6, <1>9, <1>10

\* The ref of the newest commit: all that commit holds has its ref now.
LEMMA NamingKeeps ==
  ASSUME IntegrationInv, NEW commit \in Commits, PutsRef(commit), Answers(commit),
         At("apply") \/ At("ref"),
         \/ commit = head /\ TrailerNames(call.changeset)
         \/ commit = snapshot /\ snapshot = head,
         head' = head, UNCHANGED <<snapshot, change, conflictTask>>
  PROVE  IntegrationInv'
  <1> DEFINE c == call.changeset
  <1> USE DEF IntegrationInv, PutsRef, Answers
  <1>1. c \in Changesets /\ call.at \in Commits
        /\ call \in [step : {"apply", "ref", "record", "conflict", "wait"},
                      changeset : Changesets, at : Commits]
    BY UnderWay DEF IntegrationTypeOK
  <1>2. IntegrationTypeOK'
    BY <1>1 DEF IntegrationTypeOK, CallTypes
  <1>3. \A d \in Changesets : (ref[d].set \/ d = c) => ref'[d].set
    BY <1>1 DEF IntegrationTypeOK
  <1>4. \A s \in Commits : \A i \in 1..Len(s) : s[i] \in Changesets
    BY DEF Commits
  <1>5. \A s \in Commits : Sound(s) => Sound(s)'
    BY <1>3, <1>4 DEF Sound
  <1>6. commit = head
    OBVIOUS
  <1>7. Sound(head)'
    <2>1. CASE TrailerNames(c)
      BY <2>1, <1>3, <1>4 DEF IntegrationTypeOK, Sound, OnlyTheNewestLacksItsRef, TrailerNames
    <2>2. CASE snapshot = head
      BY <2>2, <1>5 DEF IntegrationTypeOK, Sound
    <2> QED
      BY <2>1, <2>2
  <1>8. RefsNameHistory'
    <2> SUFFICES ASSUME NEW d \in Changesets, ref'[d].set
                 PROVE  Ancestor(ref'[d].at, head) /\ Sound(ref[d].at)'
      BY DEF RefsNameHistory
    <2>1. CASE d = c
      BY <2>1, <1>1, <1>6, <1>7, Itself DEF IntegrationTypeOK, Sound
    <2>2. CASE d # c
      <3>1. ref'[d] = ref[d] /\ ref[d].at \in Commits
        BY <2>2 DEF IntegrationTypeOK
      <3> QED
        BY <3>1, <1>5 DEF RefsNameHistory, Sound
    <2> QED
      BY <2>1, <2>2
  <1>9. Ancestor(snapshot, head)' /\ Sound(snapshot)'
    BY <1>5 DEF IntegrationTypeOK, Sound
  <1>10. OnlyTheNewestLacksItsRef' /\ Once(head)'
    BY <1>7 DEF OnlyTheNewestLacksItsRef, Sound, Once
  <1>11. CallKnows'
    BY <1>1, <1>2 DEF CallKnows, At, IntegrationTypeOK
  <1> QED
    BY <1>2, <1>8, <1>9, <1>10, <1>11

LEMMA NothingKeeps ==
  ASSUME IntegrationInv, ApplyNothing
  PROVE  IntegrationInv'
  <1>1. call \in CallTypes /\ snapshot \in Commits
    BY DEF IntegrationInv, IntegrationTypeOK
  <1> QED
    BY <1>1, NamingKeeps DEF ApplyNothing, Unknown, InPlace, rows

LEMMA RefKeeps ==
  ASSUME IntegrationInv, PutRef
  PROVE  IntegrationInv'
  <1>1. head \in Commits /\ TrailerNames(call.changeset)
    BY DEF IntegrationInv, IntegrationTypeOK, CallKnows, PutRef
  <1> QED
    BY <1>1, NamingKeeps DEF PutRef, rows

LEMMA TrailerKeeps ==
  ASSUME IntegrationInv, TrailerAnswers
  PROVE  IntegrationInv'
  <1>1. head \in Commits
    BY DEF IntegrationInv, IntegrationTypeOK
  <1> QED
    BY <1>1, NamingKeeps DEF TrailerAnswers, rows

\* A step that leaves the commits, the refs and the Snapshot alone.
LEMMA AsideKeeps ==
  ASSUME IntegrationInv, IntegrationTypeOK', CallKnows',
         UNCHANGED <<snapshot, head, ref>>
  PROVE  IntegrationInv'
  BY DEF IntegrationInv, Sound, RefsNameHistory, OnlyTheNewestLacksItsRef, Once, Ancestor

LEMMA RecordKeeps ==
  ASSUME IntegrationInv, Record
  PROVE  IntegrationInv'
  <1> USE DEF IntegrationInv, Record, git
  <1>1. call.changeset \in Changesets /\ call.at \in Commits
    BY UnderWay DEF IntegrationTypeOK
  <1>2. ref[call.changeset].set /\ ref[call.changeset].at = call.at
    BY <1>1 DEF CallKnows
  <1>3. IntegrationTypeOK' /\ CallKnows'
    BY <1>1 DEF IntegrationTypeOK, CallTypes, CallKnows, At, NoCall
  <1>4. Ancestor(snapshot, head)' /\ Sound(snapshot)'
    BY <1>1, <1>2 DEF RefsNameHistory, Sound, Ancestor
  <1> QED
    BY <1>3, <1>4 DEF RefsNameHistory, Sound, OnlyTheNewestLacksItsRef, Once, Ancestor

LEMMA CallKeeps ==
  ASSUME IntegrationInv, RefAnswers \/ Drifts \/ Conflict \/ RecordConflict \/ Returns
  PROVE  IntegrationInv'
  <1> USE DEF IntegrationInv, IntegrationTypeOK, git, rows
  <1>1. CASE RefAnswers
    <2>1. call.changeset \in Changesets /\ ref[call.changeset].at \in Commits
      BY <1>1, UnderWay DEF RefAnswers
    <2> QED
      BY <1>1, <2>1, AsideKeeps DEF RefAnswers, Answers, CallTypes, CallKnows, At
  <1>2. CASE Drifts \/ Returns
    BY <1>2, AsideKeeps DEF Drifts, Returns, CallTypes, CallKnows, NoCall, At
  <1>3. CASE Conflict
    <2>1. call \in [step : {"apply", "ref", "record", "conflict", "wait"},
                     changeset : Changesets, at : Commits]
      BY <1>3, UnderWay DEF Conflict, Unknown
    <2> QED
      BY <1>3, <2>1, AsideKeeps DEF Conflict, Unknown, InPlace, CallTypes, CallKnows, At
  <1>4. CASE RecordConflict
    <2>1. /\ call \in [step : {"apply", "ref", "record", "conflict", "wait"},
                        changeset : Changesets, at : Commits]
          /\ call.changeset \in Changesets
      BY <1>4, UnderWay DEF RecordConflict
    <2> QED
      BY <1>4, <2>1, AsideKeeps DEF RecordConflict, CallTypes, CallKnows, At
  <1> QED
    BY <1>1, <1>2, <1>3, <1>4

LEMMA MoveKeeps ==
  ASSUME IntegrationInv, Move
  PROVE  IntegrationInv'
  <1> USE DEF IntegrationInv, IntegrationTypeOK, git, rows
  <1>1. CASE CallSteps \/ Returns
    BY <1>1, CommitKeeps, NothingKeeps, RefKeeps, TrailerKeeps, RecordKeeps, CallKeeps
    DEF CallSteps
  <1>2. CASE call' = NoCall /\ UNCHANGED <<git, rows>>
    BY <1>2, AsideKeeps DEF CallTypes, CallKnows, NoCall, At
  <1>3. ASSUME NEW c \in Changesets, Begins(c)
        PROVE  IntegrationInv'
    BY <1>3, AsideKeeps DEF Begins, CallTypes, CallKnows, At
  <1>4. ASSUME NEW c \in Changesets, Produces(c) \/ ConflictCancelled(c), UNCHANGED call
        PROVE  IntegrationInv'
    BY <1>4, AsideKeeps DEF Produces, ConflictCancelled, CallKnows, At, TrailerNames
  <1>5. CASE UNCHANGED <<git, rows, call>>
    BY <1>5, AsideKeeps DEF CallKnows, At, TrailerNames
  <1> QED
    BY <1>1, <1>2, <1>3, <1>4, <1>5 DEF Move

LEMMA MoveGrows ==
  ASSUME IntegrationInv, Move
  PROVE  Overtaken \/ Ancestor(snapshot, snapshot')
  <1> USE DEF IntegrationInv, IntegrationTypeOK
  <1>1. CASE Record
    <2>1. call.changeset \in Changesets /\ call.at \in Commits
      BY <1>1, UnderWay DEF Record
    <2>2. ref[call.changeset].set /\ ref[call.changeset].at = call.at /\ Ancestor(call.at, head)
      BY <1>1, <2>1 DEF CallKnows, RefsNameHistory, Record
    <2>3. Ancestor(call.at, snapshot) \/ Ancestor(snapshot, call.at)
      BY <2>1, <2>2, Comparable
    <2> QED
      BY <1>1, <2>1, <2>2, <2>3, Itself DEF Record, Overtaken
  <1>2. CASE ~Record
    <2>1. snapshot' = snapshot
      BY <1>2 DEF Move, CallSteps, RefAnswers, TrailerAnswers, Drifts, Commit, PutRef,
         ApplyNothing, Conflict, RecordConflict, Returns, Begins, Produces, ConflictCancelled,
         rows
    <2> QED
      BY <2>1, Itself
  <1> QED
    BY <1>1, <1>2

LEMMA InitiallyOne == IntegrationInit => IntegrationInv
  BY DEF IntegrationInit, IntegrationInv, IntegrationTypeOK, Commits, CallTypes, NoRef, NoCall,
     Ancestor, Sound, RefsNameHistory, OnlyTheNewestLacksItsRef, Once, CallKnows, At

LEMMA IntegrationMoves == [IntegrationNext]_integrationVars => Move
  BY DEF IntegrationNext, integrationVars, Move, CallLost

LEMMA IntegrationHolds == IntegrationSpec => []IntegrationInv
  BY InitiallyOne, IntegrationMoves, MoveKeeps, PTL DEF IntegrationSpec

-----------------------------------------------------------------------------
\* Rows, refs, commits and the call keep their shapes through every call, lost or not.
THEOREM IntegrationTypes == IntegrationSpec => []IntegrationTypeOK
  <1>1. IntegrationInv => IntegrationTypeOK
    BY DEF IntegrationInv
  <1> QED
    BY <1>1, IntegrationHolds, PTL

\* For any Changesets: none is committed twice in the Integration Workspace, wherever a call
\* was lost and however often it was made again (apply's ref and trailer).
THEOREM AppliedOnce == IntegrationSpec => []Once(head)
  <1>1. IntegrationInv => Once(head)
    BY DEF IntegrationInv
  <1> QED
    BY <1>1, IntegrationHolds, PTL

\* For any Changesets: the Run's Snapshot is never taken back except by an overtaken call.
THEOREM SnapshotMovesForward == IntegrationSpec => SnapshotGrows
  <1>1. IntegrationInv /\ [IntegrationNext]_integrationVars =>
          [Overtaken \/ Ancestor(snapshot, snapshot')]_integrationVars
    BY IntegrationMoves, MoveGrows
  <1> QED
    BY <1>1, IntegrationHolds, PTL DEF IntegrationSpec, SnapshotGrows

-----------------------------------------------------------------------------
(***************************************************************************)
(* Why a Gate judges what was made for it, for any number of nodes, turns  *)
(* and troubles.  A Gate is opened on a Snapshot that holds its Changesets *)
(* unless the Snapshot was rolled back, so that a rollback must be final:  *)
(* a pass settles the root first and then the nodes in order, which leaves *)
(* the commits of lost calls in that order too (LeftInOrder), and the call *)
(* that rolls back is the first of them.                                   *)
(***************************************************************************)

GateRecords ==
  [status : {"open", "passed", "failed"}, snapshot : Commits, check : {"none", "pass", "fail"},
   evaluator : {"none", "queued", "running", "pass", "fail", "failed", "blocked", "answered"},
   task : {"none"} \cup OpenTask \cup TaskEnds, holder : Nat]
TurnRecords ==
  [purpose : {"node_result", "gate_result"},
   status : {"queued", "running", "completed", "unfinished", "failed", "blocked"},
   decision : {"none", "open", "resolved"},
   tasks : SUBSET (Nodes \X Nat), told : SUBSET Nodes]

GateTypeOK ==
  /\ run \in {"running", "failed"}
  /\ node \in [Nodes -> {"ready", "running", "decision", "conflict", "succeeded", "failed"}]
  /\ worker \in [Nodes -> {"none", "queued", "running", "retrying", "completed", "failed"}]
  /\ gates \in [Nodes -> Seq(GateRecords)]
  /\ turns \in Seq(TurnRecords) /\ Len(turns) <= MaxTurns

\* Only the call under way decides what becomes of a Changeset, and none is touched
\* before its Attempt succeeded.
CallDecides ==
  /\ At("apply") \/ At("ref") \/ At("record") \/ At("conflict") => change[call.changeset] = "pending"
  /\ At("ref") => ~ref[call.changeset].set
  /\ At("wait") => change[call.changeset] = "conflict"
  /\ \A c \in Changesets :
       /\ conflictTask[c] # "none" => change[c] = "conflict"
       /\ change[c] = "none" => ~ref[c].set /\ ~Holds(head, c)

\* The node goes on while its worker does, and until its Changeset is settled.
NodesFollowTheirWork ==
  \A n \in Nodes :
    /\ change[n] # "none" => worker[n] = "completed"
    /\ worker[n] \in {"queued", "running", "retrying"} \/ change[n] = "pending" => node[n] = "running"
    /\ node[n] = "ready" => worker[n] = "none"
    /\ gates[n] # <<>> => change[n] = "integrated"
    /\ node[n] = "decision" => gates[n] # <<>>

\* Only the latest turn has anything left to settle.
OnlyTheLatestOwes ==
  \A t \in 1..MaxTurns : change[TurnChangeset(t)] = "pending" => t = Len(turns) /\ TurnDone

TurnAgrees ==
  turns # <<>> =>
    /\ Turn.status = "blocked" => Turn.decision \in {"open", "resolved"}
    /\ Turn.tasks # {} => Turn.purpose = "gate_result"
    /\ \A w \in Turn.tasks :
         /\ w[2] \in DOMAIN gates[w[1]] /\ gates[w[1]][w[2]].task # "none"
         /\ Turn.status \in {"queued", "running", "blocked"} =>
              gates[w[1]][w[2]].task = "running" /\ gates[w[1]][w[2]].holder = Len(turns)
HeldByTheLatest ==
  \A n \in Nodes : \A k \in DOMAIN gates[n] :
    gates[n][k].task = "running" =>
      turns # <<>> /\ gates[n][k].holder = Len(turns) /\ <<n, k>> \in Turn.tasks

\* Another Gate is opened only for a Task that was completed, by a turn whose Changeset is settled.
EarlierCompleted ==
  \A n \in Nodes : \A k \in DOMAIN gates[n] :
    k < Len(gates[n]) => gates[n][k].task = "completed"
CompletedBy(t) == change[TurnChangeset(t)] = "integrated" \/ (t = Len(turns) /\ TurnDone)
CompletedByATurn ==
  \A n \in Nodes : \A k \in DOMAIN gates[n] :
    gates[n][k].task = "completed" =>
      gates[n][k].holder \in 1..Len(turns) /\ CompletedBy(gates[n][k].holder)

\* Changesets a lost call left in git, and the commit they will be recorded with.
Left(c) == change[c] = "pending" /\ (ref[c].set \/ TrailerNames(c))
Named(c) == IF ref[c].set THEN ref[c].at ELSE head
\* A pass settles the root first, then the nodes in order.
Before(c, d) == d \in Nodes /\ (c \in Nodes => c < d)
LeftInOrder ==
  \A c, d \in Changesets : Left(c) /\ Left(d) /\ Before(c, d) => Ancestor(Named(d), Named(c))
First(c) == \A d \in Changesets : Left(d) /\ d # c => Before(c, d)
FirstIsSettled ==
  ~Idle /\ ~At("wait") => First(call.changeset)
RolledBackForGood ==
  RolledBack => \A d \in Changesets : Left(d) => Ancestor(Named(d), snapshot)

GateInv ==
  /\ IntegrationInv /\ GateTypeOK /\ CallDecides
  /\ NodesFollowTheirWork /\ OnlyTheLatestOwes /\ TurnAgrees /\ HeldByTheLatest
  /\ LeftInOrder /\ FirstIsSettled /\ RolledBackForGood
  /\ EarlierCompleted /\ CompletedByATurn /\ JudgesTheWork
-----------------------------------------------------------------------------
(***************************************************************************)
(* The calls.                                                              *)
(***************************************************************************)
CallRecords ==
  [step : {"apply", "ref", "record", "conflict", "wait"}, changeset : Changesets, at : Commits]

\* What a Move may do to the status of a Changeset.
ChangesFollow ==
  \A c \in Changesets :
    \/ change'[c] = change[c]
    \/ change[c] = "none" /\ change'[c] = "pending" /\ Produces(c)
    \/ /\ change[c] = "pending" /\ change'[c] \in {"integrated", "conflict"}
       /\ ~Idle /\ ~At("wait") /\ c = call.changeset

LEMMA CallIs ==
  ASSUME IntegrationTypeOK, ~Idle
  PROVE  call \in CallRecords /\ call.changeset \in Changesets /\ call.at \in Commits
  BY DEF IntegrationTypeOK, CallTypes, CallRecords, Idle, NoCall

LEMMA ChangesStep ==
  ASSUME IntegrationInv, CallDecides, Move
  PROVE  ChangesFollow
  <1> USE DEF IntegrationInv, IntegrationTypeOK, ChangesFollow
  <1>1. CASE Record \/ RecordConflict
    <2>1. ~Idle /\ call.changeset \in Changesets /\ change[call.changeset] = "pending" /\ ~At("wait")
      BY <1>1, CallIs DEF Record, RecordConflict, Idle, At, CallDecides
    <2> QED
      BY <1>1, <2>1 DEF Record, RecordConflict
  <1>2. ASSUME NEW c \in Changesets, Produces(c)
        PROVE  ChangesFollow
    BY <1>2 DEF Produces
  <1>3. CASE UNCHANGED change
    BY <1>3
  <1> QED
    BY <1>1, <1>2, <1>3 DEF Move, CallSteps, RefAnswers, TrailerAnswers, Drifts, Commit, PutRef,
       ApplyNothing, Conflict, Returns, Begins, ConflictCancelled, rows

LEMMA DecidesStep ==
  ASSUME IntegrationInv, CallDecides, Move
  PROVE  CallDecides'
  <1> USE DEF IntegrationInv, IntegrationTypeOK
  <1>1. CASE CallSteps
    <2>1. ~Idle /\ call \in CallRecords /\ call.changeset \in Changesets
      BY <1>1, CallIs DEF CallSteps, RefAnswers, TrailerAnswers, Drifts, Commit, PutRef,
         ApplyNothing, Conflict, Record, RecordConflict, Unknown, Idle, At
    <2>2. CASE RefAnswers
      BY <2>1, <2>2 DEF RefAnswers, Answers, CallDecides, At, git, rows, Holds
    <2>3. CASE TrailerAnswers \/ PutRef
      BY <2>1, <2>3 DEF TrailerAnswers, PutRef, PutsRef, Answers, CallDecides, At, rows, Holds
    <2>4. CASE Drifts
      BY <2>4 DEF Drifts, NoCall, CallDecides, At, git, rows, Holds
    <2>5. CASE Commit
      <3>1. snapshot \in Commits /\ change[call.changeset] = "pending"
        BY <2>5 DEF Commit, Unknown, At, CallDecides
      <3>2. \A c \in Changesets : Holds(head', c) => c = call.changeset \/ Holds(head, c)
        BY <2>1, <2>5, <3>1 DEF Commit, InPlace, Holds, Commits
      <3> QED
        BY <2>1, <2>5, <3>1, <3>2 DEF Commit, Unknown, CallDecides, At, rows, CallRecords
    <2>6. CASE ApplyNothing
      BY <2>1, <2>6 DEF ApplyNothing, Unknown, InPlace, PutsRef, Answers, CallDecides, At, rows, Holds
    <2>7. CASE Conflict
      BY <2>1, <2>7 DEF Conflict, Unknown, InPlace, CallDecides, At, rows, CallRecords, Holds
    <2>8. CASE Record
      BY <2>1, <2>8 DEF Record, NoCall, CallDecides, At, git, Holds
    <2>9. CASE RecordConflict
      BY <2>1, <2>9 DEF RecordConflict, CallDecides, At, git, CallRecords, Holds
    <2> QED
      BY <1>1, <2>2, <2>3, <2>4, <2>5, <2>6, <2>7, <2>8, <2>9 DEF CallSteps
  <1>2. CASE Returns \/ (call' = NoCall /\ UNCHANGED <<git, rows>>)
    BY <1>2 DEF Returns, NoCall, CallDecides, At, git, rows, Holds
  <1>3. ASSUME NEW c \in Changesets, Begins(c)
        PROVE  CallDecides'
    BY <1>3 DEF Begins, CallDecides, At, git, rows, Holds
  <1>4. ASSUME NEW c \in Changesets, Produces(c) \/ ConflictCancelled(c), UNCHANGED call
        PROVE  CallDecides'
    <2>1. ~Idle => call.changeset \in Changesets
      BY CallIs
    <2> QED
      BY <1>4, <2>1 DEF Produces, ConflictCancelled, CallDecides, At, Idle, git, Holds
  <1>5. CASE UNCHANGED <<git, rows, call>>
    BY <1>5 DEF CallDecides, At, git, rows, Holds
  <1> QED
    BY <1>1, <1>2, <1>3, <1>4, <1>5 DEF Move

-----------------------------------------------------------------------------
(***************************************************************************)
(* What a lost call left in git is recorded before anything is put after   *)
(* it, so a Snapshot once rolled back never moves forward again.           *)
(***************************************************************************)
OrderInv == LeftInOrder /\ FirstIsSettled /\ RolledBackForGood
OrderKept == OrderInv' /\ (RolledBack => RolledBack')

\* Nothing was left that was not, and what was left keeps its commit.
LEMMA QuietOrder ==
  ASSUME OrderInv, UNCHANGED <<snapshot, head>>,
         \A d \in Changesets : Left(d)' => Left(d) /\ Named(d)' = Named(d),
         \A d \in Changesets : change'[d] = "integrated" <=> change[d] = "integrated",
         ~Idle' /\ ~At("wait")' => First(call.changeset)'
  PROVE  OrderKept
  <1>1. LeftInOrder' /\ FirstIsSettled'
    BY DEF OrderInv, LeftInOrder, FirstIsSettled, Before
  <1>2. RolledBack' <=> RolledBack
    BY DEF RolledBack, Holds
  <1> QED
    BY <1>1, <1>2 DEF OrderKept, OrderInv, RolledBackForGood, Ancestor

\* The newest is put after everything that was left.
LEMMA NewestOrder ==
  ASSUME OrderInv, NEW c \in Changesets, First(c), change[c] = "pending", InPlace,
         \A d \in Changesets : Holds(head', d) => d = c \/ Holds(head, d),
         \A d \in Changesets \ {c} :
           Left(d)' => Left(d) /\ Named(d)' = Named(d) /\ Ancestor(Named(d), head'),
         Named(c)' = head', UNCHANGED <<snapshot, change>>,
         ~Idle' /\ ~At("wait")' => call'.changeset = c
  PROVE  OrderKept
  <1>1. \A d \in Changesets : d # c /\ Left(d)' => Before(c, d) /\ ~Before(d, c)
    BY NodeGatesAssumption DEF First, Before, Nodes
  <1>2. LeftInOrder'
    <2> SUFFICES ASSUME NEW d \in Changesets, NEW e \in Changesets,
                        Left(d)', Left(e)', Before(d, e)
                 PROVE  Ancestor(Named(e)', Named(d)')
      BY DEF LeftInOrder, Before
    <2>1. ~Before(c, c)
      BY NodeGatesAssumption DEF Before, Nodes
    <2>2. e # c
      BY <1>1, <2>1
    <2>3. CASE d = c
      BY <2>2, <2>3
    <2>4. CASE d # c
      BY <2>2, <2>4 DEF OrderInv, LeftInOrder
    <2> QED
      BY <2>3, <2>4
  <1>3. FirstIsSettled'
    BY <1>1 DEF FirstIsSettled, First, Before
  <1>4. ~RolledBack /\ ~RolledBack'
    BY DEF RolledBack, InPlace, Holds
  <1> QED
    BY <1>2, <1>3, <1>4 DEF OrderKept, OrderInv, RolledBackForGood

LEMMA RecordOrder ==
  ASSUME IntegrationInv, CallDecides, OrderInv, Record
  PROVE  OrderKept
  <1> DEFINE c == call.changeset
  <1> USE DEF IntegrationInv, IntegrationTypeOK, Record, git, CallDecides
  <1>1. c \in Changesets /\ call.at \in Commits /\ change[c] = "pending" /\ First(c)
    BY CallIs DEF Idle, At, OrderInv, FirstIsSettled
  <1>2. Left(c) /\ Named(c) = snapshot'
    BY <1>1 DEF CallKnows, Left, Named
  <1>3. \A d \in Changesets : Left(d)' => d # c /\ Left(d) /\ Named(d)' = Named(d)
    BY <1>1 DEF Left, Named, TrailerNames
  <1>4. LeftInOrder' /\ FirstIsSettled'
    BY <1>3 DEF OrderInv, LeftInOrder, FirstIsSettled, Before, Idle, NoCall
  <1>5. \A d \in Changesets : Left(d)' => Ancestor(Named(d)', snapshot')
    BY <1>1, <1>2, <1>3 DEF OrderInv, LeftInOrder, First
  <1>6. ASSUME RolledBack
        PROVE  RolledBack'
    <2>1. PICK b \in Changesets :
            change[b] = "integrated" /\ Holds(head, b) /\ ~Holds(snapshot, b)
      BY <1>6 DEF RolledBack
    <2>2. Ancestor(snapshot', snapshot)
      BY <1>1, <1>2, <1>6 DEF OrderInv, RolledBackForGood
    <2>3. ~Holds(snapshot', b)
      <3>1. snapshot' \in Commits /\ Len(snapshot') \in Nat /\ Len(snapshot) \in Nat
        BY <1>1 DEF Commits
      <3> QED
        BY <2>1, <2>2, <3>1 DEF Holds, Ancestor
    <2>4. change'[b] = "integrated"
      BY <1>1, <2>1
    <2> QED
      BY <2>1, <2>3, <2>4 DEF RolledBack, Holds
  <1> QED
    BY <1>4, <1>5, <1>6 DEF OrderKept, OrderInv, RolledBackForGood

LEMMA OrderStep ==
  ASSUME IntegrationInv, CallDecides, OrderInv, Move,
         \A c \in Changesets : Begins(c) => First(c)
  PROVE  OrderKept
  <1> USE DEF IntegrationInv, IntegrationTypeOK
  <1>0. ~Idle => call \in CallRecords /\ call.changeset \in Changesets
    BY CallIs
  <1>1. CASE RefAnswers \/ Drifts \/ Conflict
    <2>1. ~Idle /\ ~At("wait") /\ call \in CallRecords /\ UNCHANGED <<snapshot, head, ref, change>>
      BY <1>0, <1>1 DEF RefAnswers, Drifts, Conflict, Unknown, InPlace, Idle, At, git, rows
    <2>2. ~Idle' /\ ~At("wait")' => call'.changeset = call.changeset
      BY <1>1, <2>1 DEF RefAnswers, Drifts, Conflict, Answers, Idle, NoCall, CallRecords
    <2> QED
      BY <2>1, <2>2, QuietOrder DEF OrderInv, FirstIsSettled, First, Left, Named, TrailerNames, Before
  <1>2. CASE TrailerAnswers \/ PutRef
    <2>0. PICK c \in Changesets : c = call.changeset
      BY <1>0, <1>2 DEF TrailerAnswers, PutRef, Idle, At
    <2>1. /\ ~Idle /\ ~At("wait") /\ c \in Changesets /\ UNCHANGED <<snapshot, head, change>>
          /\ ~ref[c].set /\ TrailerNames(c) /\ change[c] = "pending"
          /\ ref' = [ref EXCEPT ![c] = [set |-> TRUE, at |-> head]]
      BY <1>0, <1>2, <2>0 DEF TrailerAnswers, PutRef, PutsRef, Idle, At, rows, CallDecides, CallKnows
    <2>2. \A d \in Changesets : Left(d)' => Left(d) /\ Named(d)' = Named(d)
      BY <2>1 DEF Left, Named, TrailerNames
    <2>3. call'.changeset = c
      BY <1>2, <2>0 DEF TrailerAnswers, PutRef, Answers
    <2>4. First(c)'
      BY <2>0, <2>1, <2>2 DEF OrderInv, FirstIsSettled, First, Before
    <2> QED
      BY <2>1, <2>2, <2>3, <2>4, QuietOrder DEF First
  <1>3. CASE Commit \/ ApplyNothing
    <2>0. PICK c \in Changesets : c = call.changeset
      BY <1>0, <1>3 DEF Commit, ApplyNothing, Unknown, Idle, At
    <2>1. /\ c \in Changesets /\ First(c) /\ change[c] = "pending" /\ InPlace /\ Unknown
          /\ UNCHANGED <<snapshot, change>>
      BY <1>0, <1>3, <2>0 DEF Commit, ApplyNothing, Unknown, Idle, At, rows, CallDecides, OrderInv,
         FirstIsSettled
    <2>2. \A d \in Changesets : Left(d) => ref[d].set
      BY <2>1 DEF Left, TrailerNames, InPlace, Sound, Commits
    <2>3. /\ head' \in Commits /\ Ancestor(head, head') /\ \A a \in Commits : Ancestor(a, head) => Ancestor(a, head')
          /\ \A d \in Changesets : Holds(head', d) => d = c \/ Holds(head, d)
      <3>1. CASE Commit
        <4>1. head' = Append(head, c)
          BY <3>1, <2>0, <2>1 DEF Commit, InPlace
        <4> QED
          BY <2>1, <4>1, Committing, Itself DEF Holds, Commits
      <3>2. CASE ApplyNothing
        BY <3>2, <2>1, Itself DEF ApplyNothing, InPlace
      <3> QED
        BY <1>3, <3>1, <3>2
    <2>4. \A d \in Changesets \ {c} : ref'[d] = ref[d]
      BY <1>3, <2>0, <2>1 DEF Commit, ApplyNothing, PutsRef
    <2>5. ASSUME NEW d \in Changesets \ {c}, Left(d)'
          PROVE  Left(d) /\ Named(d)' = Named(d) /\ Ancestor(Named(d), head')
      <3>1. ref[d].set
        <4>1. CASE Commit
          <5>1. ~TrailerNames(d)'
            BY <4>1, <2>0, <2>1 DEF Commit, InPlace, TrailerNames, Commits
          <5> QED
            BY <5>1, <2>4, <2>5 DEF Left
        <4>2. CASE ApplyNothing
          BY <4>2, <2>1, <2>2, <2>4, <2>5 DEF ApplyNothing, InPlace, Left, TrailerNames
        <4> QED
          BY <1>3, <4>1, <4>2
      <3>2. ref[d].at \in Commits /\ Ancestor(ref[d].at, head)
        BY <3>1 DEF RefsNameHistory
      <3> QED
        BY <2>1, <2>3, <2>4, <2>5, <3>1, <3>2 DEF Left, Named
    <2>6. Named(c)' = head' /\ call'.changeset = c
      BY <1>0, <1>3, <2>0, <2>1 DEF Commit, ApplyNothing, PutsRef, Answers, Named, Unknown, InPlace,
         CallRecords, Idle, At
    <2> QED
      BY <2>1, <2>3, <2>5, <2>6, NewestOrder
  <1>4. CASE Record
    BY <1>4, RecordOrder
  <1>5. CASE RecordConflict
    <2>1. /\ ~Idle /\ call \in CallRecords /\ call.changeset \in Changesets
          /\ change[call.changeset] = "pending"
      BY <1>0, <1>5 DEF RecordConflict, Idle, At, CallDecides
    <2>2. At("wait")'
      BY <1>5, <2>1 DEF RecordConflict, At, CallRecords
    <2> QED
      BY <1>5, <2>1, <2>2, QuietOrder DEF RecordConflict, git, Left, Named, TrailerNames
  <1>6. CASE Returns \/ (call' = NoCall /\ UNCHANGED <<git, rows>>)
    BY <1>6, QuietOrder DEF Returns, Idle, NoCall, git, rows, Left, Named, TrailerNames
  <1>7. ASSUME NEW c \in Changesets, Begins(c)
        PROVE  OrderKept
    <2>1. call'.changeset = c /\ First(c) /\ UNCHANGED <<git, rows>>
      BY <1>7 DEF Begins
    <2> QED
      BY <2>1, QuietOrder DEF git, rows, Left, Named, TrailerNames, First, Before
  <1>8. ASSUME NEW c \in Changesets, Produces(c) \/ ConflictCancelled(c), UNCHANGED call
        PROVE  OrderKept
    <2>1. UNCHANGED <<head, ref, snapshot, call>>
      BY <1>8 DEF Produces, ConflictCancelled, git
    <2>2. \A d \in Changesets : Left(d)' => Left(d)
      <3>1. CASE Produces(c)
        <4>1. ~ref[c].set /\ ~TrailerNames(c)
          BY <3>1 DEF Produces, CallDecides, Holds, TrailerNames, Commits
        <4> QED
          BY <2>1, <3>1, <4>1 DEF Produces, Left, TrailerNames
      <3>2. CASE ConflictCancelled(c)
        BY <3>2, <2>1 DEF ConflictCancelled, Left, TrailerNames
      <3> QED
        BY <1>8, <3>1, <3>2
    <2>3. \A d \in Changesets : change'[d] = "integrated" <=> change[d] = "integrated"
      BY <1>8 DEF Produces, ConflictCancelled
    <2> QED
      BY <2>1, <2>2, <2>3, QuietOrder DEF OrderInv, FirstIsSettled, First, Named, Before, Idle, At
  <1>9. CASE UNCHANGED <<git, rows, call>>
    BY <1>9, QuietOrder DEF git, rows, OrderInv, FirstIsSettled, First, Left, Named, TrailerNames, Before, Idle, At
  <1> QED
    BY <1>1, <1>2, <1>3, <1>4, <1>5, <1>6, <1>7, <1>8, <1>9 DEF Move, CallSteps

-----------------------------------------------------------------------------
(***************************************************************************)
(* What the advice says of the rows.                                       *)
(***************************************************************************)
LEMMA RootSettles ==
  ASSUME RootIs("settle")
  PROVE  Idle /\ turns # <<>> /\ ToSettle /\ Turn.status \notin {"queued", "running"}
  BY DEF RootIs, RootAdvice, Passing

\* A turn is added, or Gates are looked at, only when nothing of the latest is left to settle.
LEMMA NothingToSettle ==
  ASSUME ~RootActs \/ RootIs("tell") \/ RootIs("remediate"), turns # <<>>, TurnDone
  PROVE  ~ToSettle
  BY DEF RootIs, RootAdvice, RootActs, TurnDone

LEMMA NothingLeft ==
  ASSUME RootIs("tell") \/ RootIs("remediate"), turns # <<>>
  PROVE  /\ ~ToSettle /\ Turn.status \notin {"queued", "running"}
         /\ ~(Turn.status = "blocked" /\ Turn.decision = "open")
  BY DEF RootIs, RootAdvice

LEMMA NodeSettles ==
  ASSUME NEW n \in Nodes, NodeIs(n, "settle")
  PROVE  /\ node[n] \notin {"ready", "decision", "conflict", "succeeded", "failed"}
         /\ worker[n] \notin {"queued", "running", "retrying"}
         /\ worker[n] = "failed" \/ change[n] # "integrated"
  <1>1. GateAdvice(n) # "settle"
    BY DEF GateAdvice
  <1>2. NodeAdvice(n) = "settle"
    BY DEF NodeIs
  <1> QED
    BY <1>1, <1>2 DEF NodeAdvice, Ended

LEMMA NodeAtGate ==
  ASSUME NEW n \in Nodes, NEW advice \in {"open", "check", "prepare", "execute", "settle_gate"},
         NodeIs(n, advice), worker[n] # "queued"
  PROVE  /\ node[n] \notin {"ready", "decision", "conflict", "succeeded", "failed"}
         /\ change[n] = "integrated" /\ GateAdvice(n) = advice
         /\ advice # "open" => gates[n] # <<>>
  BY DEF NodeIs, NodeAdvice, GateAdvice, Ended

LEMMA GateIs ==
  ASSUME GateTypeOK, NEW n \in Nodes, gates[n] # <<>>
  PROVE  Len(gates[n]) \in DOMAIN gates[n] /\ Gate(n) \in GateRecords
  BY DEF GateTypeOK, Gate

LEMMA TurnIs ==
  ASSUME GateTypeOK, turns # <<>>
  PROVE  /\ Len(turns) \in DOMAIN turns /\ Turn \in TurnRecords
         /\ Len(turns) \in 1..MaxTurns /\ OwnChangeset \in Changesets \ Nodes
  <1>1. Len(turns) \in DOMAIN turns /\ Turn \in TurnRecords /\ Len(turns) \in 1..MaxTurns
    BY NodeGatesAssumption DEF GateTypeOK, Turn
  <1> QED
    BY <1>1, NodeGatesAssumption DEF OwnChangeset, TurnChangeset, Nodes

LEMMA NodesAreChangesets == Nodes \subseteq Changesets
  BY NodeGatesAssumption DEF Nodes

LEMMA TurnChangesets ==
  ASSUME NEW t \in 1..MaxTurns
  PROVE  TurnChangeset(t) \in Changesets \ Nodes
  BY NodeGatesAssumption DEF TurnChangeset, Nodes

LEMMA AllChangesets ==
  ASSUME NEW c \in Changesets \ Nodes
  PROVE  \E t \in 1..MaxTurns : c = TurnChangeset(t)
  <1>1. c - NodeCount \in 1..MaxTurns /\ c = TurnChangeset(c - NodeCount)
    BY NodeGatesAssumption DEF TurnChangeset, Nodes
  <1> QED
    BY <1>1

-----------------------------------------------------------------------------
(***************************************************************************)
(* What a step does to git and to the rows of the calls.                   *)
(***************************************************************************)
LEMMA GateMoves ==
  ASSUME GateTypeOK, [Next]_vars
  PROVE  Move
  <1> USE DEF integrationVars
  <1>1. CASE RootSteps
    BY <1>1, TurnIs, RootSettles DEF RootSteps, ExecuteTurn, IntegrateTurn, ContinueTurn, SettleTasks, FailRun,
       TellEnded, Remediate, Move
  <1>2. CASE RootConflict
    BY <1>2 DEF RootConflict, Move
  <1>3. ASSUME NEW n \in Nodes, NodeSteps(n)
        PROVE  Move
    BY <1>3, NodesAreChangesets DEF NodeSteps, StartNode, ExecuteWorker, IntegrateWorker,
       WaitForConflict, FailNode, ResumeNode, Move
  <1>4. ASSUME NEW n \in Nodes, GateSteps(n)
        PROVE  Move
    BY <1>4 DEF GateSteps, OpenGate, RunChecks, PrepareEvaluator, ExecuteEvaluator, SettleGate, Move
  <1>5. CASE Call
    BY <1>5 DEF Call, CallLost, Move
  <1>6. CASE TurnReturns \/ TurnFails
    BY <1>6, TurnIs DEF TurnReturns, TurnFails, Move
  <1>7. ASSUME NEW n \in Nodes, WorkerEnds(n) \/ RetryDue(n) \/ EvaluatorEnds(n)
        PROVE  Move
    BY <1>7, NodesAreChangesets DEF WorkerEnds, RetryDue, EvaluatorEnds, Move
  <1>8. CASE TurnCancels
    BY <1>8, NodesAreChangesets DEF TurnCancels, Move
  <1>9. CASE Resolve \/ Crash
    BY <1>9 DEF Resolve, Crash, Move
  <1>10. CASE UNCHANGED vars
    BY <1>10 DEF vars, Move
  <1> QED
    BY <1>1, <1>2, <1>3, <1>4, <1>5, <1>6, <1>7, <1>8, <1>9, <1>10 DEF Next, Pass, AttemptEnds

\* A call is made only by the root for its latest turn, or by a node for its worker.
LEMMA WhoBegins ==
  ASSUME Next, NEW c \in Changesets, Begins(c)
  PROVE  \/ IntegrateTurn /\ c = OwnChangeset
         \/ \E n \in Nodes : IntegrateWorker(n) /\ c = n
  <1>1. call'.step = "apply" /\ call'.changeset = c /\ call.step = "none"
    BY DEF Begins, Idle
  <1>2. call' # call /\ call' # NoCall
    BY <1>1 DEF NoCall
  <1>3. ~CallSteps /\ ~CallLost /\ ~Returns
    BY <1>1 DEF CallSteps, CallLost, Returns, RefAnswers, TrailerAnswers, Drifts, Commit, PutRef,
       ApplyNothing, Conflict, Record, RecordConflict, Unknown, At, Idle
  <1> USE <1>2, <1>3 DEF integrationVars
  <1>4. CASE RootSteps
    BY <1>1, <1>4 DEF RootSteps, ExecuteTurn, IntegrateTurn, ContinueTurn, SettleTasks, FailRun,
       TellEnded, Remediate, Begins
  <1>5. ASSUME NEW n \in Nodes, NodeSteps(n)
        PROVE  IntegrateWorker(n) /\ c = n
    BY <1>1, <1>5 DEF NodeSteps, StartNode, ExecuteWorker, IntegrateWorker, WaitForConflict,
       FailNode, ResumeNode, Begins
  <1>6. ~RootConflict /\ ~Call /\ ~TurnReturns /\ ~TurnFails /\ ~TurnCancels /\ ~Resolve /\ ~Crash
    BY DEF RootConflict, Call, TurnReturns, TurnFails, TurnCancels, Resolve, Crash
  <1>7. \A n \in Nodes : ~GateSteps(n) /\ ~WorkerEnds(n) /\ ~RetryDue(n) /\ ~EvaluatorEnds(n)
    BY DEF GateSteps, OpenGate, RunChecks, PrepareEvaluator, ExecuteEvaluator, SettleGate,
       WorkerEnds, RetryDue, EvaluatorEnds
  <1> QED
    BY <1>4, <1>5, <1>6, <1>7 DEF Next, Pass, AttemptEnds

LEMMA BeginsInOrder ==
  ASSUME GateTypeOK, NodesFollowTheirWork, OnlyTheLatestOwes,
         [Next]_vars, NEW c \in Changesets, Begins(c)
  PROVE  First(c)
  <1>1. Next
    <2>1. call' # call
      BY DEF Begins, Idle
    <2> QED
      BY <2>1 DEF vars, integrationVars
  <1>2. CASE IntegrateTurn /\ c = OwnChangeset
    <2>1. turns # <<>>
      BY <1>2, RootSettles DEF IntegrateTurn
    <2>2. \A d \in Changesets \ Nodes : Left(d) => d = c
      BY <1>2, AllChangesets DEF OnlyTheLatestOwes, Left, OwnChangeset
    <2> QED
      BY <1>2, <2>1, <2>2, TurnIs DEF First, Before
  <1>3. ASSUME NEW n \in Nodes, IntegrateWorker(n), c = n
        PROVE  First(c)
    <2>1. NodeIs(n, "settle") /\ ~RootActs /\ \A m \in 1..n - 1 : ~NodeActs(m)
      BY <1>3 DEF IntegrateWorker, NodeIs
    <2>2. ASSUME NEW d \in Changesets \ Nodes, Left(d)
          PROVE  FALSE
      <3>1. PICK t \in 1..MaxTurns : d = TurnChangeset(t)
        BY AllChangesets
      <3>2. t = Len(turns) /\ TurnDone /\ d = OwnChangeset /\ change[d] = "pending"
        BY <2>2, <3>1 DEF OnlyTheLatestOwes, Left, OwnChangeset
      <3>3. turns # <<>> /\ ToSettle
        BY <3>2 DEF ToSettle, Outstanding
      <3> QED
        BY <2>1, <3>2, <3>3, NothingToSettle
    <2>3. ASSUME NEW d \in Nodes, Left(d), d < n
          PROVE  FALSE
      <3>1. node[d] = "running" /\ worker[d] = "completed" /\ change[d] = "pending"
        BY <2>3, NodesAreChangesets DEF NodesFollowTheirWork, Left
      <3>2. NodeAdvice(d) = "settle"
        BY <3>1 DEF NodeAdvice, Ended
      <3>3. d \in 1..n - 1
        BY <2>3, NodeGatesAssumption DEF Nodes
      <3> QED
        BY <2>1, <3>2, <3>3 DEF NodeActs
    <2> QED
      BY <1>3, <2>2, <2>3, NodeGatesAssumption DEF First, Before, Nodes
  <1> QED
    BY <1>1, <1>2, <1>3, WhoBegins

-----------------------------------------------------------------------------
(***************************************************************************)
(* What a step does to Gates and turns: most keep their Tasks, and never   *)
(* touch one that runs or is completed.                                    *)
(***************************************************************************)
SameGates(n) == Len(gates'[n]) = Len(gates[n]) /\ DOMAIN gates'[n] = DOMAIN gates[n]
TasksKept ==
  \A n \in Nodes : SameGates(n) /\ \A k \in DOMAIN gates[n] :
    /\ gates'[n][k].snapshot = gates[n][k].snapshot
    /\ \/ gates'[n][k].task = gates[n][k].task /\ gates'[n][k].holder = gates[n][k].holder
       \/ /\ gates[n][k].task \notin {"running", "completed"}
          /\ gates'[n][k].task \notin {"none", "running", "completed"}

\* The Gate g takes the place of the latest one.
Replaces(n, g) ==
  /\ g \in GateRecords /\ g.snapshot = Gate(n).snapshot
  /\ \/ g.task = Gate(n).task /\ g.holder = Gate(n).holder
     \/ /\ Gate(n).task \notin {"running", "completed"}
        /\ g.task \notin {"none", "running", "completed"}

LEMMA GateReplaced ==
  ASSUME GateTypeOK, NEW n \in Nodes, gates[n] # <<>>, NEW g, Replaces(n, g), SetGate(n, g)
  PROVE  gates' \in [Nodes -> Seq(GateRecords)] /\ TasksKept
  <1>1. /\ gates \in [Nodes -> Seq(GateRecords)] /\ Len(gates[n]) \in DOMAIN gates[n]
        /\ gates[n] \in Seq(GateRecords)
    BY DEF GateTypeOK
  <1>2. gates'[n] = [gates[n] EXCEPT ![Len(gates[n])] = g]
    BY <1>1 DEF SetGate
  <1>3. gates'[n] \in Seq(GateRecords) /\ SameGates(n)
    BY <1>1, <1>2 DEF Replaces, SameGates
  <1>4. \A m \in Nodes \ {n} : gates'[m] = gates[m]
    BY <1>1 DEF SetGate
  <1>5. gates' \in [Nodes -> Seq(GateRecords)]
    BY <1>1, <1>3, <1>4 DEF SetGate
  <1>6. \A k \in DOMAIN gates[n] : gates'[n][k] = IF k = Len(gates[n]) THEN g ELSE gates[n][k]
    BY <1>1, <1>2
  <1> QED
    BY <1>3, <1>4, <1>5, <1>6 DEF TasksKept, SameGates, Replaces, Gate

\* A check or an Evaluator of the Gate goes on.
LEMMA GateGoesOn ==
  ASSUME GateTypeOK, NEW n \in Nodes, gates[n] # <<>>,
         \/ \E v \in {"pass", "fail"} : SetGate(n, [Gate(n) EXCEPT !.check = v])
         \/ \E v \in {"queued", "running", "pass", "fail", "failed", "blocked", "answered"} :
              SetGate(n, [Gate(n) EXCEPT !.evaluator = v])
  PROVE  gates' \in [Nodes -> Seq(GateRecords)] /\ TasksKept
  <1>1. Gate(n) \in GateRecords
    BY GateIs
  <1>2. CASE \E v \in {"pass", "fail"} : SetGate(n, [Gate(n) EXCEPT !.check = v])
    <2>1. PICK v \in {"pass", "fail"} : SetGate(n, [Gate(n) EXCEPT !.check = v])
      BY <1>2
    <2>2. Replaces(n, [Gate(n) EXCEPT !.check = v])
      BY <1>1 DEF Replaces, GateRecords
    <2> QED
      BY <2>1, <2>2, GateReplaced
  <1>3. ASSUME NEW v \in {"queued", "running", "pass", "fail", "failed", "blocked", "answered"},
               SetGate(n, [Gate(n) EXCEPT !.evaluator = v])
        PROVE  gates' \in [Nodes -> Seq(GateRecords)] /\ TasksKept
    <2>1. Replaces(n, [Gate(n) EXCEPT !.evaluator = v])
      BY <1>1 DEF Replaces, GateRecords
    <2> QED
      BY <1>3, <2>1, GateReplaced
  <1> QED
    BY <1>2, <1>3

LEMMA SettleGateKeeps ==
  ASSUME GateTypeOK, NodesFollowTheirWork, NEW n \in Nodes, SettleGate(n)
  PROVE  /\ gates' \in [Nodes -> Seq(GateRecords)] /\ TasksKept
         /\ change[n] = "integrated" /\ gates[n] # <<>>
         /\ UNCHANGED integrationVars
  <1>1. NodeIs(n, "settle_gate") /\ UNCHANGED integrationVars
    BY DEF SettleGate
  <1>2. worker[n] # "queued"
    BY <1>1 DEF NodeIs, NodeAdvice, Ended
  <1>3. gates[n] # <<>> /\ GateAdvice(n) = "settle_gate" /\ change[n] = "integrated"
    BY <1>1, <1>2, NodeAtGate
  <1>4. Gate(n) \in GateRecords /\ Gate(n).task \notin OpenTask \cup {"completed"}
    BY <1>3, GateIs DEF GateAdvice
  <1>5. /\ Replaces(n, [Gate(n) EXCEPT !.status = "passed"])
        /\ Replaces(n, [Gate(n) EXCEPT !.status = "failed"])
        /\ Replaces(n, [Gate(n) EXCEPT !.status = "failed", !.task = "pending"])
    BY <1>4 DEF Replaces, GateRecords, OpenTask, TaskEnds
  <1>6. \/ UNCHANGED gates
        \/ \E g : Replaces(n, g) /\ SetGate(n, g)
    BY <1>5 DEF SettleGate
  <1>7. gates' \in [Nodes -> Seq(GateRecords)] /\ TasksKept
    <2>1. CASE UNCHANGED gates
      BY <2>1 DEF GateTypeOK, TasksKept, SameGates
    <2> QED
      BY <1>3, <1>6, <2>1, GateReplaced
  <1> QED
    BY <1>1, <1>3, <1>7

LEMMA CancelKeeps ==
  ASSUME GateTypeOK, TurnCancels
  PROVE  gates' \in [Nodes -> Seq(GateRecords)] /\ TasksKept
  <1>1. CASE UNCHANGED gates
    BY <1>1 DEF GateTypeOK, TasksKept, SameGates
  <1>2. ASSUME NEW n \in Remediable, SetGate(n, [Gate(n) EXCEPT !.task = "cancelled"])
        PROVE  gates' \in [Nodes -> Seq(GateRecords)] /\ TasksKept
    <2>1. n \in Nodes /\ gates[n] # <<>> /\ Gate(n).task \in {"pending", "blocked"}
      BY <1>2 DEF Remediable
    <2>2. Replaces(n, [Gate(n) EXCEPT !.task = "cancelled"])
      BY <2>1, GateIs DEF Replaces, GateRecords, TaskEnds
    <2> QED
      BY <1>2, <2>1, <2>2, GateReplaced
  <1> QED
    BY <1>1, <1>2 DEF TurnCancels

LEMMA MadeOf ==
  ASSUME NEW S, NEW m \in Nat, NEW s \in [1..m -> S]
  PROVE  s \in Seq(S) /\ Len(s) = m /\ DOMAIN s = 1..m
  OBVIOUS

LEMMA CrashKeeps ==
  ASSUME GateTypeOK, Crash
  PROVE  gates' \in [Nodes -> Seq(GateRecords)] /\ TasksKept
  <1>1. ASSUME NEW n \in Nodes
        PROVE  gates'[n] \in Seq(GateRecords) /\ SameGates(n)
    <2>1. gates[n] \in Seq(GateRecords) /\ DOMAIN gates[n] = 1..Len(gates[n]) /\ Len(gates[n]) \in Nat
          /\ \A k \in DOMAIN gates[n] : gates[n][k] \in GateRecords
      BY DEF GateTypeOK
    <2>2. gates'[n] = [k \in 1..Len(gates[n]) |->
            IF gates[n][k].evaluator = "running" THEN [gates[n][k] EXCEPT !.evaluator = "queued"]
            ELSE gates[n][k]]
      BY <2>1 DEF Crash
    <2>3. ASSUME NEW k \in 1..Len(gates[n])
          PROVE  gates'[n][k] \in GateRecords
      <3>1. gates[n][k] \in GateRecords
        BY <2>1
      <3> QED
        BY <2>2, <3>1 DEF GateRecords
    <2>4. gates'[n] \in [1..Len(gates[n]) -> GateRecords]
      BY <2>2, <2>3
    <2> QED
      BY <2>1, <2>4, MadeOf DEF SameGates
  <1>2. gates' \in [Nodes -> Seq(GateRecords)]
    BY <1>1 DEF Crash
  <1>3. ASSUME NEW n \in Nodes, NEW k \in DOMAIN gates[n]
        PROVE  /\ gates'[n][k].snapshot = gates[n][k].snapshot
               /\ gates'[n][k].task = gates[n][k].task /\ gates'[n][k].holder = gates[n][k].holder
    BY DEF Crash, GateTypeOK, GateRecords
  <1> QED
    BY <1>1, <1>2, <1>3 DEF TasksKept

LEMMA WithTasksIs ==
  ASSUME GateTypeOK, NEW works, NEW to, NEW t \in Nat,
         \A n \in Nodes : \A k \in DOMAIN gates[n] :
           <<n, k>> \in works => to[gates[n][k].task] \in {"none"} \cup OpenTask \cup TaskEnds,
         gates' = WithTasks(works, to, t)
  PROVE  /\ gates' \in [Nodes -> Seq(GateRecords)]
         /\ \A n \in Nodes : SameGates(n) /\ \A k \in DOMAIN gates[n] :
              IF <<n, k>> \in works
              THEN /\ gates'[n][k].task = to[gates[n][k].task] /\ gates'[n][k].holder = t
                   /\ gates'[n][k].snapshot = gates[n][k].snapshot
              ELSE gates'[n][k] = gates[n][k]
  <1>1. ASSUME NEW n \in Nodes
        PROVE  /\ gates'[n] \in Seq(GateRecords) /\ SameGates(n)
               /\ \A k \in DOMAIN gates[n] :
                    IF <<n, k>> \in works
                    THEN /\ gates'[n][k].task = to[gates[n][k].task] /\ gates'[n][k].holder = t
                         /\ gates'[n][k].snapshot = gates[n][k].snapshot
                    ELSE gates'[n][k] = gates[n][k]
    <2>1. gates[n] \in Seq(GateRecords) /\ DOMAIN gates[n] = 1..Len(gates[n]) /\ Len(gates[n]) \in Nat
          /\ \A k \in DOMAIN gates[n] : gates[n][k] \in GateRecords
      BY DEF GateTypeOK
    <2>2. gates'[n] = [k \in 1..Len(gates[n]) |->
            IF <<n, k>> \in works
            THEN [gates[n][k] EXCEPT !.task = to[gates[n][k].task], !.holder = t]
            ELSE gates[n][k]]
      BY <2>1 DEF WithTasks
    <2>3. ASSUME NEW k \in 1..Len(gates[n])
          PROVE  /\ gates'[n][k] \in GateRecords
                 /\ IF <<n, k>> \in works
                    THEN /\ gates'[n][k].task = to[gates[n][k].task] /\ gates'[n][k].holder = t
                         /\ gates'[n][k].snapshot = gates[n][k].snapshot
                    ELSE gates'[n][k] = gates[n][k]
      <3>1. gates[n][k] \in GateRecords
        BY <2>1
      <3>2. CASE <<n, k>> \in works
        <4>1. to[gates[n][k].task] \in {"none"} \cup OpenTask \cup TaskEnds
          BY <2>1, <3>2
        <4>2. gates'[n][k] = [gates[n][k] EXCEPT !.task = to[gates[n][k].task], !.holder = t]
          BY <2>2, <3>2
        <4> QED
          BY <3>1, <3>2, <4>1, <4>2 DEF GateRecords
      <3>3. CASE <<n, k>> \notin works
        BY <2>2, <3>1, <3>3
      <3> QED
        BY <3>2, <3>3
    <2>4. gates'[n] \in [1..Len(gates[n]) -> GateRecords]
      BY <2>2, <2>3
    <2>5. gates'[n] \in Seq(GateRecords) /\ SameGates(n)
      BY <2>1, <2>4, MadeOf DEF SameGates
    <2> QED
      BY <2>1, <2>3, <2>5
  <1>2. gates' \in [Nodes -> Seq(GateRecords)]
    BY <1>1 DEF WithTasks
  <1> QED
    BY <1>1, <1>2

LEMMA OpenGateAdds ==
  ASSUME GateTypeOK, IntegrationTypeOK, NEW n \in Nodes, OpenGate(n)
  PROVE  /\ gates' \in [Nodes -> Seq(GateRecords)]
         /\ \A m \in Nodes \ {n} : gates'[m] = gates[m]
         /\ Len(gates'[n]) = Len(gates[n]) + 1 /\ DOMAIN gates'[n] = 1..Len(gates[n]) + 1
         /\ \A k \in DOMAIN gates[n] : k \in DOMAIN gates'[n] /\ gates'[n][k] = gates[n][k]
         /\ gates'[n][Len(gates[n]) + 1] = NewGate
  <1>1. NewGate \in GateRecords
    BY DEF NewGate, GateRecords, IntegrationTypeOK
  <1>2. gates[n] \in Seq(GateRecords) /\ gates'[n] = Append(gates[n], NewGate)
        /\ \A m \in Nodes \ {n} : gates'[m] = gates[m]
    BY DEF GateTypeOK, OpenGate
  <1> QED
    BY <1>1, <1>2 DEF GateTypeOK, OpenGate

\* What a step leaves of the latest turn when it adds none.
TurnKept ==
  /\ turns' \in Seq(TurnRecords) /\ Len(turns') = Len(turns)
  /\ turns # <<>> =>
       /\ turns' # <<>> /\ Turn'.purpose = Turn.purpose /\ Turn'.tasks = Turn.tasks
       /\ TurnDone' <=> TurnDone
       /\ Turn'.status \in {"queued", "running", "blocked"} => Turn.status \in {"queued", "running", "blocked"}
       /\ Turn'.status = "blocked" =>
            \/ Turn'.decision \in {"open", "resolved"}
            \/ Turn.status = "blocked" /\ Turn'.decision = Turn.decision

LEMMA TurnSet ==
  ASSUME GateTypeOK, turns # <<>>
  PROVE  /\ \A v \in {"queued", "running", "completed", "unfinished", "failed", "blocked"} :
              SetTurn("status", v) =>
                /\ turns' \in Seq(TurnRecords) /\ Len(turns') = Len(turns) /\ turns' # <<>>
                /\ Turn' = [Turn EXCEPT !.status = v]
         /\ \A v \in {"open", "resolved"} :
              SetTurn("decision", v) =>
                /\ turns' \in Seq(TurnRecords) /\ Len(turns') = Len(turns) /\ turns' # <<>>
                /\ Turn' = [Turn EXCEPT !.decision = v]
  <1>1. turns \in Seq(TurnRecords) /\ Len(turns) \in DOMAIN turns /\ Turn \in TurnRecords
    BY TurnIs DEF GateTypeOK
  <1>2. ASSUME NEW r \in TurnRecords, turns' = [turns EXCEPT ![Len(turns)] = r]
        PROVE  turns' \in Seq(TurnRecords) /\ Len(turns') = Len(turns) /\ turns' # <<>> /\ Turn' = r
    BY <1>1, <1>2 DEF Turn
  <1>3. ASSUME NEW v \in {"queued", "running", "completed", "unfinished", "failed", "blocked"},
               SetTurn("status", v)
        PROVE  /\ [Turn EXCEPT !.status = v] \in TurnRecords
               /\ turns' = [turns EXCEPT ![Len(turns)] = [Turn EXCEPT !.status = v]]
    BY <1>1, <1>3 DEF SetTurn, Turn, TurnRecords
  <1>4. ASSUME NEW v \in {"open", "resolved"}, SetTurn("decision", v)
        PROVE  /\ [Turn EXCEPT !.decision = v] \in TurnRecords
               /\ turns' = [turns EXCEPT ![Len(turns)] = [Turn EXCEPT !.decision = v]]
    BY <1>1, <1>4 DEF SetTurn, Turn, TurnRecords
  <1> QED
    BY <1>2, <1>3, <1>4

LEMMA TurnAdded ==
  ASSUME GateTypeOK, NEW r \in TurnRecords, turns' = Append(turns, r), Len(turns) < MaxTurns
  PROVE  /\ turns' \in Seq(TurnRecords) /\ Len(turns') = Len(turns) + 1 /\ turns' # <<>>
         /\ Len(turns') \in 1..MaxTurns /\ Turn' = r
  <1>1. turns \in Seq(TurnRecords) /\ Len(turns) \in Nat
    BY DEF GateTypeOK
  <1>2. turns' \in Seq(TurnRecords) /\ Len(turns') = Len(turns) + 1 /\ turns'[Len(turns) + 1] = r
    BY <1>1
  <1>3. Len(turns') \in 1..MaxTurns
    BY <1>1, <1>2, NodeGatesAssumption
  <1> QED
    BY <1>1, <1>2, <1>3 DEF Turn

LEMMA SameTurns ==
  ASSUME GateTypeOK, UNCHANGED turns
  PROVE  TurnKept
  BY DEF GateTypeOK, TurnKept, Turn, TurnDone

LEMMA TurnGoesOn ==
  ASSUME GateTypeOK, ExecuteTurn \/ TurnFails \/ Resolve \/ Crash
  PROVE  TurnKept
  <1>1. CASE UNCHANGED turns
    BY <1>1, SameTurns
  <1>2. CASE ExecuteTurn
    <2>1. turns # <<>> /\ Turn.status = "queued" /\ SetTurn("status", "running")
      BY <1>2 DEF ExecuteTurn, RootIs, RootAdvice
    <2> QED
      BY <2>1, TurnSet, TurnIs DEF TurnKept, TurnDone, TurnRecords
  <1>3. CASE TurnFails /\ SetTurn("status", "failed")
    <2>1. turns # <<>> /\ Turn.status = "running"
      BY <1>3 DEF TurnFails
    <2> QED
      BY <1>3, <2>1, TurnSet, TurnIs DEF TurnKept, TurnDone, TurnRecords
  <1>4. CASE TurnFails /\ turns' = [turns EXCEPT ![Len(turns)].status = "blocked",
                                                 ![Len(turns)].decision = "open"]
    <2>1. turns # <<>> /\ Turn.status = "running" /\ Turn \in TurnRecords
          /\ turns \in Seq(TurnRecords) /\ Len(turns) \in DOMAIN turns
      BY <1>4, TurnIs DEF TurnFails, GateTypeOK
    <2>2. turns' = [turns EXCEPT ![Len(turns)] =
                      [Turn EXCEPT !.status = "blocked", !.decision = "open"]]
      BY <1>4, <2>1 DEF Turn
    <2>3. [Turn EXCEPT !.status = "blocked", !.decision = "open"] \in TurnRecords
      BY <2>1 DEF TurnRecords
    <2>4. /\ turns' \in Seq(TurnRecords) /\ Len(turns') = Len(turns) /\ turns' # <<>>
          /\ Turn' = [Turn EXCEPT !.status = "blocked", !.decision = "open"]
      BY <2>1, <2>2, <2>3 DEF Turn
    <2>5. /\ Turn'.purpose = Turn.purpose /\ Turn'.tasks = Turn.tasks
          /\ Turn'.status = "blocked" /\ Turn'.decision = "open"
      BY <2>1, <2>4 DEF TurnRecords
    <2>6. ~TurnDone /\ ~TurnDone'
      BY <2>1, <2>5 DEF TurnDone
    <2> QED
      BY <2>1, <2>4, <2>5, <2>6 DEF TurnKept
  <1>5. CASE turns # <<>> /\ SetTurn("decision", "resolved")
    <2>1. /\ Turn'.purpose = Turn.purpose /\ Turn'.tasks = Turn.tasks
          /\ Turn'.status = Turn.status /\ Turn'.decision = "resolved"
          /\ turns' \in Seq(TurnRecords) /\ Len(turns') = Len(turns) /\ turns' # <<>>
      BY <1>5, TurnSet, TurnIs DEF TurnRecords
    <2> QED
      BY <2>1 DEF TurnKept, TurnDone
  <1>6. CASE Crash
    <2>1. turns \in Seq(TurnRecords) /\ DOMAIN turns = 1..Len(turns) /\ Len(turns) \in Nat
          /\ \A t \in 1..Len(turns) : turns[t] \in TurnRecords
      BY DEF GateTypeOK
    <2>2. turns' = [t \in 1..Len(turns) |->
            IF turns[t].status = "running" THEN [turns[t] EXCEPT !.status = "queued"] ELSE turns[t]]
      BY <1>6, <2>1 DEF Crash
    <2>3. ASSUME NEW t \in 1..Len(turns)
          PROVE  turns'[t] \in TurnRecords
      <3>1. turns[t] \in TurnRecords
        BY <2>1
      <3> QED
        BY <2>2, <3>1 DEF TurnRecords
    <2>4. turns' \in [1..Len(turns) -> TurnRecords]
      BY <2>2, <2>3
    <2>5. turns' \in Seq(TurnRecords) /\ Len(turns') = Len(turns)
      BY <2>1, <2>4, MadeOf
    <2>6. CASE turns # <<>>
      <3>1. Len(turns) \in 1..Len(turns) /\ turns' # <<>> /\ Turn \in TurnRecords
        BY <2>1, <2>5, <2>6, TurnIs
      <3>2. Turn' = IF Turn.status = "running" THEN [Turn EXCEPT !.status = "queued"] ELSE Turn
        BY <2>2, <2>5, <3>1 DEF Turn
      <3> QED
        BY <2>5, <3>1, <3>2 DEF TurnKept, TurnDone, TurnRecords
    <2> QED
      BY <2>5, <2>6 DEF TurnKept
  <1> QED
    BY <1>1, <1>2, <1>3, <1>4, <1>5, <1>6 DEF TurnFails, Resolve

\* The steps that keep the turn and every Task: all but those of the root and OpenGate.
LEMMA StepsKeep ==
  ASSUME GateTypeOK, NodesFollowTheirWork,
         \/ ExecuteTurn \/ IntegrateTurn \/ FailRun \/ RootConflict \/ Call \/ TurnFails
         \/ TurnCancels \/ Resolve \/ Crash \/ UNCHANGED vars
         \/ \E n \in Nodes : NodeSteps(n) \/ RunChecks(n) \/ PrepareEvaluator(n) \/ ExecuteEvaluator(n)
                             \/ SettleGate(n) \/ WorkerEnds(n) \/ RetryDue(n) \/ EvaluatorEnds(n)
  PROVE  gates' \in [Nodes -> Seq(GateRecords)] /\ TasksKept /\ TurnKept
  <1> DEFINE Typed == gates' \in [Nodes -> Seq(GateRecords)]
  <1>1. UNCHANGED gates => Typed /\ TasksKept
    BY DEF GateTypeOK, TasksKept, SameGates
  <1>2. CASE ExecuteTurn \/ TurnFails
    BY <1>1, <1>2, TurnGoesOn DEF ExecuteTurn, TurnFails
  <1>3. CASE IntegrateTurn \/ FailRun \/ RootConflict \/ Call \/ UNCHANGED vars
    BY <1>1, <1>3, SameTurns DEF IntegrateTurn, FailRun, RootConflict, Call, gateVars, vars
  <1>4. CASE TurnCancels
    BY <1>4, CancelKeeps, SameTurns DEF TurnCancels
  <1>5. CASE Crash
    BY <1>5, CrashKeeps, TurnGoesOn
  <1>6. CASE Resolve
    <2>1. ASSUME NEW n \in Nodes, node[n] = "decision",
                 SetGate(n, [Gate(n) EXCEPT !.evaluator = "answered"])
          PROVE  Typed /\ TasksKept
      BY <2>1, GateGoesOn DEF NodesFollowTheirWork
    <2> QED
      BY <1>1, <1>6, <2>1, TurnGoesOn DEF Resolve
  <1>7. ASSUME NEW n \in Nodes, NodeSteps(n)
        PROVE  Typed /\ TasksKept /\ TurnKept
    <2>1. CASE ResumeNode(n)
      <3>1. node[n] = "decision" => gates[n] # <<>>
        BY DEF NodesFollowTheirWork
      <3> QED
        BY <1>1, <2>1, <3>1, GateGoesOn, SameTurns DEF ResumeNode
    <2> QED
      BY <1>1, <1>7, <2>1, SameTurns DEF NodeSteps, StartNode, ExecuteWorker, IntegrateWorker,
         WaitForConflict, FailNode, gateVars
  <1>8. ASSUME NEW n \in Nodes, RunChecks(n) \/ PrepareEvaluator(n) \/ ExecuteEvaluator(n)
        PROVE  Typed /\ TasksKept /\ TurnKept
    <2>1. worker[n] # "queued"
      BY <1>8 DEF RunChecks, PrepareEvaluator, ExecuteEvaluator, NodeIs, NodeAdvice, Ended
    <2>2. gates[n] # <<>>
      BY <1>8, <2>1, NodeAtGate DEF RunChecks, PrepareEvaluator, ExecuteEvaluator
    <2> QED
      BY <1>8, <2>2, GateGoesOn, SameTurns DEF RunChecks, PrepareEvaluator, ExecuteEvaluator
  <1>9. ASSUME NEW n \in Nodes, SettleGate(n)
        PROVE  Typed /\ TasksKept /\ TurnKept
    BY <1>9, SettleGateKeeps, SameTurns DEF SettleGate
  <1>10. ASSUME NEW n \in Nodes, WorkerEnds(n) \/ RetryDue(n) \/ EvaluatorEnds(n)
         PROVE  Typed /\ TasksKept /\ TurnKept
    <2>1. CASE EvaluatorEnds(n)
      <3>1. \E v \in {"queued", "running", "pass", "fail", "failed", "blocked", "answered"} :
              SetGate(n, [Gate(n) EXCEPT !.evaluator = v])
        BY <2>1 DEF EvaluatorEnds
      <3> QED
        BY <2>1, <3>1, GateGoesOn, SameTurns DEF EvaluatorEnds
    <2> QED
      BY <1>1, <1>10, <2>1, SameTurns DEF WorkerEnds, RetryDue
  <1> QED
    BY <1>2, <1>3, <1>4, <1>5, <1>6, <1>7, <1>8, <1>9, <1>10

-----------------------------------------------------------------------------
(***************************************************************************)
(* The Tasks of Gates and the turns that hold them.                        *)
(***************************************************************************)
TaskInv ==
  TurnAgrees /\ HeldByTheLatest /\ EarlierCompleted /\ CompletedByATurn /\ OnlyTheLatestOwes
\* No turn's Changeset becomes pending.
NoneOwesMore ==
  \A t \in 1..MaxTurns :
    change'[TurnChangeset(t)] = "pending" => change[TurnChangeset(t)] = "pending"
IntegratedStay ==
  \A c \in Changesets : change[c] = "integrated" => change'[c] = "integrated"

LEMMA KeptTasks ==
  ASSUME GateTypeOK, TaskInv, TasksKept, TurnKept, NoneOwesMore, IntegratedStay
  PROVE  TaskInv'
  <1> USE DEF TaskInv, TasksKept, SameGates
  <1>1. TurnAgrees'
    <2> SUFFICES ASSUME turns' # <<>>
                 PROVE  TurnAgrees'
      BY DEF TurnAgrees
    <2>1. turns # <<>> /\ Turn \in TurnRecords
      BY TurnIs DEF TurnKept, GateTypeOK
    <2>2. ASSUME NEW w \in Turn.tasks
          PROVE  /\ w[2] \in DOMAIN gates'[w[1]] /\ gates'[w[1]][w[2]].task # "none"
                 /\ Turn'.status \in {"queued", "running", "blocked"} =>
                      /\ gates'[w[1]][w[2]].task = "running"
                      /\ gates'[w[1]][w[2]].holder = Len(turns')
      <3>1. w[1] \in Nodes
        BY <2>1, <2>2 DEF TurnRecords
      <3>2. w[2] \in DOMAIN gates[w[1]] /\ gates[w[1]][w[2]].task # "none"
            /\ (Turn.status \in {"queued", "running", "blocked"} =>
                  gates[w[1]][w[2]].task = "running" /\ gates[w[1]][w[2]].holder = Len(turns))
        BY <2>1, <2>2 DEF TurnAgrees
      <3>3. Len(turns') = Len(turns)
            /\ (Turn'.status \in {"queued", "running", "blocked"} =>
                  Turn.status \in {"queued", "running", "blocked"})
        BY <2>1 DEF TurnKept
      <3> QED
        BY <3>1, <3>2, <3>3
    <2>3. /\ Turn'.status = "blocked" => Turn'.decision \in {"open", "resolved"}
          /\ Turn'.tasks # {} => Turn'.purpose = "gate_result"
      BY <2>1 DEF TurnKept, TurnAgrees
    <2>4. Turn'.tasks = Turn.tasks
      BY <2>1 DEF TurnKept
    <2> QED
      BY <2>2, <2>3, <2>4 DEF TurnAgrees
  <1>2. HeldByTheLatest'
    BY DEF HeldByTheLatest, TurnKept
  <1>3. EarlierCompleted'
    BY DEF EarlierCompleted
  <1>4. CompletedByATurn'
    <2> SUFFICES ASSUME NEW n \in Nodes, NEW k \in DOMAIN gates[n], gates'[n][k].task = "completed"
                 PROVE  gates'[n][k].holder \in 1..Len(turns') /\ CompletedBy(gates[n][k].holder)'
      BY DEF CompletedByATurn
    <2>1. PICK h \in 1..Len(turns) :
            gates[n][k].holder = h /\ gates'[n][k].holder = h /\ CompletedBy(h)
      BY DEF CompletedByATurn
    <2>2. TurnChangeset(h) \in Changesets
      BY <2>1, TurnChangesets, NodeGatesAssumption DEF GateTypeOK
    <2> QED
      BY <2>1, <2>2 DEF CompletedBy, TurnKept, IntegratedStay
  <1>5. OnlyTheLatestOwes'
    BY DEF OnlyTheLatestOwes, NoneOwesMore, TurnKept, TurnDone
  <1> QED
    BY <1>1, <1>2, <1>3, <1>4, <1>5

\* No Task runs when a turn is added that is no successor.
LEMMA NoneRuns ==
  ASSUME GateTypeOK, TaskInv, RootIs("tell") \/ RootIs("remediate")
  PROVE  \A n \in Nodes : \A k \in DOMAIN gates[n] : gates[n][k].task # "running"
  <1> SUFFICES ASSUME NEW n \in Nodes, NEW k \in DOMAIN gates[n], gates[n][k].task = "running"
               PROVE  FALSE
    OBVIOUS
  <1>1. turns # <<>> /\ <<n, k>> \in Turn.tasks
    BY DEF TaskInv, HeldByTheLatest
  <1>2. <<n, k>> \in Unsettled /\ Turn.purpose = "gate_result"
    BY <1>1 DEF Unsettled, TaskEnds, TaskInv, TurnAgrees
  <1>3. Turn.status = "blocked" => Turn.decision \in {"open", "resolved"}
    BY <1>1 DEF TaskInv, TurnAgrees
  <1> QED
    BY <1>1, <1>2, <1>3, NothingLeft DEF ToSettle

\* When the latest turn owes nothing, no turn does.
LEMMA NothingOwed ==
  ASSUME GateTypeOK, TaskInv, turns = <<>> \/ ~Outstanding
  PROVE  /\ \A t \in 1..MaxTurns : change[TurnChangeset(t)] # "pending"
         /\ \A n \in Nodes : \A k \in DOMAIN gates[n] :
              gates[n][k].task = "completed" =>
                /\ gates[n][k].holder \in 1..Len(turns)
                /\ change[TurnChangeset(gates[n][k].holder)] = "integrated"
  BY DEF TaskInv, OnlyTheLatestOwes, CompletedByATurn, CompletedBy, Outstanding, OwnChangeset,
     GateTypeOK

\* A turn is added, which takes over the Tasks "works".
LEMMA AddedTurn ==
  ASSUME GateTypeOK, TaskInv, UNCHANGED change, turns = <<>> \/ ~Outstanding,
         NEW r \in TurnRecords, turns' = Append(turns, r), Len(turns) < MaxTurns,
         r.status = "queued", r.tasks # {} => r.purpose = "gate_result",
         \A w \in r.tasks :
           /\ w[2] \in DOMAIN gates[w[1]] /\ gates[w[1]][w[2]].task \in OpenTask,
         \A n \in Nodes : SameGates(n) /\ \A k \in DOMAIN gates[n] :
           IF <<n, k>> \in r.tasks
           THEN gates'[n][k].task = "running" /\ gates'[n][k].holder = Len(turns) + 1
           ELSE gates'[n][k] = gates[n][k] /\ gates[n][k].task # "running"
  PROVE  TaskInv'
  <1>1. /\ turns' \in Seq(TurnRecords) /\ Len(turns') = Len(turns) + 1 /\ turns' # <<>>
        /\ Turn' = r /\ Len(turns) \in Nat
    BY TurnAdded DEF GateTypeOK
  <1>2. \A w \in r.tasks : w = <<w[1], w[2]>> /\ w[1] \in Nodes
    BY DEF TurnRecords
  <1>3. TurnAgrees'
    BY <1>1, <1>2 DEF TurnAgrees, SameGates
  <1>4. HeldByTheLatest'
    BY <1>1 DEF HeldByTheLatest, SameGates
  <1>5. ASSUME NEW n \in Nodes, NEW k \in DOMAIN gates[n]
        PROVE  /\ gates[n][k].task = "completed" => gates'[n][k] = gates[n][k]
               /\ gates'[n][k].task = "completed" => gates'[n][k] = gates[n][k]
    BY <1>2 DEF OpenTask
  <1>6. EarlierCompleted'
    BY <1>5 DEF TaskInv, EarlierCompleted, SameGates
  <1>7. CompletedByATurn'
    BY <1>1, <1>5, NothingOwed DEF CompletedByATurn, CompletedBy, SameGates
  <1>8. OnlyTheLatestOwes'
    BY NothingOwed DEF OnlyTheLatestOwes
  <1> QED
    BY <1>3, <1>4, <1>6, <1>7, <1>8 DEF TaskInv

\* What the root's other steps make of Gates and turns.
GatesTyped == gates' \in [Nodes -> Seq(GateRecords)]
TurnsTyped == turns' \in Seq(TurnRecords) /\ Len(turns') <= MaxTurns
\* Neither the Snapshot of a Gate nor a completed Task is touched.
CompletedStay ==
  \A n \in Nodes : SameGates(n) /\ \A k \in DOMAIN gates[n] :
    /\ gates'[n][k].snapshot = gates[n][k].snapshot
    /\ gates[n][k].task = "completed" =>
         gates'[n][k].task = "completed" /\ gates'[n][k].holder = gates[n][k].holder

LEMMA TellStep ==
  ASSUME GateTypeOK, TaskInv, TellEnded
  PROVE  GatesTyped /\ TurnsTyped /\ CompletedStay /\ TaskInv'
  <1> DEFINE r == NewTurn("node_result", {}, Untold)
  <1>1. r \in TurnRecords /\ r.status = "queued" /\ r.tasks = {}
    BY DEF NewTurn, TurnRecords, Untold
  <1>2. turns' = Append(turns, r) /\ Len(turns) < MaxTurns /\ UNCHANGED <<gates, change>>
    BY DEF TellEnded, integrationVars, rows
  <1>3. turns = <<>> \/ ~Outstanding
    BY NothingLeft DEF TellEnded, ToSettle
  <1>4. \A n \in Nodes : SameGates(n)
    BY <1>2 DEF SameGates
  <1>5. \A n \in Nodes : \A k \in DOMAIN gates[n] : gates[n][k].task # "running"
    BY NoneRuns DEF TellEnded
  <1> HIDE DEF r
  <1>6. TaskInv'
    BY <1>1, <1>2, <1>3, <1>4, <1>5, AddedTurn
  <1> QED
    BY <1>1, <1>2, <1>4, <1>6, TurnAdded, NodeGatesAssumption
    DEF GatesTyped, TurnsTyped, CompletedStay, GateTypeOK

LEMMA RemediateStep ==
  ASSUME GateTypeOK, TaskInv, Remediate
  PROVE  GatesTyped /\ TurnsTyped /\ CompletedStay /\ TaskInv'
  <1> DEFINE works == {<<n, Len(gates[n])>> : n \in Remediable}
             r == NewTurn("gate_result", works, {})
  <1>1. \A w \in works : /\ w = <<w[1], w[2]>> /\ w[1] \in Nodes /\ w[2] \in DOMAIN gates[w[1]]
                         /\ w[2] \in Nat /\ gates[w[1]][w[2]].task \in {"pending", "blocked"}
    BY GateIs DEF Remediable, GateTypeOK, Gate
  <1>2. r \in TurnRecords /\ r.status = "queued" /\ r.tasks = works /\ r.purpose = "gate_result"
    BY <1>1 DEF NewTurn, TurnRecords
  <1>3. /\ turns' = Append(turns, r) /\ Len(turns) < MaxTurns /\ UNCHANGED change
        /\ gates' = WithTasks(works, Assigned, Len(turns) + 1)
    BY DEF Remediate, integrationVars, rows
  <1>4. turns = <<>> \/ ~Outstanding
    BY NothingLeft DEF Remediate, ToSettle
  <1>5. \A n \in Nodes : \A k \in DOMAIN gates[n] : gates[n][k].task # "running"
    BY NoneRuns DEF Remediate
  <1> HIDE DEF works, r
  <1>6. \A n \in Nodes : \A k \in DOMAIN gates[n] :
          <<n, k>> \in works => /\ gates[n][k].task \in {"pending", "blocked"}
                                /\ Assigned[gates[n][k].task] = "running"
    BY <1>1 DEF Assigned, OpenTask
  <1>7. /\ GatesTyped
        /\ \A n \in Nodes : SameGates(n) /\ \A k \in DOMAIN gates[n] :
              IF <<n, k>> \in works
              THEN /\ gates'[n][k].task = "running" /\ gates'[n][k].holder = Len(turns) + 1
                   /\ gates'[n][k].snapshot = gates[n][k].snapshot
              ELSE gates'[n][k] = gates[n][k]
    <2>1. Len(turns) + 1 \in Nat
      BY DEF GateTypeOK
    <2> QED
      BY <1>3, <1>6, <2>1, WithTasksIs DEF GatesTyped, OpenTask
  <1>10. TaskInv'
    BY <1>1, <1>2, <1>3, <1>4, <1>5, <1>7, AddedTurn DEF OpenTask
  <1>11. CompletedStay
    BY <1>6, <1>7 DEF CompletedStay
  <1> QED
    BY <1>2, <1>3, <1>7, <1>10, <1>11, TurnAdded, NodeGatesAssumption DEF TurnsTyped

LEMMA ContinueStep ==
  ASSUME GateTypeOK, TaskInv, ContinueTurn
  PROVE  GatesTyped /\ TurnsTyped /\ CompletedStay /\ TaskInv'
  <1> DEFINE r == NewTurn(Turn.purpose, Turn.tasks, Turn.told)
  <1>1. turns # <<>> /\ Turn \in TurnRecords /\ Turn.status = "blocked"
    BY RootSettles, TurnIs DEF ContinueTurn
  <1>2. r \in TurnRecords /\ r.status = "queued" /\ r.tasks = Turn.tasks /\ r.purpose = Turn.purpose
    BY <1>1 DEF NewTurn, TurnRecords
  <1>3. /\ turns' = Append(turns, r) /\ Len(turns) < MaxTurns /\ UNCHANGED change
        /\ gates' = WithTasks(Unsettled, Assigned, Len(turns) + 1)
    BY DEF ContinueTurn, integrationVars, rows
  <1>4. ~Outstanding
    BY <1>1 DEF Outstanding, TurnDone
  <1>5. \A w \in Turn.tasks :
          /\ w = <<w[1], w[2]>> /\ w[1] \in Nodes /\ w[2] \in DOMAIN gates[w[1]]
          /\ gates[w[1]][w[2]].task = "running"
    BY <1>1 DEF TaskInv, TurnAgrees, TurnRecords
  <1>6. Unsettled = Turn.tasks
    BY <1>5 DEF Unsettled, TaskEnds
  <1> HIDE DEF r
  <1>7. \A n \in Nodes : \A k \in DOMAIN gates[n] :
          <<n, k>> \in Unsettled => /\ gates[n][k].task = "running"
                                    /\ Assigned[gates[n][k].task] = "running"
    BY <1>5, <1>6 DEF Assigned, OpenTask
  <1>8. /\ GatesTyped
        /\ \A n \in Nodes : SameGates(n) /\ \A k \in DOMAIN gates[n] :
              IF <<n, k>> \in Unsettled
              THEN /\ gates'[n][k].task = "running" /\ gates'[n][k].holder = Len(turns) + 1
                   /\ gates'[n][k].snapshot = gates[n][k].snapshot
              ELSE gates'[n][k] = gates[n][k]
    <2>1. Len(turns) + 1 \in Nat
      BY DEF GateTypeOK
    <2> QED
      BY <1>3, <1>7, <2>1, WithTasksIs DEF GatesTyped, OpenTask
  <1>11. \A n \in Nodes : \A k \in DOMAIN gates[n] :
           gates[n][k].task = "running" => <<n, k>> \in Turn.tasks
    BY DEF TaskInv, HeldByTheLatest
  <1>12. Turn.tasks # {} => Turn.purpose = "gate_result"
    BY <1>1 DEF TaskInv, TurnAgrees
  <1>13. TaskInv'
    BY <1>2, <1>3, <1>4, <1>5, <1>6, <1>8, <1>11, <1>12, AddedTurn DEF OpenTask
  <1>14. CompletedStay
    BY <1>7, <1>8 DEF CompletedStay
  <1> QED
    BY <1>2, <1>3, <1>8, <1>13, <1>14, TurnAdded, NodeGatesAssumption DEF TurnsTyped

LEMMA SettleStep ==
  ASSUME GateTypeOK, TaskInv, SettleTasks
  PROVE  GatesTyped /\ TurnsTyped /\ CompletedStay /\ TaskInv'
  <1> DEFINE to == IF Turn.status = "completed" THEN Addressed ELSE EndedTask
  <1>1. /\ turns # <<>> /\ Turn \in TurnRecords /\ Turn.status \notin {"queued", "running", "blocked"}
        /\ Len(turns) \in 1..MaxTurns
    BY RootSettles, TurnIs DEF SettleTasks
  <1>2. UNCHANGED <<turns, change>> /\ gates' = WithTasks(Unsettled, to, Len(turns))
    BY DEF SettleTasks, integrationVars, rows
  <1>3. ASSUME NEW n \in Nodes, NEW k \in DOMAIN gates[n], <<n, k>> \in Unsettled
        PROVE  /\ gates[n][k].task \in OpenTask /\ to[gates[n][k].task] \in TaskEnds
               /\ to[gates[n][k].task] = "completed" => Turn.status = "completed"
    <2>1. gates[n][k].task # "none" /\ gates[n][k].task \notin TaskEnds
      BY <1>1, <1>3 DEF Unsettled, TaskInv, TurnAgrees
    <2>2. gates[n][k] \in GateRecords
      BY DEF GateTypeOK
    <2>3. gates[n][k].task \in OpenTask
      BY <2>1, <2>2 DEF GateRecords
    <2> QED
      BY <2>3 DEF Addressed, EndedTask, TaskEnds, OpenTask
  <1>4. /\ GatesTyped
        /\ \A n \in Nodes : SameGates(n) /\ \A k \in DOMAIN gates[n] :
              IF <<n, k>> \in Unsettled
              THEN /\ gates'[n][k].task = to[gates[n][k].task] /\ gates'[n][k].holder = Len(turns)
                   /\ gates'[n][k].snapshot = gates[n][k].snapshot
              ELSE gates'[n][k] = gates[n][k]
    <2> HIDE DEF to
    <2> QED
      BY <1>1, <1>2, <1>3, WithTasksIs DEF GatesTyped
  <1> HIDE DEF to
  <1>5. ASSUME NEW n \in Nodes, NEW k \in DOMAIN gates[n]
        PROVE  /\ gates[n][k].task = "completed" => gates'[n][k] = gates[n][k]
               /\ gates[n][k].task # "none" => gates'[n][k].task # "none"
               /\ gates'[n][k].task # "running"
               /\ gates'[n][k].task = "completed" =>
                    \/ gates'[n][k] = gates[n][k]
                    \/ gates'[n][k].holder = Len(turns) /\ TurnDone
    <2>1. CASE <<n, k>> \in Unsettled
      BY <1>3, <1>4, <2>1 DEF TaskEnds, OpenTask, TurnDone
    <2>2. CASE <<n, k>> \notin Unsettled
      <3>1. gates'[n][k] = gates[n][k]
        BY <1>4, <2>2
      <3>2. gates[n][k].task = "running" => <<n, k>> \in Unsettled
        BY DEF TaskInv, HeldByTheLatest, Unsettled, TaskEnds
      <3> QED
        BY <2>2, <3>1, <3>2
    <2> QED
      BY <2>1, <2>2
  <1>6. CompletedStay
    BY <1>4, <1>5 DEF CompletedStay
  <1>7. Turn' = Turn /\ (TurnDone' <=> TurnDone)
    BY <1>2 DEF Turn, TurnDone
  <1>8. TurnAgrees'
    <2>1. \A w \in Turn.tasks : w[1] \in Nodes
      BY <1>1 DEF TurnRecords
    <2>2. \A w \in Turn.tasks : /\ w[2] \in DOMAIN gates'[w[1]]
                                /\ gates'[w[1]][w[2]].task # "none"
      BY <1>1, <1>4, <1>5, <2>1 DEF TaskInv, TurnAgrees, SameGates
    <2> QED
      BY <1>1, <1>2, <1>7, <2>2 DEF TaskInv, TurnAgrees
  <1>9. HeldByTheLatest'
    BY <1>4, <1>5 DEF HeldByTheLatest, SameGates
  <1>10. EarlierCompleted'
    BY <1>4, <1>5 DEF TaskInv, EarlierCompleted, SameGates
  <1>11. CompletedByATurn'
    BY <1>1, <1>2, <1>4, <1>5, <1>7 DEF TaskInv, CompletedByATurn, CompletedBy, SameGates
  <1>12. OnlyTheLatestOwes'
    BY <1>2, <1>7 DEF TaskInv, OnlyTheLatestOwes
  <1> QED
    BY <1>1, <1>2, <1>4, <1>6, <1>8, <1>9, <1>10, <1>11, <1>12 DEF TurnsTyped, TaskInv, GateTypeOK

LEMMA ReturnStep ==
  ASSUME IntegrationTypeOK, GateTypeOK, TaskInv, IntegratedStay, TurnReturns
  PROVE  GatesTyped /\ TurnsTyped /\ CompletedStay /\ TaskInv'
  <1>1. /\ turns # <<>> /\ Turn \in TurnRecords /\ Turn.status = "running"
        /\ Len(turns) \in 1..MaxTurns
    BY TurnIs DEF TurnReturns
  <1>2. PICK end \in {"completed", "unfinished"}, report \in {"running", "completed", "blocked"} :
          /\ SetTurn("status", end)
          /\ gates' = WithTasks(Turn.tasks, [task \in OpenTask \cup TaskEnds |->
                        IF task = "running" THEN report ELSE task], Len(turns))
    BY DEF TurnReturns
  <1> DEFINE to == [task \in OpenTask \cup TaskEnds |-> IF task = "running" THEN report ELSE task]
  <1>3. /\ turns' \in Seq(TurnRecords) /\ Len(turns') = Len(turns) /\ turns' # <<>>
        /\ Turn' = [Turn EXCEPT !.status = end]
    BY <1>1, <1>2, TurnSet
  <1>4. /\ Turn'.status = end /\ Turn'.tasks = Turn.tasks /\ Turn'.purpose = Turn.purpose
        /\ TurnDone'
    BY <1>1, <1>3 DEF TurnRecords, TurnDone
  <1>5. ASSUME NEW n \in Nodes, NEW k \in DOMAIN gates[n], <<n, k>> \in Turn.tasks
        PROVE  gates[n][k].task = "running" /\ to[gates[n][k].task] = report
    BY <1>1, <1>5 DEF TaskInv, TurnAgrees, OpenTask
  <1>6. /\ GatesTyped
        /\ \A n \in Nodes : SameGates(n) /\ \A k \in DOMAIN gates[n] :
              IF <<n, k>> \in Turn.tasks
              THEN /\ gates'[n][k].task = report /\ gates'[n][k].holder = Len(turns)
                   /\ gates'[n][k].snapshot = gates[n][k].snapshot
              ELSE gates'[n][k] = gates[n][k]
    <2>1. gates' = WithTasks(Turn.tasks, to, Len(turns))
      BY <1>2
    <2>2. report \in {"none"} \cup OpenTask \cup TaskEnds
      BY DEF OpenTask, TaskEnds
    <2> HIDE DEF to
    <2> QED
      BY <1>1, <1>5, <2>1, <2>2, WithTasksIs DEF GatesTyped
  <1> HIDE DEF to
  <1>7. ASSUME NEW n \in Nodes, NEW k \in DOMAIN gates[n]
        PROVE  /\ gates[n][k].task = "completed" => gates'[n][k] = gates[n][k]
               /\ gates'[n][k].task = "running" =>
                    <<n, k>> \in Turn.tasks /\ gates'[n][k].holder = Len(turns)
               /\ gates'[n][k].task = "completed" =>
                    gates'[n][k] = gates[n][k] \/ gates'[n][k].holder = Len(turns)
    BY <1>5, <1>6 DEF TaskInv, HeldByTheLatest
  <1>8. CompletedStay
    BY <1>5, <1>6, <1>7 DEF CompletedStay
  <1>9. TurnAgrees'
    <2>1. \A w \in Turn.tasks : w = <<w[1], w[2]>> /\ w[1] \in Nodes
      BY <1>1 DEF TurnRecords
    <2>2. \A w \in Turn.tasks : /\ w[2] \in DOMAIN gates'[w[1]]
                                /\ gates'[w[1]][w[2]].task # "none"
      BY <1>1, <1>6, <2>1 DEF TaskInv, TurnAgrees, SameGates
    <2> QED
      BY <1>1, <1>3, <1>4, <2>2 DEF TaskInv, TurnAgrees
  <1>10. HeldByTheLatest'
    BY <1>3, <1>4, <1>6, <1>7 DEF HeldByTheLatest, SameGates
  <1>11. EarlierCompleted'
    <2>1. \A n \in Nodes : \A k \in DOMAIN gates[n] :
            gates[n][k].task = "completed" => gates'[n][k].task = "completed"
      BY <1>7
    <2>2. \A n \in Nodes : SameGates(n)
      BY <1>6
    <2> QED
      BY <2>1, <2>2 DEF TaskInv, EarlierCompleted, SameGates
  <1>12. CompletedByATurn'
    <2> SUFFICES ASSUME NEW n \in Nodes, NEW k \in DOMAIN gates[n], gates'[n][k].task = "completed"
                 PROVE  gates'[n][k].holder \in 1..Len(turns') /\ CompletedBy(gates[n][k].holder)'
      BY <1>6 DEF CompletedByATurn, SameGates
    <2>1. CASE gates'[n][k].holder = Len(turns)
      BY <1>1, <1>3, <1>4, <2>1 DEF CompletedBy
    <2>2. CASE gates'[n][k] = gates[n][k]
      <3>1. PICK h \in 1..Len(turns) : gates[n][k].holder = h /\ change[TurnChangeset(h)] = "integrated"
        BY <1>1, <2>2 DEF TaskInv, CompletedByATurn, CompletedBy, TurnDone
      <3>2. TurnChangeset(h) \in Changesets
        BY <3>1, TurnChangesets, NodeGatesAssumption DEF GateTypeOK
      <3> QED
        BY <1>3, <2>2, <3>1, <3>2 DEF CompletedBy, IntegratedStay
    <2> QED
      BY <1>7, <2>1, <2>2
  <1>13. OnlyTheLatestOwes'
    <2> SUFFICES ASSUME NEW t \in 1..MaxTurns, change'[TurnChangeset(t)] = "pending"
                 PROVE  t = Len(turns)
      BY <1>3, <1>4 DEF OnlyTheLatestOwes
    <2>1. change[TurnChangeset(t)] # "pending"
      BY <1>1 DEF TaskInv, OnlyTheLatestOwes, TurnDone
    <2>2. change' = [change EXCEPT ![OwnChangeset] = "pending"]
      BY DEF TurnReturns, Produces
    <2>3. TurnChangeset(t) = OwnChangeset
      BY <2>1, <2>2, TurnChangesets DEF IntegrationTypeOK
    <2> QED
      BY <1>1, <2>3, NodeGatesAssumption DEF OwnChangeset, TurnChangeset
  <1> QED
    BY <1>1, <1>3, <1>6, <1>8, <1>9, <1>10, <1>11, <1>12, <1>13 DEF TurnsTyped, TaskInv, GateTypeOK

LEMMA OpenStep ==
  ASSUME IntegrationTypeOK, GateTypeOK, TaskInv, NEW n \in Nodes, OpenGate(n)
  PROVE  GatesTyped /\ TurnsTyped /\ TaskInv'
  <1>1. /\ GatesTyped
        /\ \A m \in Nodes \ {n} : gates'[m] = gates[m]
        /\ Len(gates'[n]) = Len(gates[n]) + 1 /\ DOMAIN gates'[n] = 1..Len(gates[n]) + 1
        /\ \A k \in DOMAIN gates[n] : k \in DOMAIN gates'[n] /\ gates'[n][k] = gates[n][k]
        /\ gates'[n][Len(gates[n]) + 1].task = "none"
    BY OpenGateAdds DEF GatesTyped, NewGate
  <1>2. UNCHANGED <<turns, change>> /\ NodeIs(n, "open")
    BY DEF OpenGate, integrationVars, rows
  <1>3. gates[n] # <<>> => Gate(n).task = "completed"
    <2>1. worker[n] # "queued"
      BY <1>2 DEF NodeIs, NodeAdvice, Ended
    <2>2. GateAdvice(n) = "open"
      BY <1>2, <2>1, NodeAtGate
    <2> QED
      BY <2>2 DEF GateAdvice
  <1>4. gates[n] \in Seq(GateRecords) /\ DOMAIN gates[n] = 1..Len(gates[n]) /\ Len(gates[n]) \in Nat
    BY DEF GateTypeOK
  <1>5. ASSUME NEW m \in Nodes, NEW k \in DOMAIN gates'[m], gates'[m][k].task # "none"
        PROVE  k \in DOMAIN gates[m] /\ gates'[m][k] = gates[m][k]
    BY <1>1, <1>4, <1>5
  <1>6. \A m \in Nodes : \A k \in DOMAIN gates[m] : k \in DOMAIN gates'[m] /\ gates'[m][k] = gates[m][k]
    BY <1>1
  <1>7. TurnAgrees'
    <2>1. turns # <<>> => \A w \in Turn.tasks : w[1] \in Nodes
      BY TurnIs DEF TurnRecords
    <2> QED
      BY <1>2, <1>6, <2>1 DEF TaskInv, TurnAgrees, Turn
  <1>8. HeldByTheLatest'
    BY <1>2, <1>5 DEF TaskInv, HeldByTheLatest, Turn
  <1>9. EarlierCompleted'
    <2> SUFFICES ASSUME NEW m \in Nodes, NEW k \in DOMAIN gates'[m], k < Len(gates'[m])
                 PROVE  gates'[m][k].task = "completed"
      BY DEF EarlierCompleted
    <2>1. CASE m = n
      <3>1. k \in 1..Len(gates[n]) /\ gates'[n][k] = gates[n][k]
        BY <1>1, <1>4, <2>1
      <3>2. CASE k = Len(gates[n])
        BY <1>3, <1>4, <2>1, <3>1, <3>2 DEF Gate
      <3>3. CASE k # Len(gates[n])
        BY <1>4, <2>1, <3>1, <3>3 DEF TaskInv, EarlierCompleted
      <3> QED
        BY <3>2, <3>3
    <2>2. CASE m # n
      BY <1>1, <2>2 DEF TaskInv, EarlierCompleted
    <2> QED
      BY <2>1, <2>2
  <1>10. CompletedByATurn'
    BY <1>2, <1>5 DEF TaskInv, CompletedByATurn, CompletedBy, TurnDone, Turn
  <1>11. OnlyTheLatestOwes'
    BY <1>2 DEF TaskInv, OnlyTheLatestOwes, TurnDone, Turn
  <1> QED
    BY <1>1, <1>2, <1>7, <1>8, <1>9, <1>10, <1>11 DEF TurnsTyped, TaskInv, GateTypeOK

-----------------------------------------------------------------------------
(***************************************************************************)
(* What a Gate judges.                                                     *)
(***************************************************************************)
LEMMA HeadAdds ==
  ASSUME IntegrationInv, CallDecides, Move
  PROVE  \A c \in Changesets : change[c] = "integrated" /\ Holds(head', c) => Holds(head, c)
  <1>1. CASE Commit
    <2>1. call.changeset \in Changesets /\ change[call.changeset] = "pending"
      BY <1>1, CallIs DEF Commit, Unknown, At, Idle, CallDecides, IntegrationInv
    <2>2. snapshot \in Commits /\ head' = Append(head, call.changeset) /\ head = snapshot
      BY <1>1 DEF Commit, InPlace, IntegrationInv, IntegrationTypeOK
    <2> QED
      BY <2>1, <2>2 DEF Holds, Commits
  <1>2. CASE ~Commit
    <2>1. head' = head
      BY <1>2 DEF Move, CallSteps, RefAnswers, TrailerAnswers, Drifts, PutRef, ApplyNothing,
         Conflict, Record, RecordConflict, Returns, Begins, Produces, ConflictCancelled, InPlace, git
    <2> QED
      BY <2>1 DEF Holds
  <1> QED
    BY <1>1, <1>2

\* What the Gate k of n is made for, when the Gates of n are gs.
MadeFor(n, gs, k) ==
  {n} \cup {TurnChangeset(gs[j].holder) : j \in {i \in 1..k - 1 : gs[i].task = "completed"}}

LEMMA JudgesEach ==
  /\ JudgesTheWork <=>
       \A n \in Nodes : \A k \in DOMAIN gates[n] : \A c \in MadeFor(n, gates[n], k) :
         /\ change[c] = "integrated"
         /\ Holds(head, c) /\ ~RolledBack => Holds(gates[n][k].snapshot, c)
  /\ JudgesTheWork' <=>
       \A n \in Nodes : \A k \in DOMAIN gates'[n] : \A c \in MadeFor(n, gates'[n], k) :
         /\ change'[c] = "integrated"
         /\ Holds(head', c) /\ ~RolledBack' => Holds(gates'[n][k].snapshot, c)
  BY DEF JudgesTheWork, MadeFor

LEMMA MadeAreChangesets ==
  ASSUME GateTypeOK, TaskInv, NEW n \in Nodes, NEW k \in DOMAIN gates[n]
  PROVE  MadeFor(n, gates[n], k) \subseteq Changesets
  <1> SUFFICES ASSUME NEW j \in 1..k - 1, gates[n][j].task = "completed"
               PROVE  TurnChangeset(gates[n][j].holder) \in Changesets
    BY NodesAreChangesets DEF MadeFor
  <1>1. j \in DOMAIN gates[n]
    BY DEF GateTypeOK
  <1>2. gates[n][j].holder \in 1..MaxTurns
    BY <1>1, NodeGatesAssumption DEF GateTypeOK, TaskInv, CompletedByATurn
  <1> QED
    BY <1>2, TurnChangesets

LEMMA JudgesStep ==
  ASSUME GateTypeOK, TaskInv, JudgesTheWork, CompletedStay, IntegratedStay,
         \A c \in Changesets : change[c] = "integrated" /\ Holds(head', c) => Holds(head, c),
         RolledBack => RolledBack'
  PROVE  JudgesTheWork'
  <1> SUFFICES ASSUME NEW n \in Nodes, NEW k \in DOMAIN gates[n], NEW c \in MadeFor(n, gates'[n], k)
               PROVE  /\ change'[c] = "integrated"
                      /\ Holds(head', c) /\ ~RolledBack' => Holds(gates'[n][k].snapshot, c)
    BY JudgesEach DEF CompletedStay, SameGates
  <1>1. c \in MadeFor(n, gates[n], k)
    <2>1. CASE c = n
      BY <2>1 DEF MadeFor
    <2>2. CASE c # n
      <3>1. PICK j \in 1..k - 1 :
              gates'[n][j].task = "completed" /\ c = TurnChangeset(gates'[n][j].holder)
        BY <2>2 DEF MadeFor
      <3>2. j \in DOMAIN gates[n] /\ j < Len(gates[n])
        BY <3>1 DEF GateTypeOK
      <3>3. gates[n][j].task = "completed"
        BY <3>2 DEF TaskInv, EarlierCompleted
      <3>4. gates'[n][j].holder = gates[n][j].holder
        BY <3>2, <3>3 DEF CompletedStay
      <3> QED
        BY <3>1, <3>3, <3>4 DEF MadeFor
    <2> QED
      BY <2>1, <2>2
  <1>2. /\ c \in Changesets /\ change[c] = "integrated"
        /\ Holds(head, c) /\ ~RolledBack => Holds(gates[n][k].snapshot, c)
    BY <1>1, MadeAreChangesets, JudgesEach
  <1>3. gates'[n][k].snapshot = gates[n][k].snapshot
    BY DEF CompletedStay
  <1> QED
    BY <1>2, <1>3 DEF IntegratedStay

LEMMA JudgesOpened ==
  ASSUME IntegrationTypeOK, GateTypeOK, TaskInv, JudgesTheWork, NEW n \in Nodes, OpenGate(n)
  PROVE  JudgesTheWork'
  <1> DEFINE last == Len(gates[n]) + 1
  <1>1. /\ \A m \in Nodes \ {n} : gates'[m] = gates[m]
        /\ DOMAIN gates'[n] = 1..last
        /\ \A k \in DOMAIN gates[n] : k \in DOMAIN gates'[n] /\ gates'[n][k] = gates[n][k]
        /\ gates'[n][last].snapshot = snapshot
    BY OpenGateAdds DEF NewGate
  <1>2. UNCHANGED <<turns, change, head, snapshot>> /\ NodeIs(n, "open")
    BY DEF OpenGate, integrationVars, rows, git
  <1>3. change[n] = "integrated"
    <2>1. worker[n] # "queued"
      BY <1>2 DEF NodeIs, NodeAdvice, Ended
    <2> QED
      BY <1>2, <2>1, NodeAtGate
  <1>4. gates[n] \in Seq(GateRecords) /\ DOMAIN gates[n] = 1..Len(gates[n]) /\ Len(gates[n]) \in Nat
        /\ last \in Nat
    BY DEF GateTypeOK
  <1>5. turns = <<>> \/ ~Outstanding
    BY <1>2, NothingToSettle DEF NodeIs, ToSettle, Outstanding
  <1>6. RolledBack' <=> RolledBack
    BY <1>2 DEF RolledBack, Holds
  <1>7. ASSUME NEW m \in Nodes, NEW k \in DOMAIN gates[m], NEW c \in MadeFor(m, gates'[m], k)
        PROVE  /\ change'[c] = "integrated"
               /\ Holds(head', c) /\ ~RolledBack' => Holds(gates'[m][k].snapshot, c)
    <2>1. k \in Nat /\ \A j \in 1..k - 1 : gates'[m][j] = gates[m][j]
      <3>1. gates[m] \in Seq(GateRecords)
        BY DEF GateTypeOK
      <3> QED
        BY <3>1, <1>1, <1>4
    <2>2. c \in MadeFor(m, gates[m], k)
      BY <2>1 DEF MadeFor
    <2>3. gates'[m][k] = gates[m][k]
      BY <1>1
    <2> QED
      BY <1>2, <1>6, <2>2, <2>3, JudgesEach
  <1>8. ASSUME NEW c \in MadeFor(n, gates'[n], last)
        PROVE  /\ change'[c] = "integrated"
               /\ Holds(head', c) /\ ~RolledBack' => Holds(gates'[n][last].snapshot, c)
    <2>1. c \in Changesets /\ change[c] = "integrated"
      <3>1. CASE c = n
        BY <1>3, <3>1, NodesAreChangesets
      <3>2. CASE c # n
        <4>1. PICK j \in 1..last - 1 :
                gates'[n][j].task = "completed" /\ c = TurnChangeset(gates'[n][j].holder)
          BY <3>2 DEF MadeFor
        <4>2. j \in DOMAIN gates[n] /\ gates'[n][j] = gates[n][j]
          BY <1>1, <1>4, <4>1
        <4>3. gates[n][j].holder \in 1..Len(turns) /\ change[c] = "integrated"
          BY <1>5, <4>1, <4>2, NothingOwed
        <4>4. gates[n][j].holder \in 1..MaxTurns
          BY <4>3, NodeGatesAssumption DEF GateTypeOK
        <4> QED
          BY <4>1, <4>2, <4>3, <4>4, TurnChangesets
      <3> QED
        BY <3>1, <3>2
    <2>2. Holds(head, c) /\ ~RolledBack => Holds(snapshot, c)
      BY <2>1 DEF RolledBack
    <2> QED
      BY <1>1, <1>2, <1>6, <2>1, <2>2
  <1>9. ASSUME NEW m \in Nodes, NEW k \in DOMAIN gates'[m], NEW c \in MadeFor(m, gates'[m], k)
        PROVE  /\ change'[c] = "integrated"
               /\ Holds(head', c) /\ ~RolledBack' => Holds(gates'[m][k].snapshot, c)
    <2>1. CASE k \in DOMAIN gates[m]
      BY <1>7, <1>9, <2>1
    <2>2. CASE k \notin DOMAIN gates[m]
      <3>1. m = n /\ k = last
        BY <1>1, <1>4, <2>2
      <3> HIDE DEF last
      <3> QED
        BY <1>8, <1>9, <3>1
    <2> QED
      BY <2>1, <2>2
  <1> QED
    BY <1>9, JudgesEach

-----------------------------------------------------------------------------
(***************************************************************************)
(* Nodes and their workers.                                                *)
(***************************************************************************)
RowsTyped ==
  /\ run' \in {"running", "failed"}
  /\ node' \in [Nodes -> {"ready", "running", "decision", "conflict", "succeeded", "failed"}]
  /\ worker' \in [Nodes -> {"none", "queued", "running", "retrying", "completed", "failed"}]
\* No Gate appears but by OpenGate.
GatesStay == \A m \in Nodes : SameGates(m)
\* Nothing becomes pending for a node.
NoneProduced == \A m \in Nodes : change[m] = "none" => change'[m] = "none"

\* A step that leaves nodes and workers alone.
LEMMA NodesKept ==
  ASSUME GateTypeOK, NodesFollowTheirWork, ChangesFollow, NoneProduced, GatesStay,
         run' = run \/ run' = "failed", UNCHANGED <<node, worker>>
  PROVE  RowsTyped /\ NodesFollowTheirWork'
  <1> SUFFICES ASSUME NEW m \in Nodes
               PROVE  /\ change'[m] # "none" => worker[m] = "completed"
                      /\ change'[m] = "pending" => node[m] = "running"
                      /\ gates'[m] # <<>> => change'[m] = "integrated"
                      /\ gates[m] # <<>> => gates'[m] # <<>>
    BY DEF NodesFollowTheirWork, RowsTyped, GateTypeOK
  <1>1. gates'[m] # <<>> <=> gates[m] # <<>>
    BY DEF GatesStay, SameGates, GateTypeOK
  <1>2. m \in Changesets
    BY NodesAreChangesets
  <1> QED
    BY <1>1, <1>2 DEF ChangesFollow, NoneProduced, NodesFollowTheirWork

\* What node n becomes, with its worker, while nothing else changes and no Gate is opened.
LEMMA NodeBecomes ==
  ASSUME GateTypeOK, NodesFollowTheirWork, GatesStay, NEW n \in Nodes, UNCHANGED <<run, change>>,
         NEW s \in {"running", "decision", "conflict", "succeeded", "failed"},
         NEW w \in {"none", "queued", "running", "retrying", "completed", "failed"},
         node' = [node EXCEPT ![n] = s], worker' = [worker EXCEPT ![n] = w],
         change[n] # "none" => w = "completed",
         w \in {"queued", "running", "retrying"} \/ change[n] = "pending" => s = "running",
         s = "decision" => gates[n] # <<>>
  PROVE  RowsTyped /\ NodesFollowTheirWork'
  <1>1. \A m \in Nodes : gates'[m] # <<>> <=> gates[m] # <<>>
    BY DEF GatesStay, SameGates, GateTypeOK
  <1>2. RowsTyped
    BY DEF RowsTyped, GateTypeOK
  <1>3. \A m \in Nodes : /\ node'[m] = IF m = n THEN s ELSE node[m]
                         /\ worker'[m] = IF m = n THEN w ELSE worker[m]
    BY DEF GateTypeOK
  <1> QED
    BY <1>1, <1>2, <1>3 DEF NodesFollowTheirWork

LEMMA NodeStepsFollow ==
  ASSUME IntegrationTypeOK, GateTypeOK, CallDecides, NodesFollowTheirWork, ChangesFollow, GatesStay,
         NEW n \in Nodes, NodeSteps(n)
  PROVE  RowsTyped /\ NodesFollowTheirWork'
  <1> DEFINE Follow == RowsTyped /\ NodesFollowTheirWork'
  <1>1. /\ node[n] \in {"ready", "running", "decision", "conflict", "succeeded", "failed"}
        /\ worker[n] \in {"none", "queued", "running", "retrying", "completed", "failed"}
        /\ node = [node EXCEPT ![n] = node[n]] /\ worker = [worker EXCEPT ![n] = worker[n]]
        /\ n \in Changesets
    BY NodesAreChangesets DEF GateTypeOK
  <1>2. CASE StartNode(n)
    <2>1. node[n] = "ready"
      BY <1>2 DEF StartNode, NodeIs, NodeAdvice, GateAdvice
    <2>2. change[n] = "none"
      BY <2>1 DEF NodesFollowTheirWork, IntegrationTypeOK
    <2> QED
      BY <1>2, <2>2, NodeBecomes DEF StartNode, SetNode, SetWorker, integrationVars, rows
  <1>3. CASE ExecuteWorker(n)
    <2>1. worker[n] = "queued" /\ node[n] = "running" /\ change[n] = "none"
      BY <1>1, <1>3 DEF ExecuteWorker, NodesFollowTheirWork, IntegrationTypeOK
    <2> QED
      BY <1>1, <1>3, <2>1, NodeBecomes DEF ExecuteWorker, SetWorker, integrationVars, rows
  <1>4. CASE IntegrateWorker(n)
    BY <1>4, NodesKept DEF IntegrateWorker, Begins, gateVars, rows, NoneProduced
  <1>5. CASE WaitForConflict(n)
    <2>1. change[n] = "conflict" /\ UNCHANGED change
      BY <1>5 DEF WaitForConflict, CallDecides, Returns, integrationVars, rows
    <2>2. worker[n] = "completed"
      BY <2>1 DEF NodesFollowTheirWork
    <2> QED
      BY <1>1, <1>5, <2>1, <2>2, NodeBecomes DEF WaitForConflict, SetNode
  <1>6. CASE FailNode(n)
    <2>1. worker[n] \notin {"queued", "running", "retrying"}
      BY <1>6, NodeSettles DEF FailNode
    <2>2. change[n] # "pending"
      BY <1>1, <1>6 DEF FailNode, NodesFollowTheirWork, CallDecides
    <2>3. change[n] # "none" => worker[n] = "completed"
      BY DEF NodesFollowTheirWork
    <2> QED
      BY <1>1, <1>6, <2>1, <2>2, <2>3, NodeBecomes DEF FailNode, SetNode, integrationVars, rows
  <1>7. CASE ResumeNode(n)
    <2>1. change[n] # "none" => worker[n] = "completed"
      BY DEF NodesFollowTheirWork
    <2> QED
      BY <1>1, <1>7, <2>1, NodeBecomes DEF ResumeNode, SetNode, integrationVars, rows
  <1> QED
    BY <1>2, <1>3, <1>4, <1>5, <1>6, <1>7 DEF NodeSteps

LEMMA GateStepsFollow ==
  ASSUME IntegrationTypeOK, GateTypeOK, NodesFollowTheirWork, ChangesFollow,
         NEW n \in Nodes, GateSteps(n), ~OpenGate(n) => GatesStay
  PROVE  RowsTyped /\ NodesFollowTheirWork'
  <1>1. UNCHANGED <<run, worker, change>>
    BY DEF GateSteps, OpenGate, RunChecks, PrepareEvaluator, ExecuteEvaluator, SettleGate,
       integrationVars, rows
  <1>2. CASE OpenGate(n)
    <2>1. NodeIs(n, "open") /\ UNCHANGED node
      BY <1>2 DEF OpenGate
    <2>2. worker[n] # "queued"
      BY <2>1 DEF NodeIs, NodeAdvice, Ended
    <2>3. change[n] = "integrated"
      BY <2>1, <2>2, NodeAtGate
    <2>4. gates'[n] # <<>> /\ \A m \in Nodes \ {n} : gates'[m] = gates[m]
      BY <1>2, OpenGateAdds DEF GateTypeOK
    <2> QED
      BY <1>1, <2>1, <2>3, <2>4 DEF NodesFollowTheirWork, RowsTyped, GateTypeOK
  <1>3. CASE RunChecks(n) \/ PrepareEvaluator(n) \/ ExecuteEvaluator(n)
    <2>1. GatesStay
      <3>1. CASE OpenGate(n)
        <4>1. Len(gates'[n]) = Len(gates[n]) + 1
          BY <3>1, OpenGateAdds
        <4>2. TasksKept
          BY <1>3, StepsKeep
        <4> QED
          BY <4>2 DEF TasksKept, GatesStay
      <3> QED
        BY <3>1
    <2> QED
      BY <1>1, <1>3, <2>1, NodesKept DEF RunChecks, PrepareEvaluator, ExecuteEvaluator, NoneProduced
  <1>4. CASE SettleGate(n)
    <2>1. TasksKept /\ change[n] = "integrated" /\ gates[n] # <<>>
      BY <1>4, SettleGateKeeps
    <2>2. worker[n] = "completed" /\ GatesStay
      BY <2>1 DEF NodesFollowTheirWork, TasksKept, GatesStay
    <2>3. UNCHANGED node \/ \E s \in {"decision", "succeeded", "failed"} : SetNode(n, s)
      BY <1>4 DEF SettleGate
    <2>4. CASE UNCHANGED node
      BY <1>1, <2>2, <2>4, NodesKept DEF NoneProduced
    <2>5. ASSUME NEW s \in {"decision", "succeeded", "failed"}, SetNode(n, s)
          PROVE  RowsTyped /\ NodesFollowTheirWork'
      <3>1. worker' = [worker EXCEPT ![n] = "completed"]
        BY <1>1, <2>2 DEF GateTypeOK
      <3> QED
        BY <1>1, <2>1, <2>2, <2>5, <3>1, NodeBecomes DEF SetNode
    <2> QED
      BY <2>3, <2>4, <2>5
  <1> QED
    BY <1>2, <1>3, <1>4 DEF GateSteps

LEMMA WorkersFollow ==
  ASSUME IntegrationTypeOK, GateTypeOK, NodesFollowTheirWork, ChangesFollow, GatesStay,
         NEW n \in Nodes, WorkerEnds(n) \/ RetryDue(n) \/ EvaluatorEnds(n)
  PROVE  RowsTyped /\ NodesFollowTheirWork'
  <1>1. /\ node = [node EXCEPT ![n] = node[n]] /\ n \in Changesets
        /\ \A m \in Nodes : gates'[m] # <<>> <=> gates[m] # <<>>
    BY NodesAreChangesets DEF GateTypeOK, GatesStay, SameGates
  <1>2. CASE EvaluatorEnds(n)
    BY <1>2, NodesKept DEF EvaluatorEnds, rows, NoneProduced
  <1>3. CASE RetryDue(n) \/ (WorkerEnds(n) /\ UNCHANGED change)
    <2>1. worker[n] \in {"running", "retrying"} /\ node[n] = "running" /\ change[n] = "none"
      BY <1>3 DEF RetryDue, WorkerEnds, NodesFollowTheirWork, IntegrationTypeOK
    <2>2. \E w \in {"queued", "completed", "failed", "retrying"} : SetWorker(n, w)
      BY <1>3 DEF RetryDue, WorkerEnds
    <2>3. UNCHANGED <<run, node, change>>
      BY <1>3 DEF RetryDue, WorkerEnds, integrationVars, rows
    <2> QED
      BY <1>1, <2>1, <2>2, <2>3, NodeBecomes DEF SetWorker
  <1>4. CASE WorkerEnds(n) /\ SetWorker(n, "completed") /\ Produces(n)
    <2>1. node[n] = "running" /\ UNCHANGED <<run, node>>
      BY <1>4 DEF WorkerEnds, NodesFollowTheirWork
    <2>2. change' = [change EXCEPT ![n] = "pending"] /\ worker' = [worker EXCEPT ![n] = "completed"]
          /\ change[n] = "none"
      BY <1>4 DEF Produces, SetWorker
    <2>3. \A m \in Nodes : /\ worker'[m] = IF m = n THEN "completed" ELSE worker[m]
                           /\ change'[m] = IF m = n THEN "pending" ELSE change[m]
      BY <2>2, NodesAreChangesets DEF GateTypeOK, IntegrationTypeOK
    <2>4. RowsTyped
      BY <2>1, <2>2 DEF RowsTyped, GateTypeOK
    <2> QED
      BY <1>1, <2>1, <2>2, <2>3, <2>4 DEF NodesFollowTheirWork
  <1> QED
    BY <1>2, <1>3, <1>4 DEF WorkerEnds, rows

LEMMA CrashFollows ==
  ASSUME GateTypeOK, NodesFollowTheirWork, Crash, GatesStay
  PROVE  RowsTyped /\ NodesFollowTheirWork'
  <1>1. \A m \in Nodes : gates'[m] # <<>> <=> gates[m] # <<>>
    BY DEF GatesStay, SameGates, GateTypeOK
  <1>2. UNCHANGED <<run, node, change>>
    BY DEF Crash, rows
  <1>3. /\ worker' \in [Nodes -> {"none", "queued", "running", "retrying", "completed", "failed"}]
        /\ \A m \in Nodes : worker'[m] = IF worker[m] = "running" THEN "queued" ELSE worker[m]
    BY DEF Crash, GateTypeOK
  <1> QED
    BY <1>1, <1>2, <1>3 DEF RowsTyped, NodesFollowTheirWork, GateTypeOK

-----------------------------------------------------------------------------
(***************************************************************************)
(* Every step.                                                             *)
(***************************************************************************)
LEMMA WhoProduces ==
  ASSUME IntegrationTypeOK, CallDecides, [Next]_vars, ~TurnReturns,
         \A n \in Nodes : ~WorkerEnds(n)
  PROVE  \A c \in Changesets : change[c] = "none" => change'[c] = "none"
  <1> USE DEF integrationVars, rows
  <1>1. CASE Record \/ RecordConflict
    <2>1. call.changeset \in Changesets /\ change[call.changeset] = "pending"
      BY <1>1, CallIs DEF Record, RecordConflict, Idle, At, CallDecides
    <2> QED
      BY <1>1, <2>1 DEF Record, RecordConflict, IntegrationTypeOK
  <1>2. CASE ~Record /\ ~RecordConflict
    <2>1. CallSteps \/ CallLost \/ Returns => UNCHANGED change
      BY <1>2 DEF CallSteps, CallLost, Returns, RefAnswers, TrailerAnswers, Drifts, Commit, PutRef,
         ApplyNothing, Conflict
    <2>2. ~RootSteps \/ UNCHANGED change
      BY DEF RootSteps, ExecuteTurn, IntegrateTurn, ContinueTurn, SettleTasks, FailRun, TellEnded,
         Remediate, Begins
    <2>3. \A n \in Nodes : (NodeSteps(n) \/ GateSteps(n)) => UNCHANGED change
      BY <2>1 DEF NodeSteps, StartNode, ExecuteWorker, IntegrateWorker, WaitForConflict, FailNode,
         ResumeNode, Begins, GateSteps, OpenGate, RunChecks, PrepareEvaluator, ExecuteEvaluator,
         SettleGate
    <2>4. \A n \in Nodes : (RetryDue(n) \/ EvaluatorEnds(n)) => UNCHANGED change
      BY DEF RetryDue, EvaluatorEnds
    <2>5. RootConflict \/ Call \/ TurnFails \/ TurnCancels \/ Resolve \/ Crash \/ UNCHANGED vars =>
            UNCHANGED change
      BY <2>1 DEF RootConflict, Call, TurnFails, TurnCancels, ConflictCancelled, Resolve, Crash, vars
    <2> QED
      BY <2>2, <2>3, <2>4, <2>5 DEF Next, Pass, AttemptEnds
  <1> QED
    BY <1>1, <1>2

KeepingSteps ==
  \/ ExecuteTurn \/ IntegrateTurn \/ FailRun \/ RootConflict \/ Call \/ TurnFails
  \/ TurnCancels \/ Resolve \/ Crash \/ UNCHANGED vars
  \/ \E n \in Nodes : NodeSteps(n) \/ RunChecks(n) \/ PrepareEvaluator(n) \/ ExecuteEvaluator(n)
                      \/ SettleGate(n) \/ WorkerEnds(n) \/ RetryDue(n) \/ EvaluatorEnds(n)

LEMMA AllSteps ==
  [Next]_vars =>
    \/ KeepingSteps
    \/ TellEnded \/ Remediate \/ ContinueTurn \/ SettleTasks \/ TurnReturns
    \/ \E n \in Nodes : OpenGate(n)
  BY DEF Next, Pass, RootSteps, GateSteps, AttemptEnds, KeepingSteps

LEMMA RowsFollow ==
  ASSUME IntegrationTypeOK, GateTypeOK, CallDecides, NodesFollowTheirWork, ChangesFollow,
         [Next]_vars, GatesStay \/ \E n \in Nodes : OpenGate(n)
  PROVE  RowsTyped /\ NodesFollowTheirWork'
  <1> DEFINE Follow == RowsTyped /\ NodesFollowTheirWork'
  <1>1. ASSUME NEW n \in Nodes, OpenGate(n)
        PROVE  Follow
    BY <1>1, GateStepsFollow DEF GateSteps
  <1>2. ASSUME GatesStay, NEW n \in Nodes,
               NodeSteps(n) \/ GateSteps(n) \/ WorkerEnds(n) \/ RetryDue(n) \/ EvaluatorEnds(n)
        PROVE  Follow
    BY <1>2, NodeStepsFollow, GateStepsFollow, WorkersFollow
  <1>3. CASE GatesStay /\ Crash
    BY <1>3, CrashFollows
  <1>4. CASE TurnReturns /\ GatesStay
    <2>1. change' = [change EXCEPT ![OwnChangeset] = "pending"] /\ turns # <<>>
          /\ UNCHANGED <<run, node, worker>>
      BY <1>4 DEF TurnReturns, Produces
    <2>2. NoneProduced
      BY <2>1, TurnIs, NodesAreChangesets DEF NoneProduced, IntegrationTypeOK
    <2> QED
      BY <1>4, <2>1, <2>2, NodesKept
  <1>5. CASE /\ GatesStay /\ ~TurnReturns /\ \A n \in Nodes : ~WorkerEnds(n)
             /\ RootSteps \/ RootConflict \/ Call \/ TurnFails \/ TurnCancels \/ Resolve \/ UNCHANGED vars
    <2>1. UNCHANGED <<node, worker>> /\ (run' = run \/ run' = "failed")
      BY <1>5 DEF RootSteps, ExecuteTurn, IntegrateTurn, ContinueTurn, SettleTasks, FailRun, TellEnded,
         Remediate, RootConflict, Call, TurnFails, TurnCancels, Resolve, vars, gateVars
    <2>2. NoneProduced
      BY <1>5, WhoProduces, NodesAreChangesets DEF NoneProduced
    <2> QED
      BY <1>5, <2>1, <2>2, NodesKept
  <1> QED
    BY <1>1, <1>2, <1>3, <1>4, <1>5 DEF Next, Pass, AttemptEnds

LEMMA TasksFollow ==
  ASSUME IntegrationTypeOK, GateTypeOK, CallDecides, NodesFollowTheirWork, TaskInv,
         ChangesFollow, IntegratedStay, [Next]_vars
  PROVE  /\ GatesTyped /\ TurnsTyped /\ TaskInv'
         /\ CompletedStay \/ \E n \in Nodes : OpenGate(n)
  <1>1. CASE KeepingSteps /\ ~TurnReturns
    <2>1. GatesTyped /\ TasksKept /\ TurnKept
      BY <1>1, StepsKeep DEF KeepingSteps, GatesTyped
    <2>2. NoneOwesMore
      <3>1. ASSUME NEW n \in Nodes, WorkerEnds(n)
            PROVE  NoneOwesMore
        <4>1. UNCHANGED change \/ change' = [change EXCEPT ![n] = "pending"]
          BY <3>1 DEF WorkerEnds, Produces, rows
        <4> QED
          BY <4>1, TurnChangesets DEF NoneOwesMore, IntegrationTypeOK
      <3>2. ASSUME \A n \in Nodes : ~WorkerEnds(n)
            PROVE  NoneOwesMore
        <4>1. \A c \in Changesets : change[c] = "none" => change'[c] = "none"
          BY <1>1, <3>2, WhoProduces
        <4> QED
          BY <4>1, TurnChangesets DEF NoneOwesMore, ChangesFollow
      <3> QED
        BY <3>1, <3>2
    <2>3. TaskInv'
      BY <2>1, <2>2, KeptTasks
    <2>4. CompletedStay
      BY <2>1 DEF TasksKept, CompletedStay
    <2>5. TurnsTyped
      BY <2>1 DEF TurnKept, TurnsTyped, GateTypeOK
    <2> QED
      BY <2>1, <2>3, <2>4, <2>5
  <1>2. ASSUME NEW n \in Nodes, OpenGate(n)
        PROVE  GatesTyped /\ TurnsTyped /\ TaskInv'
    BY <1>2, OpenStep
  <1> QED
    BY <1>1, <1>2, AllSteps, TellStep, RemediateStep, ContinueStep, SettleStep, ReturnStep

LEMMA GateInvStep ==
  ASSUME GateInv, [Next]_vars
  PROVE  GateInv'
  <1> USE DEF GateInv
  <1>1. IntegrationTypeOK /\ TaskInv /\ OrderInv
    BY DEF IntegrationInv, TaskInv, OrderInv
  <1>2. Move
    BY GateMoves
  <1>3. IntegrationInv' /\ CallDecides' /\ ChangesFollow
    BY <1>2, MoveKeeps, DecidesStep, ChangesStep
  <1>4. IntegratedStay
    BY <1>3 DEF ChangesFollow, IntegratedStay
  <1>5. OrderKept
    <2>1. \A c \in Changesets : Begins(c) => First(c)
      BY BeginsInOrder
    <2> QED
      BY <1>1, <1>2, <2>1, OrderStep
  <1>6. /\ GatesTyped /\ TurnsTyped /\ TaskInv'
        /\ CompletedStay \/ \E n \in Nodes : OpenGate(n)
    BY <1>1, <1>3, <1>4, TasksFollow
  <1>7. RowsTyped /\ NodesFollowTheirWork'
    BY <1>1, <1>3, <1>6, RowsFollow DEF CompletedStay, GatesStay
  <1>8. GateTypeOK'
    BY <1>6, <1>7 DEF GateTypeOK, RowsTyped, GatesTyped, TurnsTyped
  <1>9. JudgesTheWork'
    <2>1. CASE CompletedStay
      <3>1. \A c \in Changesets : change[c] = "integrated" /\ Holds(head', c) => Holds(head, c)
        BY <1>2, HeadAdds
      <3> QED
        BY <1>1, <1>4, <1>5, <2>1, <3>1, JudgesStep DEF OrderKept
    <2>2. ASSUME NEW n \in Nodes, OpenGate(n)
          PROVE  JudgesTheWork'
      BY <1>1, <2>2, JudgesOpened
    <2> QED
      BY <1>6, <2>1, <2>2
  <1> QED
    BY <1>3, <1>5, <1>6, <1>7, <1>8, <1>9 DEF OrderKept, OrderInv, TaskInv

LEMMA GateInvInit == Init => GateInv
  <1> SUFFICES ASSUME Init
               PROVE  GateInv
    OBVIOUS
  <1> USE DEF Init
  <1>1. IntegrationInv
    BY InitiallyOne
  <1>2. GateTypeOK
    BY NodeGatesAssumption DEF GateTypeOK
  <1>3. /\ \A c \in Changesets : change[c] = "none" /\ ~ref[c].set /\ conflictTask[c] = "none"
        /\ head = <<>> /\ snapshot = <<>> /\ call.step = "none"
        /\ turns = <<>> /\ \A n \in Nodes : gates[n] = <<>> /\ worker[n] = "none" /\ node[n] = "ready"
    BY DEF IntegrationInit, NoRef, NoCall
  <1>4. CallDecides
    BY <1>3 DEF CallDecides, At, Holds
  <1>5. NodesFollowTheirWork /\ OnlyTheLatestOwes
    BY <1>3, NodesAreChangesets, TurnChangesets DEF NodesFollowTheirWork, OnlyTheLatestOwes
  <1>6. TurnAgrees /\ HeldByTheLatest /\ EarlierCompleted /\ CompletedByATurn /\ JudgesTheWork
    BY <1>3 DEF TurnAgrees, HeldByTheLatest, EarlierCompleted, CompletedByATurn, JudgesTheWork
  <1>7. LeftInOrder /\ FirstIsSettled /\ RolledBackForGood
    BY <1>3 DEF LeftInOrder, FirstIsSettled, RolledBackForGood, Left, RolledBack, Idle
  <1> QED
    BY <1>1, <1>2, <1>4, <1>5, <1>6, <1>7 DEF GateInv

LEMMA GateInvHolds == Spec => []GateInv
  BY GateInvInit, GateInvStep, PTL DEF Spec

-----------------------------------------------------------------------------
\* Nodes, Gates and turns keep their shapes, and no turn is added beyond the bound.
THEOREM GateTypes == Spec => []GateTypeOK
  <1>1. GateInv => GateTypeOK
    BY DEF GateInv
  <1> QED
    BY <1>1, GateInvHolds, PTL

\* For any nodes, turns, crashes and lost calls: a Gate is only opened on a Snapshot that holds
\* the Changeset of its node and of every turn that remediated it (root.ts settles first,
\* gates.open pins the Run's Snapshot).
THEOREM GatesJudgeTheWork == Spec => []JudgesTheWork
  <1>1. GateInv => JudgesTheWork
    BY DEF GateInv
  <1> QED
    BY <1>1, GateInvHolds, PTL

\* A Task somebody works on is always the latest turn's, and that turn is still to be settled.
THEOREM RemediationIsHeld == Spec => []TasksAreHeld
  <1>1. ASSUME GateInv
        PROVE  TasksAreHeld
    <2> SUFFICES ASSUME NEW n \in Nodes, NEW k \in DOMAIN gates[n], gates[n][k].task = "running"
                 PROVE  /\ gates[n][k].holder = Len(turns) /\ <<n, k>> \in Turn.tasks
                        /\ Turn.status \in {"queued", "running", "blocked"} \/ ToSettle
      BY DEF TasksAreHeld
    <2>1. turns # <<>> /\ gates[n][k].holder = Len(turns) /\ <<n, k>> \in Turn.tasks
      BY <1>1 DEF GateInv, HeldByTheLatest
    <2>2. <<n, k>> \in Unsettled /\ Turn.purpose = "gate_result"
      BY <1>1, <2>1 DEF GateInv, TurnAgrees, Unsettled, TaskEnds
    <2> QED
      BY <2>1, <2>2 DEF ToSettle
  <1> QED
    BY <1>1, GateInvHolds, PTL

\* Composed with the scheduler, the calls still only move the Run's Snapshot forward, but for an
\* overtaken one (integration-service.ts).
THEOREM GatedSnapshotGrows == Spec => SnapshotGrows
  <1>1. GateInv /\ [Next]_vars => [Overtaken \/ Ancestor(snapshot, snapshot')]_integrationVars
    BY GateMoves, MoveGrows DEF GateInv
  <1> QED
    BY <1>1, GateInvHolds, PTL DEF Spec, SnapshotGrows

\* A Snapshot once rolled back is never repaired: what an overtaken call took out of it stays
\* out, whatever is recorded later.
THEOREM RollbackIsFinal == Spec => [][RolledBack => RolledBack']_vars
  <1>1. ASSUME GateInv, [Next]_vars
        PROVE  RolledBack => RolledBack'
    <2>1. \A c \in Changesets : Begins(c) => First(c)
      BY <1>1, BeginsInOrder DEF GateInv
    <2> QED
      BY <1>1, <2>1, GateMoves, OrderStep DEF GateInv, OrderInv, OrderKept
  <1>2. GateInv /\ [Next]_vars => [RolledBack => RolledBack']_vars
    BY <1>1
  <1> QED
    BY <1>2, GateInvHolds, PTL DEF Spec

-----------------------------------------------------------------------------
(***************************************************************************)
(* No advice of a pass is empty: the safety half of GatedNodesEnd.  While  *)
(* nothing is under way, what the rows advise first is a step, or every    *)
(* node ended or waits for somebody; the projection and the engines, which *)
(* read the same rows in different words, never disagree about that.       *)
(***************************************************************************)

\* A settlement of the latest turn finds its Changeset, its successor, its Tasks, or the Run it
\* fails to settle.
RootServes ==
  \/ RootAdvice = "execute"
  \/ /\ RootAdvice = "settle"
     /\ \/ Outstanding /\ change[OwnChangeset] = "pending"
        \/ Turn.status = "blocked" /\ Len(turns) < MaxTurns
        \/ Turn.status # "blocked" /\ Turn.purpose = "gate_result" /\ ~Outstanding
        \/ Turn.status = "failed" /\ Turn.purpose = "node_result"
\* What is advised of a node is an action of its engine, or of its Gate.
GateServes(g) == Judged(g) \/ g.evaluator \in {"failed", "blocked"} \/ g.task \in {"failed", "cancelled"}
NodeServes(n) ==
  \/ NodeAdvice(n) \in {"start", "resume", "open", "check", "prepare"}
  \/ /\ NodeAdvice(n) = "execute"
     /\ worker[n] = "queued" \/ (worker[n] = "completed" /\ gates[n] # <<>>)
  \/ /\ NodeAdvice(n) = "settle"
     /\ \/ worker[n] = "completed" /\ change[n] = "pending"
        \/ change[n] = "conflict" /\ conflictTask[n] = "pending"
        \/ worker[n] = "failed" \/ conflictTask[n] = "cancelled"
  \/ NodeAdvice(n) = "settle_gate" /\ gates[n] # <<>> /\ GateServes(Gate(n))
PassServes ==
  \/ RootActs /\ RootServes
  \/ ~RootActs /\ \E n \in Nodes : NodeActs(n) /\ (\A m \in 1..n - 1 : ~NodeActs(m)) /\ NodeServes(n)
  \/ RootAdvice \in {"tell", "remediate"} /\ Quiet /\ Len(turns) < MaxTurns

\* Nothing is under way in the Run, and no retry will come back to it.
AtRest == Passing /\ ~InFlight /\ \A n \in Nodes : worker[n] # "retrying"
\* Then the pass has something to do, or every node ended or waits for somebody; what is left out
\* is the bound on turns and a root whose Changeset conflicts, which is settled for ever.
NoNodeStarves ==
  AtRest /\ ~OutOfTurns /\ ~RootConflicts => PassServes \/ \A n \in Nodes : Ended(n) \/ Waits(n)

\* A started node has its worker, a worker or turn that succeeded its Changeset, a conflict its
\* Task.
WorkersRecorded ==
  \A n \in Nodes : /\ node[n] # "ready" => worker[n] # "none"
                   /\ worker[n] = "completed" => change[n] # "none"
ConflictsHaveTasks == \A c \in Changesets : change[c] = "conflict" => conflictTask[c] # "none"
TurnsRecorded == turns # <<>> /\ TurnDone => change[OwnChangeset] # "none"
\* A Gate that is decided and left no Task ended its node.
DecidedEnds ==
  \A n \in Nodes : gates[n] # <<>> =>
    (Gate(n).status = "passed" \/ (Gate(n).status = "failed" /\ Gate(n).task = "none") => Ended(n))

RestInv == GateInv /\ WorkersRecorded /\ ConflictsHaveTasks /\ TurnsRecorded /\ DecidedEnds

LEMMA FirstOfNodes ==
  ASSUME NEW S, S \subseteq Nodes, S # {}
  PROVE  \E n \in S : \A m \in 1..n - 1 : m \notin S
  <1>1. S \subseteq Nat
    BY NodeGatesAssumption DEF Nodes
  <1>2. PICK n \in S : \A m \in S : ~(<<m, n>> \in OpToRel(<, Nat))
    BY <1>1, NatLessThanWellFounded, WFMin
  <1>3. \A m \in S : ~(m < n)
    BY <1>1, <1>2 DEF OpToRel
  <1> QED
    BY <1>1, <1>3

LEMMA ConflictsStep ==
  ASSUME IntegrationTypeOK, ConflictsHaveTasks, Move
  PROVE  ConflictsHaveTasks'
  <1>1. CASE Record \/ RecordConflict
    <2>1. call.changeset \in Changesets
      BY <1>1, CallIs DEF Record, RecordConflict, Idle, At
    <2> QED
      BY <1>1, <2>1 DEF Record, RecordConflict, ConflictsHaveTasks, IntegrationTypeOK
  <1>2. ASSUME NEW c \in Changesets, Produces(c) \/ ConflictCancelled(c)
        PROVE  ConflictsHaveTasks'
    BY <1>2 DEF Produces, ConflictCancelled, ConflictsHaveTasks, IntegrationTypeOK
  <1>3. CASE UNCHANGED <<change, conflictTask>>
    BY <1>3 DEF ConflictsHaveTasks
  <1> QED
    BY <1>1, <1>2, <1>3 DEF Move, CallSteps, RefAnswers, TrailerAnswers, Drifts, Commit, PutRef,
       ApplyNothing, Conflict, Returns, Begins, rows

\* A node that is advised to settle its Gate, or anything before it, is neither ready nor ended.
LEMMA SettlingRuns ==
  ASSUME GateTypeOK, NEW n \in Nodes, NodeIs(n, "settle_gate")
  PROVE  node[n] = "running" /\ gates[n] # <<>> /\ GateAdvice(n) = "settle_gate"
  <1>1. worker[n] # "queued"
    BY DEF NodeIs, NodeAdvice, Ended
  <1> QED
    BY <1>1, NodeAtGate DEF GateTypeOK

LEMMA WorkersStep ==
  ASSUME IntegrationTypeOK, GateTypeOK, CallDecides, NodesFollowTheirWork, ChangesFollow,
         WorkersRecorded, [Next]_vars
  PROVE  WorkersRecorded'
  <1>1. \A m \in Nodes : change[m] # "none" => change'[m] # "none"
    BY NodesAreChangesets DEF ChangesFollow
  <1>2. ASSUME UNCHANGED <<node, worker>> PROVE WorkersRecorded'
    BY <1>1, <1>2 DEF WorkersRecorded
  <1>3. ASSUME NEW n \in Nodes, NodeSteps(n)
        PROVE  WorkersRecorded'
    <2>1. CASE StartNode(n)
      BY <1>1, <2>1 DEF StartNode, SetNode, SetWorker, WorkersRecorded, GateTypeOK
    <2>2. CASE ExecuteWorker(n)
      BY <1>1, <2>2 DEF ExecuteWorker, SetWorker, WorkersRecorded, GateTypeOK
    <2>3. CASE IntegrateWorker(n)
      BY <1>2, <2>3 DEF IntegrateWorker, gateVars
    <2>4. CASE WaitForConflict(n) \/ FailNode(n)
      <3>1. worker[n] # "none"
        BY <2>4, NodesAreChangesets DEF WaitForConflict, FailNode, CallDecides, NodesFollowTheirWork
      <3> QED
        BY <1>1, <2>4, <3>1 DEF WaitForConflict, FailNode, SetNode, WorkersRecorded, GateTypeOK
    <2>5. CASE ResumeNode(n)
      <3>1. node[n] # "ready"
        BY <2>5 DEF ResumeNode, NodeIs, NodeAdvice
      <3> QED
        BY <1>1, <2>5, <3>1 DEF ResumeNode, SetNode, WorkersRecorded, GateTypeOK
    <2> QED
      BY <1>3, <2>1, <2>2, <2>3, <2>4, <2>5 DEF NodeSteps
  <1>4. ASSUME NEW n \in Nodes, SettleGate(n)
        PROVE  WorkersRecorded'
    <2>1. node[n] # "ready"
      BY <1>4, SettlingRuns DEF SettleGate
    <2>2. UNCHANGED worker /\ (UNCHANGED node \/ \E s \in {"decision", "succeeded", "failed"} : SetNode(n, s))
      BY <1>4 DEF SettleGate
    <2> QED
      BY <1>1, <2>1, <2>2 DEF SetNode, WorkersRecorded, GateTypeOK
  <1>5. ASSUME NEW n \in Nodes, WorkerEnds(n) \/ RetryDue(n)
        PROVE  WorkersRecorded'
    <2>1. UNCHANGED node
      BY <1>5 DEF WorkerEnds, RetryDue
    <2>2. CASE SetWorker(n, "completed") /\ Produces(n)
      <3>1. change'[n] # "none"
        BY <2>2, NodesAreChangesets DEF Produces, IntegrationTypeOK
      <3> QED
        BY <1>1, <2>1, <2>2, <3>1 DEF SetWorker, WorkersRecorded, GateTypeOK
    <2>3. CASE \E w \in {"failed", "retrying", "queued"} : SetWorker(n, w)
      BY <1>1, <2>1, <2>3 DEF SetWorker, WorkersRecorded, GateTypeOK
    <2> QED
      BY <1>5, <2>2, <2>3 DEF WorkerEnds, RetryDue
  <1>6. CASE Crash
    BY <1>1, <1>6 DEF Crash, rows, WorkersRecorded, GateTypeOK
  <1>7. CASE RootSteps \/ RootConflict \/ Call \/ TurnReturns \/ TurnFails \/ TurnCancels \/ Resolve \/ UNCHANGED vars
    BY <1>2, <1>7 DEF RootSteps, ExecuteTurn, IntegrateTurn, ContinueTurn, SettleTasks, FailRun, TellEnded,
       Remediate, RootConflict, Call, TurnReturns, TurnFails, TurnCancels, Resolve, vars, gateVars
  <1>8. ASSUME NEW n \in Nodes, OpenGate(n) \/ RunChecks(n) \/ PrepareEvaluator(n) \/ ExecuteEvaluator(n) \/ EvaluatorEnds(n)
        PROVE  WorkersRecorded'
    BY <1>2, <1>8 DEF OpenGate, RunChecks, PrepareEvaluator, ExecuteEvaluator, EvaluatorEnds
  <1> QED
    BY <1>3, <1>4, <1>5, <1>6, <1>7, <1>8 DEF Next, Pass, AttemptEnds, GateSteps

LEMMA TurnsStep ==
  ASSUME IntegrationTypeOK, GateTypeOK, NodesFollowTheirWork, ChangesFollow, TurnsRecorded, [Next]_vars
  PROVE  TurnsRecorded'
  <1>1. CASE KeepingSteps \/ SettleTasks \/ \E n \in Nodes : OpenGate(n)
    <2>1. TurnKept
      BY <1>1, StepsKeep, SameTurns DEF KeepingSteps, SettleTasks, OpenGate
    <2>2. OwnChangeset' = OwnChangeset
      BY <2>1 DEF TurnKept, OwnChangeset, TurnChangeset
    <2>3. turns' # <<>> => turns # <<>>
      BY <2>1 DEF TurnKept, GateTypeOK
    <2> QED
      BY <2>1, <2>2, <2>3, TurnIs DEF TurnKept, TurnsRecorded, ChangesFollow
  <1>2. ASSUME NEW r \in TurnRecords, r.status = "queued", turns' = Append(turns, r), Len(turns) < MaxTurns
        PROVE  TurnsRecorded'
    BY <1>2, TurnAdded DEF TurnsRecorded, TurnDone
  <1>3. CASE TellEnded
    <2>1. NewTurn("node_result", {}, Untold) \in TurnRecords /\ NewTurn("node_result", {}, Untold).status = "queued"
      BY DEF NewTurn, TurnRecords, Untold
    <2> QED
      BY <1>2, <1>3, <2>1 DEF TellEnded
  <1>4. CASE Remediate
    <2> DEFINE works == {<<n, Len(gates[n])>> : n \in Remediable}
    <2>1. works \subseteq Nodes \X Nat
      BY DEF Remediable, GateTypeOK
    <2>2. turns' = Append(turns, NewTurn("gate_result", works, {})) /\ Len(turns) < MaxTurns
      BY <1>4 DEF Remediate
    <2> HIDE DEF works
    <2>3. NewTurn("gate_result", works, {}) \in TurnRecords /\ NewTurn("gate_result", works, {}).status = "queued"
      BY <2>1 DEF NewTurn, TurnRecords
    <2> QED
      BY <1>2, <2>2, <2>3
  <1>5. CASE ContinueTurn
    <2>1. Turn \in TurnRecords
      BY <1>5, RootSettles, TurnIs DEF ContinueTurn
    <2>2. /\ NewTurn(Turn.purpose, Turn.tasks, Turn.told) \in TurnRecords
          /\ NewTurn(Turn.purpose, Turn.tasks, Turn.told).status = "queued"
      BY <2>1 DEF NewTurn, TurnRecords
    <2> QED
      BY <1>2, <1>5, <2>2 DEF ContinueTurn
  <1>6. CASE TurnReturns
    <2>1. turns # <<>> /\ Produces(OwnChangeset)
          /\ \E v \in {"queued", "running", "completed", "unfinished", "failed", "blocked"} : SetTurn("status", v)
      BY <1>6 DEF TurnReturns
    <2>2. OwnChangeset' = OwnChangeset
      BY <2>1, TurnSet DEF OwnChangeset, TurnChangeset
    <2>3. change'[OwnChangeset] = "pending"
      BY <2>1, TurnIs DEF Produces, IntegrationTypeOK
    <2> QED
      BY <2>2, <2>3 DEF TurnsRecorded
  <1> QED
    BY <1>1, <1>3, <1>4, <1>5, <1>6, AllSteps

-----------------------------------------------------------------------------
\* A step keeps what the latest Gate of a node was decided to be, and takes no Task from it.
LatestKept(n) ==
  gates'[n] # <<>> =>
    /\ gates[n] # <<>> /\ Gate(n)'.status = Gate(n).status
    /\ Gate(n)'.task = "none" => Gate(n).task = "none"

LEMMA SameLatest ==
  ASSUME NEW n \in Nodes, gates'[n] = gates[n]
  PROVE  LatestKept(n)
  BY DEF LatestKept, Gate

LEMMA LatestSet ==
  ASSUME GateTypeOK, NEW n \in Nodes, gates[n] # <<>>, NEW g, g \in GateRecords, SetGate(n, g)
  PROVE  /\ gates'[n] # <<>> /\ Gate(n)' = g
         /\ \A m \in Nodes \ {n} : gates'[m] = gates[m]
  <1>1. gates[n] \in Seq(GateRecords) /\ Len(gates[n]) \in DOMAIN gates[n]
    BY DEF GateTypeOK
  <1>2. gates'[n] = [gates[n] EXCEPT ![Len(gates[n])] = g] /\ \A m \in Nodes \ {n} : gates'[m] = gates[m]
    BY DEF SetGate, GateTypeOK
  <1>3. Len(gates'[n]) = Len(gates[n]) /\ gates'[n] # <<>>
    BY <1>1, <1>2
  <1> QED
    BY <1>1, <1>2, <1>3 DEF Gate

LEMMA SetKeeps ==
  ASSUME GateTypeOK, NEW n \in Nodes, gates[n] # <<>>, NEW g, g \in GateRecords, SetGate(n, g),
         g.status = Gate(n).status, g.task = "none" => Gate(n).task = "none"
  PROVE  \A m \in Nodes : LatestKept(m)
  BY LatestSet, SameLatest DEF LatestKept

\* A check or an Evaluator of the Gate goes on.
LEMMA GoesOnKeeps ==
  ASSUME GateTypeOK, NEW n \in Nodes, gates[n] # <<>>,
         \/ \E v \in {"pass", "fail"} : SetGate(n, [Gate(n) EXCEPT !.check = v])
         \/ \E v \in {"queued", "running", "pass", "fail", "failed", "blocked", "answered"} :
              SetGate(n, [Gate(n) EXCEPT !.evaluator = v])
  PROVE  \A m \in Nodes : LatestKept(m)
  <1>1. Gate(n) \in GateRecords
    BY GateIs
  <1>2. ASSUME NEW v \in {"pass", "fail"}, SetGate(n, [Gate(n) EXCEPT !.check = v])
        PROVE  \A m \in Nodes : LatestKept(m)
    <2> DEFINE g == [Gate(n) EXCEPT !.check = v]
    <2>1. g \in GateRecords /\ g.status = Gate(n).status /\ g.task = Gate(n).task
      BY <1>1 DEF GateRecords
    <2>2. SetGate(n, g)
      BY <1>2
    <2> HIDE DEF g
    <2> QED
      BY <2>1, <2>2, SetKeeps
  <1>3. ASSUME NEW v \in {"queued", "running", "pass", "fail", "failed", "blocked", "answered"},
               SetGate(n, [Gate(n) EXCEPT !.evaluator = v])
        PROVE  \A m \in Nodes : LatestKept(m)
    <2> DEFINE g == [Gate(n) EXCEPT !.evaluator = v]
    <2>1. g \in GateRecords /\ g.status = Gate(n).status /\ g.task = Gate(n).task
      BY <1>1 DEF GateRecords
    <2>2. SetGate(n, g)
      BY <1>3
    <2> HIDE DEF g
    <2> QED
      BY <2>1, <2>2, SetKeeps
  <1> QED
    BY <1>2, <1>3

\* Tasks that are written are not taken away.
LEMMA WithTasksKeeps ==
  ASSUME GateTypeOK, GatesTyped, NEW works, NEW to, NEW t, gates' = WithTasks(works, to, t),
         \A n \in Nodes : SameGates(n) /\ \A k \in DOMAIN gates[n] :
           <<n, k>> \in works => gates'[n][k].task # "none"
  PROVE  \A n \in Nodes : LatestKept(n)
  <1> SUFFICES ASSUME NEW n \in Nodes, gates'[n] # <<>>
               PROVE  /\ gates[n] # <<>> /\ Gate(n)'.status = Gate(n).status
                      /\ Gate(n)'.task = "none" => Gate(n).task = "none"
    BY DEF LatestKept
  <1>1. gates[n] \in Seq(GateRecords) /\ Len(gates'[n]) = Len(gates[n]) /\ DOMAIN gates'[n] = DOMAIN gates[n]
    BY DEF GateTypeOK, SameGates
  <1>2. gates'[n] = [k \in DOMAIN gates[n] |->
          IF <<n, k>> \in works
          THEN [gates[n][k] EXCEPT !.task = to[gates[n][k].task], !.holder = t]
          ELSE gates[n][k]]
    BY DEF WithTasks
  <1>3. gates[n] # <<>>
    BY <1>1 DEF GatesTyped
  <1> DEFINE k == Len(gates[n])
  <1>4. k \in DOMAIN gates[n] /\ gates[n][k] \in GateRecords /\ Gate(n) = gates[n][k] /\ Gate(n)' = gates'[n][k]
    BY <1>1, <1>3 DEF Gate
  <1> HIDE DEF k
  <1>5. gates'[n][k].status = gates[n][k].status
    BY <1>2, <1>4 DEF GateRecords
  <1>6. gates'[n][k].task = "none" => gates[n][k].task = "none"
    BY <1>2, <1>4
  <1> QED
    BY <1>3, <1>4, <1>5, <1>6

LEMMA CrashKeepsLatest ==
  ASSUME GateTypeOK, Crash, TasksKept
  PROVE  \A n \in Nodes : LatestKept(n)
  <1> SUFFICES ASSUME NEW n \in Nodes, gates'[n] # <<>>
               PROVE  /\ gates[n] # <<>> /\ Gate(n)'.status = Gate(n).status
                      /\ Gate(n)'.task = "none" => Gate(n).task = "none"
    BY DEF LatestKept
  <1>1. gates[n] \in Seq(GateRecords) /\ Len(gates'[n]) = Len(gates[n])
    BY DEF GateTypeOK, TasksKept, SameGates
  <1>2. gates'[n] = [k \in DOMAIN gates[n] |->
          IF gates[n][k].evaluator = "running" THEN [gates[n][k] EXCEPT !.evaluator = "queued"]
          ELSE gates[n][k]]
    BY DEF Crash
  <1>3. gates[n] # <<>>
    BY <1>1, <1>2
  <1>4. Len(gates[n]) \in DOMAIN gates[n] /\ Gate(n) \in GateRecords /\ Gate(n)' = gates'[n][Len(gates[n])]
    BY <1>1, <1>3 DEF Gate
  <1>5. Gate(n)' = IF Gate(n).evaluator = "running" THEN [Gate(n) EXCEPT !.evaluator = "queued"] ELSE Gate(n)
    BY <1>2, <1>4 DEF Gate
  <1> QED
    BY <1>3, <1>4, <1>5 DEF GateRecords

LEMMA RootKeepsLatest ==
  ASSUME GateTypeOK, TaskInv, TaskInv', CompletedStay, GatesTyped, TurnsTyped,
         Remediate \/ ContinueTurn \/ SettleTasks \/ TurnReturns
  PROVE  \A n \in Nodes : LatestKept(n)
  <1>1. ASSUME turns' # <<>>, NEW works, works \subseteq Turn'.tasks, NEW to, NEW t, gates' = WithTasks(works, to, t)
        PROVE  \A n \in Nodes : LatestKept(n)
    <2>1. \A n \in Nodes : SameGates(n)
      BY DEF CompletedStay
    <2>2. \A w \in Turn'.tasks : gates'[w[1]][w[2]].task # "none"
      BY <1>1 DEF TaskInv, TurnAgrees
    <2>3. \A n \in Nodes : \A k \in DOMAIN gates[n] : <<n, k>> \in works => gates'[n][k].task # "none"
      BY <1>1, <2>2
    <2> QED
      BY <1>1, <2>1, <2>3, WithTasksKeeps
  <1>2. CASE Remediate
    <2> DEFINE works == {<<n, Len(gates[n])>> : n \in Remediable}
    <2>1. /\ turns' = Append(turns, NewTurn("gate_result", works, {})) /\ Len(turns) < MaxTurns
          /\ gates' = WithTasks(works, Assigned, Len(turns) + 1)
      BY <1>2 DEF Remediate
    <2>2. NewTurn("gate_result", works, {}) \in TurnRecords
      BY DEF Remediable, GateTypeOK, NewTurn, TurnRecords
    <2>3. turns' # <<>> /\ Turn' = NewTurn("gate_result", works, {})
      BY <2>1, <2>2, TurnAdded
    <2>4. works = Turn'.tasks
      BY <2>3 DEF NewTurn
    <2> HIDE DEF works
    <2> QED
      BY <1>1, <2>1, <2>3, <2>4
  <1>3. CASE ContinueTurn
    <2>1. Turn \in TurnRecords
      BY <1>3, RootSettles, TurnIs DEF ContinueTurn
    <2>2. NewTurn(Turn.purpose, Turn.tasks, Turn.told) \in TurnRecords
      BY <2>1 DEF NewTurn, TurnRecords
    <2>3. turns' # <<>> /\ Turn' = NewTurn(Turn.purpose, Turn.tasks, Turn.told)
      BY <1>3, <2>2, TurnAdded DEF ContinueTurn
    <2>4. Turn'.tasks = Turn.tasks
      BY <2>3 DEF NewTurn
    <2>5. Unsettled \subseteq Turn'.tasks /\ gates' = WithTasks(Unsettled, Assigned, Len(turns) + 1)
      BY <1>3, <2>4 DEF Unsettled, ContinueTurn
    <2> QED
      BY <1>1, <2>3, <2>5
  <1>4. CASE SettleTasks
    <2>1. turns # <<>> /\ turns' # <<>> /\ Turn' = Turn
      BY <1>4, RootSettles DEF SettleTasks, Turn
    <2>2. Unsettled \subseteq Turn'.tasks
      BY <2>1 DEF Unsettled
    <2>3. gates' = WithTasks(Unsettled, Addressed, Len(turns)) \/ gates' = WithTasks(Unsettled, EndedTask, Len(turns))
      BY <1>4 DEF SettleTasks
    <2> QED
      BY <1>1, <2>1, <2>2, <2>3
  <1>5. CASE TurnReturns
    <2>1. PICK end \in {"completed", "unfinished"}, report \in {"running", "completed", "blocked"} :
            /\ SetTurn("status", end)
            /\ gates' = WithTasks(Turn.tasks,
                 [task \in OpenTask \cup TaskEnds |-> IF task = "running" THEN report ELSE task], Len(turns))
      BY <1>5 DEF TurnReturns
    <2>2. turns # <<>> /\ Turn \in TurnRecords
      BY <1>5, TurnIs DEF TurnReturns
    <2>3. turns' # <<>> /\ Turn' = [Turn EXCEPT !.status = end]
      BY <2>1, <2>2, TurnSet
    <2>4. Turn'.tasks = Turn.tasks
      BY <2>2, <2>3 DEF TurnRecords
    <2> QED
      BY <1>1, <2>1, <2>3, <2>4
  <1> QED
    BY <1>2, <1>3, <1>4, <1>5

\* Every step but those that open or settle a Gate.
LEMMA LatestStep ==
  ASSUME GateTypeOK, NodesFollowTheirWork, TaskInv, TaskInv', GatesTyped, TurnsTyped, CompletedStay,
         [Next]_vars, \A n \in Nodes : ~OpenGate(n) /\ ~SettleGate(n)
  PROVE  \A n \in Nodes : LatestKept(n)
  <1> DEFINE Kept == \A n \in Nodes : LatestKept(n)
  <1>1. UNCHANGED gates => Kept
    BY SameLatest
  <1>2. CASE ExecuteTurn \/ IntegrateTurn \/ FailRun \/ RootConflict \/ Call \/ TurnFails \/ TellEnded \/ UNCHANGED vars
    BY <1>1, <1>2 DEF ExecuteTurn, IntegrateTurn, FailRun, RootConflict, Call, TurnFails, TellEnded, vars, gateVars
  <1>3. CASE TurnCancels
    <2>1. ASSUME NEW n \in Remediable, SetGate(n, [Gate(n) EXCEPT !.task = "cancelled"])
          PROVE  Kept
      <3> DEFINE g == [Gate(n) EXCEPT !.task = "cancelled"]
      <3>1. n \in Nodes /\ gates[n] # <<>> /\ Gate(n) \in GateRecords
        BY GateIs DEF Remediable
      <3>2. g \in GateRecords /\ g.status = Gate(n).status /\ g.task = "cancelled" /\ SetGate(n, g)
        BY <2>1, <3>1 DEF GateRecords, TaskEnds
      <3> HIDE DEF g
      <3> QED
        BY <3>1, <3>2, SetKeeps
    <2> QED
      BY <1>1, <1>3, <2>1 DEF TurnCancels
  <1>4. CASE Crash
    BY <1>4, StepsKeep, CrashKeepsLatest
  <1>5. CASE Resolve
    <2>1. ASSUME NEW n \in Nodes, node[n] = "decision", SetGate(n, [Gate(n) EXCEPT !.evaluator = "answered"])
          PROVE  Kept
      BY <2>1, GoesOnKeeps DEF NodesFollowTheirWork
    <2> QED
      BY <1>1, <1>5, <2>1 DEF Resolve
  <1>6. ASSUME NEW n \in Nodes, NodeSteps(n)
        PROVE  Kept
    <2>1. node[n] = "decision" => gates[n] # <<>>
      BY DEF NodesFollowTheirWork
    <2>2. CASE ResumeNode(n)
      BY <1>1, <2>1, <2>2, GoesOnKeeps DEF ResumeNode
    <2> QED
      BY <1>1, <1>6, <2>2 DEF NodeSteps, StartNode, ExecuteWorker, IntegrateWorker, WaitForConflict, FailNode, gateVars
  <1>7. ASSUME NEW n \in Nodes, RunChecks(n) \/ PrepareEvaluator(n) \/ ExecuteEvaluator(n)
        PROVE  Kept
    <2>1. worker[n] # "queued"
      BY <1>7 DEF RunChecks, PrepareEvaluator, ExecuteEvaluator, NodeIs, NodeAdvice, Ended
    <2>2. gates[n] # <<>>
      BY <1>7, <2>1, NodeAtGate DEF RunChecks, PrepareEvaluator, ExecuteEvaluator
    <2> QED
      BY <1>7, <2>2, GoesOnKeeps DEF RunChecks, PrepareEvaluator, ExecuteEvaluator
  <1>8. ASSUME NEW n \in Nodes, WorkerEnds(n) \/ RetryDue(n) \/ EvaluatorEnds(n)
        PROVE  Kept
    <2>1. CASE EvaluatorEnds(n)
      <3>1. \E v \in {"queued", "running", "pass", "fail", "failed", "blocked", "answered"} :
              SetGate(n, [Gate(n) EXCEPT !.evaluator = v])
        BY <2>1 DEF EvaluatorEnds
      <3> QED
        BY <2>1, <3>1, GoesOnKeeps DEF EvaluatorEnds
    <2> QED
      BY <1>1, <1>8, <2>1 DEF WorkerEnds, RetryDue
  <1>9. CASE Remediate \/ ContinueTurn \/ SettleTasks \/ TurnReturns
    BY <1>9, RootKeepsLatest
  <1> QED
    BY <1>2, <1>3, <1>4, <1>5, <1>6, <1>7, <1>8, <1>9 DEF Next, Pass, RootSteps, GateSteps, AttemptEnds

\* An ended node with Gates stays ended.
LEMMA EndedStays ==
  ASSUME GateTypeOK, CallDecides, NodesFollowTheirWork, [Next]_vars,
         NEW m \in Nodes, gates[m] # <<>>, Ended(m)
  PROVE  Ended(m)'
  <1>1. UNCHANGED node => Ended(m)'
    BY DEF Ended
  <1>2. change[m] = "integrated" /\ m \in Changesets
    BY NodesAreChangesets DEF NodesFollowTheirWork
  <1>3. ASSUME NEW n \in Nodes, NodeSteps(n)
        PROVE  Ended(m)'
    <2>1. CASE StartNode(n)
      <3>1. node[n] = "ready"
        BY <2>1 DEF StartNode, NodeIs, NodeAdvice, GateAdvice
      <3> QED
        BY <2>1, <3>1 DEF StartNode, SetNode, Ended, GateTypeOK
    <2>2. CASE WaitForConflict(n)
      <3>1. n # m
        BY <1>2, <2>2 DEF WaitForConflict, CallDecides
      <3> QED
        BY <2>2, <3>1 DEF WaitForConflict, SetNode, Ended, GateTypeOK
    <2>3. CASE FailNode(n)
      BY <2>3 DEF FailNode, SetNode, Ended, GateTypeOK
    <2>4. CASE ResumeNode(n)
      <3>1. node[n] \in {"decision", "conflict"}
        BY <2>4 DEF ResumeNode, NodeIs, NodeAdvice, GateAdvice
      <3> QED
        BY <2>4, <3>1 DEF ResumeNode, SetNode, Ended, GateTypeOK
    <2> QED
      BY <1>1, <1>3, <2>1, <2>2, <2>3, <2>4 DEF NodeSteps, ExecuteWorker, IntegrateWorker, gateVars
  <1>4. ASSUME NEW n \in Nodes, SettleGate(n)
        PROVE  Ended(m)'
    <2>1. node[n] = "running"
      BY <1>4, SettlingRuns DEF SettleGate
    <2>2. UNCHANGED node \/ \E s \in {"decision", "succeeded", "failed"} : SetNode(n, s)
      BY <1>4 DEF SettleGate
    <2> QED
      BY <2>1, <2>2 DEF SetNode, Ended, GateTypeOK
  <1>5. CASE UNCHANGED vars
    BY <1>1, <1>5 DEF vars, gateVars
  <1>6. CASE Next /\ \A n \in Nodes : ~NodeSteps(n) /\ ~SettleGate(n)
    BY <1>1, <1>6 DEF Next, Pass, RootSteps, ExecuteTurn, IntegrateTurn, ContinueTurn, SettleTasks, FailRun, TellEnded,
       Remediate, RootConflict, Call, TurnReturns, TurnFails, TurnCancels, Resolve, Crash, gateVars, AttemptEnds,
       WorkerEnds, RetryDue, EvaluatorEnds, GateSteps, OpenGate, RunChecks, PrepareEvaluator, ExecuteEvaluator
  <1> QED
    BY <1>3, <1>4, <1>5, <1>6

LEMMA DecidedStep ==
  ASSUME GateInv, GateInv', DecidedEnds, [Next]_vars
  PROVE  DecidedEnds'
  <1> USE DEF GateInv
  <1> SUFFICES ASSUME NEW m \in Nodes, gates'[m] # <<>>,
                      \/ Gate(m)'.status = "passed"
                      \/ Gate(m)'.status = "failed" /\ Gate(m)'.task = "none"
               PROVE  Ended(m)'
    BY DEF DecidedEnds
  <1>1. IntegrationTypeOK /\ TaskInv /\ TaskInv' /\ GatesTyped /\ TurnsTyped
    BY DEF IntegrationInv, TaskInv, GateTypeOK, GatesTyped, TurnsTyped
  <1>2. CASE LatestKept(m)
    <2>1. gates[m] # <<>> /\ Ended(m)
      BY <1>2 DEF LatestKept, DecidedEnds
    <2> QED
      BY <2>1, EndedStays
  <1>3. ASSUME NEW n \in Nodes, OpenGate(n)
        PROVE  LatestKept(m)
    <2>1. /\ \A o \in Nodes \ {n} : gates'[o] = gates[o]
          /\ Len(gates'[n]) = Len(gates[n]) + 1 /\ gates'[n][Len(gates[n]) + 1] = NewGate
      BY <1>1, <1>3, OpenGateAdds
    <2>2. m # n
      BY <2>1 DEF Gate, NewGate
    <2> QED
      BY <2>1, <2>2, SameLatest
  <1>4. ASSUME NEW n \in Nodes, SettleGate(n)
        PROVE  Ended(m)'
    <2>1. gates[n] # <<>> /\ node[n] = "running" /\ GateAdvice(n) = "settle_gate" /\ Gate(n) \in GateRecords
      BY <1>4, SettlingRuns, GateIs DEF SettleGate
    <2>2. CASE m # n
      <3>1. gates'[m] = gates[m]
        BY <1>4, <2>2 DEF SettleGate, SetGate, GateTypeOK
      <3> QED
        BY <1>2, <3>1, SameLatest
    <2>3. CASE m = n /\ UNCHANGED gates
      BY <1>2, <2>3, SameLatest
    <2>4. CASE m = n /\ SetGate(n, [Gate(n) EXCEPT !.status = "failed", !.task = "pending"])
      <3> DEFINE g == [Gate(n) EXCEPT !.status = "failed", !.task = "pending"]
      <3>1. g \in GateRecords /\ g.status = "failed" /\ g.task = "pending" /\ SetGate(n, g)
        BY <2>1, <2>4 DEF GateRecords, OpenTask
      <3> HIDE DEF g
      <3> QED
        BY <2>1, <2>4, <3>1, LatestSet
    <2>5. CASE m = n /\ \E s \in {"succeeded", "failed"} : SetNode(n, s)
      BY <2>5 DEF SetNode, Ended, GateTypeOK
    <2> QED
      BY <1>4, <2>2, <2>3, <2>4, <2>5 DEF SettleGate
  <1>5. CASE \A n \in Nodes : ~OpenGate(n) /\ ~SettleGate(n)
    <2>1. CompletedStay
      <3>1. IntegratedStay
        <4>1. ChangesFollow
          BY GateMoves, ChangesStep
        <4> QED
          BY <4>1 DEF ChangesFollow, IntegratedStay
      <3>2. ChangesFollow
        BY GateMoves, ChangesStep
      <3> QED
        BY <1>1, <1>5, <3>1, <3>2, TasksFollow
    <2>2. LatestKept(m)
      BY <1>1, <1>5, <2>1, LatestStep
    <2> QED
      BY <1>2, <2>2
  <1> QED
    BY <1>2, <1>3, <1>4, <1>5

-----------------------------------------------------------------------------
LEMMA RestInvStep ==
  ASSUME RestInv, [Next]_vars
  PROVE  RestInv'
  <1>1. GateInv' /\ Move /\ ChangesFollow
    BY GateInvStep, GateMoves, ChangesStep DEF RestInv, GateInv
  <1>2. IntegrationTypeOK /\ GateTypeOK /\ CallDecides /\ NodesFollowTheirWork
    BY DEF RestInv, GateInv, IntegrationInv
  <1> QED
    BY <1>1, <1>2, WorkersStep, ConflictsStep, TurnsStep, DecidedStep DEF RestInv

LEMMA RestInvInit == Init => RestInv
  <1> SUFFICES ASSUME Init PROVE RestInv
    OBVIOUS
  <1>1. GateInv
    BY GateInvInit
  <1>2. /\ \A c \in Changesets : change[c] = "none"
        /\ turns = <<>> /\ \A n \in Nodes : gates[n] = <<>> /\ worker[n] = "none" /\ node[n] = "ready"
    BY DEF Init, IntegrationInit
  <1> QED
    BY <1>1, <1>2 DEF RestInv, WorkersRecorded, ConflictsHaveTasks, TurnsRecorded, DecidedEnds

\* What is advised of a node is an action.
LEMMA NodeServed ==
  ASSUME RestInv, NEW n \in Nodes, NodeActs(n)
  PROVE  NodeServes(n)
  <1>1. /\ node[n] \in {"ready", "running", "decision", "conflict", "succeeded", "failed"}
        /\ worker[n] \in {"none", "queued", "running", "retrying", "completed", "failed"}
        /\ change[n] \in {"none", "pending", "integrated", "conflict"} /\ n \in Changesets
        /\ conflictTask[n] \in {"none", "pending", "cancelled"}
    BY NodesAreChangesets DEF RestInv, GateInv, GateTypeOK, IntegrationInv, IntegrationTypeOK
  <1>2. CASE node[n] \in {"ready", "decision", "conflict"} \/ Ended(n)
    <2>1. NodeAdvice(n) \in {"start", "resume", "wait", "terminal"}
      BY <1>2 DEF NodeAdvice, Ended
    <2> QED
      BY <2>1 DEF NodeActs, NodeServes
  <1>3. CASE node[n] = "running"
    <2>1. worker[n] # "none"
      BY <1>3 DEF RestInv, WorkersRecorded
    <2>2. NodeAdvice(n) = IF worker[n] = "queued" THEN "execute"
                          ELSE IF worker[n] \in {"running", "retrying"} THEN "in_flight"
                          ELSE IF worker[n] = "failed" \/ change[n] # "integrated" THEN "settle"
                          ELSE GateAdvice(n)
      BY <1>3 DEF NodeAdvice, Ended
    <2>3. CASE worker[n] \in {"queued", "running", "retrying", "failed"}
      BY <2>2, <2>3 DEF NodeActs, NodeServes
    <2>4. CASE worker[n] = "completed" /\ change[n] # "integrated"
      <3>1. NodeAdvice(n) = "settle" /\ change[n] \in {"pending", "conflict"}
        BY <1>1, <2>2, <2>4 DEF RestInv, WorkersRecorded
      <3>2. change[n] = "conflict" => conflictTask[n] \in {"pending", "cancelled"}
        BY <1>1 DEF RestInv, ConflictsHaveTasks
      <3> QED
        BY <2>4, <3>1, <3>2 DEF NodeServes
    <2>5. CASE worker[n] = "completed" /\ change[n] = "integrated"
      <3>1. NodeAdvice(n) = GateAdvice(n)
        BY <2>2, <2>5
      <3>2. CASE gates[n] = <<>>
        BY <3>1, <3>2 DEF GateAdvice, NodeServes
      <3>3. CASE gates[n] # <<>> /\ GateAdvice(n) # "settle_gate"
        <4>1. GateAdvice(n) \in {"open", "check", "prepare", "execute", "in_flight", "remediating"}
          BY <3>3 DEF GateAdvice
        <4> QED
          BY <2>5, <3>1, <3>3, <4>1 DEF NodeActs, NodeServes
      <3>4. CASE gates[n] # <<>> /\ GateAdvice(n) = "settle_gate"
        <4>1. Gate(n) \in GateRecords
          BY <3>4, GateIs DEF RestInv, GateInv
        <4>2. Gate(n).task \notin OpenTask \cup {"completed"}
          BY <3>4 DEF GateAdvice
        <4>3. Gate(n).task \in {"none", "failed", "cancelled"}
          BY <4>1, <4>2 DEF GateRecords, TaskEnds
        <4>4. ~Ended(n)
          BY <1>3 DEF Ended
        <4>5. Gate(n).status = "open" \/ Gate(n).task \in {"failed", "cancelled"}
          BY <3>4, <4>1, <4>3, <4>4 DEF RestInv, DecidedEnds, GateRecords
        <4>6. GateServes(Gate(n))
          BY <4>5 DEF GateServes, Judged
        <4> QED
          BY <3>1, <3>4, <4>6 DEF NodeServes
      <3> QED
        BY <3>2, <3>3, <3>4
    <2> QED
      BY <1>1, <2>1, <2>3, <2>4, <2>5
  <1> QED
    BY <1>1, <1>2, <1>3 DEF Ended

\* What is advised of the root is an action, unless its turns are used up or its Changeset conflicts.
LEMMA RootServed ==
  ASSUME RestInv, RootActs, ~OutOfTurns, ~RootConflicts
  PROVE  RootServes
  <1>1. CASE RootAdvice = "execute"
    BY <1>1 DEF RootServes
  <1>2. CASE RootAdvice = "settle"
    <2>1. turns # <<>> /\ ToSettle /\ Turn.status \notin {"queued", "running"}
      BY <1>2 DEF RootAdvice
    <2>2. Turn \in TurnRecords /\ OwnChangeset \in Changesets /\ Len(turns) \in Nat /\ Len(turns) <= MaxTurns
      BY <2>1, TurnIs DEF RestInv, GateInv, GateTypeOK
    <2>3. CASE Turn.status = "blocked"
      BY <1>2, <2>2, <2>3, NodeGatesAssumption DEF OutOfTurns, RootServes
    <2>4. CASE Outstanding
      <3>1. change[OwnChangeset] \in {"none", "pending", "integrated", "conflict"}
        BY <2>2 DEF RestInv, GateInv, IntegrationInv, IntegrationTypeOK
      <3>2. change[OwnChangeset] = "pending"
        BY <2>1, <2>4, <3>1 DEF RestInv, TurnsRecorded, Outstanding, RootConflicts
      <3> QED
        BY <1>2, <2>4, <3>2 DEF RootServes
    <2>5. CASE Turn.status # "blocked" /\ ~Outstanding
      BY <1>2, <2>1, <2>5 DEF ToSettle, RootServes
    <2> QED
      BY <2>3, <2>4, <2>5
  <1> QED
    BY <1>1, <1>2 DEF RootActs

\* A node whose Gate is remediated has a turn that works on it, or the root is told to.
LEMMA RemediationGoesOn ==
  ASSUME RestInv, NEW n \in Nodes, NodeAdvice(n) = "remediating", ~RootActs,
         turns = <<>> \/ Turn.status # "running"
  PROVE  RootAdvice \in {"wait", "tell", "remediate"}
  <1>1. node[n] \in {"ready", "running", "decision", "conflict", "succeeded", "failed"} /\ gates[n] \in Seq(GateRecords)
    BY DEF RestInv, GateInv, GateTypeOK
  <1>2. node[n] = "running" /\ GateAdvice(n) = "remediating"
    BY <1>1 DEF NodeAdvice, Ended
  <1>3. gates[n] # <<>> /\ Gate(n).task \in OpenTask
    BY <1>2 DEF GateAdvice
  <1>4. Len(gates[n]) \in DOMAIN gates[n]
    BY <1>1, <1>3
  <1>5. CASE Gate(n).task \in {"pending", "blocked"}
    <2>1. Remediable # {}
      BY <1>2, <1>3, <1>5 DEF Remediable
    <2> QED
      BY <2>1 DEF RootAdvice, RootActs
  <1>6. CASE Gate(n).task = "running"
    <2>1. turns # <<>> /\ <<n, Len(gates[n])>> \in Turn.tasks
      BY <1>4, <1>6 DEF RestInv, GateInv, HeldByTheLatest, Gate
    <2>2. <<n, Len(gates[n])>> \in Unsettled /\ Turn.purpose = "gate_result"
      BY <1>6, <2>1 DEF RestInv, GateInv, TurnAgrees, Unsettled, TaskEnds, Gate
    <2>3. Turn.status # "blocked" => ToSettle
      BY <2>2 DEF ToSettle
    <2>4. Turn.status = "blocked" => Turn.decision \in {"open", "resolved"}
      BY <2>1 DEF RestInv, GateInv, TurnAgrees
    <2>5. Turn.status = "blocked" /\ Turn.decision = "resolved" => ToSettle
      BY DEF ToSettle
    <2> QED
      BY <2>1, <2>3, <2>4, <2>5 DEF RootAdvice, RootActs
  <1> QED
    BY <1>3, <1>5, <1>6 DEF OpenTask

LEMMA NoneStarves == RestInv => NoNodeStarves
  <1> SUFFICES ASSUME RestInv, AtRest, ~OutOfTurns, ~RootConflicts, ~PassServes, NEW n \in Nodes
               PROVE  Ended(n) \/ Waits(n)
    BY DEF NoNodeStarves
  <1>1. ~RootActs
    BY RootServed DEF PassServes
  <1>2. \A m \in Nodes : ~NodeActs(m)
    <2> DEFINE S == {m \in Nodes : NodeActs(m)}
    <2>1. ASSUME S # {} PROVE FALSE
      <3>1. PICK m \in S : \A o \in 1..m - 1 : o \notin S
        BY <2>1, FirstOfNodes
      <3>2. \A o \in 1..m - 1 : o \in Nodes
        BY <3>1, NodeGatesAssumption DEF Nodes
      <3> QED
        BY <1>1, <3>1, <3>2, NodeServed DEF PassServes
    <2> QED
      BY <2>1
  <1>3. /\ turns = <<>> \/ Turn.status # "running"
        /\ worker[n] \notin {"running", "retrying"} /\ (gates[n] = <<>> \/ Gate(n).evaluator # "running")
    BY DEF AtRest, InFlight
  <1>4. RootAdvice \notin {"tell", "remediate"}
    <2>1. Quiet
      BY <1>2 DEF AtRest, Quiet
    <2>2. Len(turns) <= MaxTurns /\ Len(turns) \in Nat /\ MaxTurns \in Nat
      BY NodeGatesAssumption DEF RestInv, GateInv, GateTypeOK
    <2> QED
      BY <2>1, <2>2 DEF PassServes, OutOfTurns
  <1>5. NodeAdvice(n) \in {"wait", "terminal", "in_flight", "remediating"}
    BY <1>2 DEF NodeActs
  <1>6. NodeAdvice(n) # "in_flight"
    BY <1>3 DEF NodeAdvice, GateAdvice
  <1>7. CASE NodeAdvice(n) = "wait"
    BY <1>7 DEF Waits
  <1>8. CASE NodeAdvice(n) = "terminal"
    BY <1>8 DEF NodeAdvice, GateAdvice
  <1>9. CASE NodeAdvice(n) = "remediating"
    BY <1>1, <1>3, <1>4, <1>9, RemediationGoesOn DEF Waits
  <1> QED
    BY <1>5, <1>6, <1>7, <1>8, <1>9

\* For any nodes, Gates, turns, crashes and lost calls: while nothing is under way in the Run, what
\* its rows advise first is an action the pass can perform, or every node ended or waits for
\* somebody (the projections of patterns/root.ts, SequentialStepEngine and gates.phaseOf against
\* the settlements they ask for).  The safety half of GatedNodesEnd.
THEOREM NoNodeStarvesHolds == Spec => []NoNodeStarves
  BY RestInvInit, RestInvStep, NoneStarves, PTL DEF Spec
=============================================================================
