--------------------------- MODULE DecisionProofs ---------------------------
(***************************************************************************)
(* Why an approval is spent once and a resolution is heard once, for any   *)
(* positions, questions and bounds.                                        *)
(***************************************************************************)
EXTENDS Decisions, FiniteSetTheorems, TLAPS

MaybeDecision == {NoDecision} \cup DecisionIds
TurnRecords ==
  [status : {"running", "blocked", "succeeded", "failed"}, live : BOOLEAN, tries : Nat,
   asked : MaybeDecision, on : MaybeDecision, wants : BOOLEAN, held : MaybeDecision,
   told : SUBSET DecisionIds]
Turns == {t \in TurnRecords :
  (t.status = "blocked" => t.on # NoDecision) /\ (t.live => t.status = "running")}
DecisionRows ==
  [kind : Kinds, status : {"absent", "open", "resolved", "superseded"},
   by : {"nobody", "operator", "policy"}, answer : {"none", "yes", "no"},
   from : {Nobody} \cup (Positions \X Nat), heir : MaybeDecision, pinned : Nat]

DecisionTypeOK ==
  /\ run \in {"running", "failed", "cancelled"}
  /\ turns \in [Positions -> Seq(Turns)] /\ \A p \in Positions : turns[p] # <<>>
  /\ decisions \in [DecisionIds -> DecisionRows]
  /\ used \in [DecisionIds -> {Nobody} \cup (Positions \X Nat \X Nat)]
  /\ performed \in [DecisionIds -> Nat]
  /\ queue \subseteq DecisionIds
  /\ requirement \in [revision : Nat, waived : BOOLEAN]
  /\ failed \subseteq Positions /\ crashes \in Nat

\* The claims: an approval in use is the operator's yes to what the previous turn of the position
\* proposed, and the one who may still execute under it is the turn that claimed it.
ClaimsFit ==
  \A d \in DecisionIds :
    /\ used[d] # Nobody =>
         /\ decisions[d].kind = "approval" /\ decisions[d].status = "resolved"
         /\ decisions[d].answer = "yes"
         /\ decisions[d].from = <<used[d][1], used[d][2] - 1>>
    /\ performed[d] <= 1
    /\ performed[d] = 1 => used[d] # Nobody
HeldIsClaimed ==
  \A p \in Positions :
    Turn(p).held # NoDecision =>
      /\ Turn(p).held \in DecisionIds
      /\ used[Turn(p).held] # Nobody /\ used[Turn(p).held][1] = p
      /\ performed[Turn(p).held] = 0

SpentInv == DecisionTypeOK /\ ClaimsFit /\ HeldIsClaimed

\* Who asked: a Decision a turn asked for or is blocked on names that turn.
AskedBy ==
  \A p \in Positions : \A n \in 1..Last(p) :
    LET t == turns[p][n]
    IN  /\ t.asked # NoDecision =>
             decisions[t.asked].status # "absent" /\ decisions[t.asked].from = <<p, n>>
        /\ t.status = "blocked" =>
             decisions[t.on].status # "absent" /\ decisions[t.on].from = <<p, n>>
\* What is told was decided: on the question of the turn before, or by the operator's own choice.
ToldFits ==
  /\ \A p \in Positions : \A n \in 1..Last(p) : \A d \in turns[p][n].told :
       decisions[d].status # "absent" /\ decisions[d].from \in {Nobody, <<p, n - 1>>}
  /\ \A d \in queue : decisions[d].status # "absent" /\ decisions[d].from = Nobody
\* A Decision is a turn's question, or the operator's choice that superseded one other Decision.
AskedOrHeir ==
  \A d \in DecisionIds :
    /\ decisions[d].status = "absent" => decisions[d].heir = NoDecision
    /\ decisions[d].status # "absent" /\ decisions[d].from = Nobody =>
         decisions[d].kind = "choice" /\ \E e \in DecisionIds : decisions[e].heir = d
    /\ decisions[d].status # "absent" /\ decisions[d].from # Nobody =>
         decisions[d].from[2] \in 1..Last(decisions[d].from[1])
HeirsDiffer ==
  \A d \in DecisionIds :
    LET s == decisions[d].heir
    IN  s # NoDecision =>
          /\ decisions[d].status = "superseded" /\ decisions[d].from # Nobody
          /\ decisions[s].status # "absent" /\ decisions[s].from = Nobody
          /\ \A e \in DecisionIds : decisions[e].heir = s => e = d
WaitsOn(d) == \E p \in Positions : Turn(p).status = "blocked" /\ Turn(p).on = d
Told(d) == \E p \in Positions : \E n \in 1..Last(p) : d \in turns[p][n].told
ToldOne(d) ==
  \A p, q \in Positions : \A n \in 1..Last(p), m \in 1..Last(q) :
    d \in turns[p][n].told /\ d \in turns[q][m].told => p = q /\ n = m
\* A superseding choice is with the turn that waits, in the queue, or with the one turn that heard it.
OneWay ==
  \A d \in DecisionIds :
    LET s == decisions[d].heir
    IN  s # NoDecision =>
          /\ WaitsOn(d) \/ s \in queue \/ Told(s)
          /\ ~(WaitsOn(d) /\ s \in queue) /\ ~(WaitsOn(d) /\ Told(s)) /\ ~(s \in queue /\ Told(s))
          /\ ToldOne(s)

HeardInv == DecisionTypeOK /\ AskedBy /\ ToldFits /\ AskedOrHeir /\ HeirsDiffer /\ OneWay

-----------------------------------------------------------------------------
(***************************************************************************)
(* The turns of a position: writing the latest, adding the next.           *)
(***************************************************************************)
LEMMA LatestTurn ==
  ASSUME DecisionTypeOK, NEW p \in Positions
  PROVE  Turn(p) \in Turns /\ Last(p) \in Nat \ {0} /\ turns[p] \in Seq(Turns) /\ DOMAIN turns[p] = 1..Last(p)
  BY DEF DecisionTypeOK, Turn, Last

LEMMA TurnWritten ==
  ASSUME DecisionTypeOK, NEW p \in Positions, NEW t \in Turns, Becomes(p, t)
  PROVE  /\ turns' \in [Positions -> Seq(Turns)] /\ \A q \in Positions : turns'[q] # <<>>
         /\ \A q \in Positions : q # p => turns'[q] = turns[q]
         /\ Len(turns'[p]) = Last(p) /\ turns'[p][Last(p)] = t
         /\ \A n \in 1..Last(p) : n # Last(p) => turns'[p][n] = turns[p][n]
<1>1. turns' = [turns EXCEPT ![p] = [turns[p] EXCEPT ![Last(p)] = t]]
  BY DEF Becomes
<1>2. turns[p] \in Seq(Turns) /\ Last(p) \in 1..Len(turns[p]) /\ Last(p) = Len(turns[p])
  BY LatestTurn DEF Last
<1>3. /\ [turns[p] EXCEPT ![Last(p)] = t] \in Seq(Turns)
      /\ Len([turns[p] EXCEPT ![Last(p)] = t]) = Len(turns[p])
      /\ [turns[p] EXCEPT ![Last(p)] = t] # <<>>
  BY <1>2
<1>4. QED
  BY <1>1, <1>2, <1>3 DEF DecisionTypeOK

LEMMA TurnAdded ==
  ASSUME DecisionTypeOK, NEW p \in Positions, NEW t \in Turns,
         turns' = [turns EXCEPT ![p] = Append(@, t)]
  PROVE  /\ turns' \in [Positions -> Seq(Turns)] /\ \A q \in Positions : turns'[q] # <<>>
         /\ \A q \in Positions : q # p => turns'[q] = turns[q]
         /\ Len(turns'[p]) = Last(p) + 1 /\ turns'[p][Last(p) + 1] = t
         /\ \A n \in 1..Last(p) : turns'[p][n] = turns[p][n]
<1>1. turns[p] \in Seq(Turns) /\ Last(p) = Len(turns[p])
  BY LatestTurn DEF Last
<1>2. /\ Append(turns[p], t) \in Seq(Turns) /\ Append(turns[p], t) # <<>>
      /\ Len(Append(turns[p], t)) = Len(turns[p]) + 1
  BY <1>1
<1>3. QED
  BY <1>1, <1>2 DEF DecisionTypeOK

\* A dead process leaves each turn as it was, or failed, with no Attempt, claim or intercepted call.
Dropped(t, u) ==
  /\ u \in Turns
  /\ ~u.live /\ ~u.wants /\ u.held = NoDecision
  /\ u.asked = t.asked /\ u.on = t.on /\ u.told = t.told
  /\ u.status = t.status \/ (t.live /\ u.status = "failed")
LEMMA CrashDrops ==
  ASSUME DecisionTypeOK, Crash
  PROVE  /\ turns' \in [Positions -> Seq(Turns)] /\ \A q \in Positions : turns'[q] # <<>>
         /\ \A q \in Positions : Len(turns'[q]) = Last(q)
         /\ \A q \in Positions : \A n \in 1..Last(q) : Dropped(turns[q][n], turns'[q][n])
<1> DEFINE After(p, t) ==
             IF t.live /\ t.tries = MaxAttempts[p] /\ t.asked = NoDecision
               THEN [Ended(t) EXCEPT !.status = "failed"] ELSE Ended(t)
<1>1. turns' = [p \in Positions |-> [n \in 1..Last(p) |-> After(p, turns[p][n])]]
  BY DEF Crash
<1>2. ASSUME NEW p \in Positions, NEW t \in Turns
      PROVE  Dropped(t, After(p, t))
  <2>1. /\ Ended(t) \in Turns /\ ~Ended(t).live /\ ~Ended(t).wants /\ Ended(t).held = NoDecision
        /\ Ended(t).asked = t.asked /\ Ended(t).on = t.on /\ Ended(t).told = t.told /\ Ended(t).status = t.status
    BY DEF Ended, Turns, TurnRecords, MaybeDecision
  <2> HIDE DEF Ended
  <2>2. [Ended(t) EXCEPT !.status = "failed"] \in Turns
    BY <2>1 DEF Turns, TurnRecords
  <2>3. QED
    BY <2>1, <2>2 DEF Dropped, Turns, TurnRecords
<1>3. \A q \in Positions : \A n \in 1..Last(q) : Dropped(turns[q][n], After(q, turns[q][n]))
  BY <1>2, LatestTurn
<1> HIDE DEF After
<1>4. \A q \in Positions : /\ turns'[q] = [n \in 1..Last(q) |-> After(q, turns[q][n])]
                           /\ Last(q) \in Nat \ {0}
                           /\ \A n \in 1..Last(q) : After(q, turns[q][n]) \in Turns
  BY <1>1, <1>3, LatestTurn DEF Dropped
<1>5. \A q \in Positions : turns'[q] \in Seq(Turns) /\ Len(turns'[q]) = Last(q) /\ turns'[q] # <<>>
  <2> SUFFICES ASSUME NEW q \in Positions
               PROVE  turns'[q] \in Seq(Turns) /\ Len(turns'[q]) = Last(q) /\ turns'[q] # <<>>
    OBVIOUS
  <2>1. turns'[q] \in [1..Last(q) -> Turns] /\ Last(q) \in Nat \ {0}
    BY <1>4
  <2> HIDE DEF Turns
  <2>2. QED
    BY <2>1
<1>6. QED
  BY <1>1, <1>3, <1>4, <1>5

-----------------------------------------------------------------------------
(***************************************************************************)
(* Types.                                                                  *)
(***************************************************************************)
LEMMA RequestedType ==
  ASSUME DecisionTypeOK, NEW p \in Positions, NEW kind \in Kinds
  PROVE  /\ Requested(kind, p) \in DecisionRows
         /\ Requested(kind, p).status = "open" /\ Requested(kind, p).from = <<p, Last(p)>>
         /\ Requested(kind, p).heir = NoDecision /\ Requested(kind, p).kind = kind
<1>1. requirement.revision \in Nat /\ Last(p) \in Nat
  BY LatestTurn DEF DecisionTypeOK
<1>2. QED
  BY <1>1 DEF Requested, Absent, DecisionRows, Kinds, MaybeDecision

LEMMA ResolvedType ==
  ASSUME DecisionTypeOK, NEW d \in DecisionIds, NEW who \in {"operator", "policy"}, NEW answer \in {"yes", "no"}
  PROVE  /\ Resolved(d, who, answer) \in DecisionRows
         /\ Resolved(d, who, answer).status = "resolved"
         /\ Resolved(d, who, answer).kind = decisions[d].kind
         /\ Resolved(d, who, answer).from = decisions[d].from
         /\ Resolved(d, who, answer).heir = decisions[d].heir
<1>1. decisions[d] \in DecisionRows
  BY DEF DecisionTypeOK
<1>2. QED
  BY <1>1 DEF Resolved, DecisionRows

LEMMA BlockedTurn ==
  ASSUME NEW t \in Turns, NEW d \in DecisionIds
  PROVE  [Ended(t) EXCEPT !.status = "blocked", !.on = d] \in Turns
<1>1. Ended(t) \in Turns
  BY DEF Ended, Turns, TurnRecords, MaybeDecision
<1>2. d # NoDecision
  BY DEF DecisionIds, NoDecision
<1>3. ~Ended(t).live
  BY DEF Ended, Turns, TurnRecords
<1>4. QED
  BY <1>1, <1>2, <1>3 DEF Turns, TurnRecords, MaybeDecision

LEMMA AskingTurn ==
  ASSUME NEW t \in Turns, NEW d \in DecisionIds
  PROVE  LET u == [t EXCEPT !.asked = d]
         IN  u \in Turns /\ u.asked = d /\ u.told = t.told /\ u.status = t.status /\ u.held = t.held
  BY DEF Turns, TurnRecords, MaybeDecision

LEMMA NewTurnType ==
  ASSUME NEW told \in SUBSET DecisionIds
  PROVE  NewTurn(told) \in Turns
  BY DEF NewTurn, Turns, TurnRecords, MaybeDecision

\* The claims after a step of a turn: as they were, one more, or one spent.
Uses(p, t) ==
  \/ t.held \in {NoDecision, Turn(p).held} /\ UNCHANGED <<used, performed>>
  \/ \E d \in DecisionIds :
       /\ d \in Grants(Turn(p)) /\ Claimable(p, d) /\ t.held = d
       /\ used' = [used EXCEPT ![d] = <<p, Last(p), Turn(p).tries>>] /\ UNCHANGED performed
  \/ /\ Turn(p).held # NoDecision /\ t.held = NoDecision
     /\ performed' = [performed EXCEPT ![Turn(p).held] = @ + 1] /\ UNCHANGED used

\* What a step of a running turn makes of it, besides what it asks.
Writes(p, t) ==
  /\ t \in Turns /\ Becomes(p, t)
  /\ t.told = Turn(p).told /\ t.asked = Turn(p).asked
  /\ Turn(p).status = "running"
  /\ t.status = "blocked" =>
       t.on = t.asked /\ t.asked # NoDecision /\ decisions[t.on].status = "open"
  /\ Uses(p, t)

LEMMA LatestStep ==
  ASSUME DecisionTypeOK, NEW p \in Positions,
         Execute(p) \/ Authorize(p) \/ Perform(p) \/ EndBlocked(p) \/ Succeed(p) \/ Fail(p)
  PROVE  (\E t \in Turns : Writes(p, t)) /\ UNCHANGED <<decisions, queue, requirement, failed, crashes>> /\ run' \in {run, "failed"}
<1> DEFINE this == Turn(p)
<1>1. this \in Turns /\ (this.live => this.status = "running")
  BY LatestTurn DEF Turns
<1>2. UNCHANGED <<decisions, queue, requirement, failed, crashes>> /\ run' \in {run, "failed"}
  BY DEF Execute, Authorize, Perform, EndBlocked, Succeed, Fail
<1>3. CASE Execute(p)
  <2> DEFINE t == [this EXCEPT !.live = TRUE, !.tries = @ + 1]
  <2>1. this.tries \in Nat /\ this.tries + 1 \in Nat /\ this.status = "running"
    BY <1>1, <1>3 DEF Execute, Turns, TurnRecords
  <2>2. Becomes(p, t) /\ UNCHANGED <<used, performed>>
    BY <1>3 DEF Execute
  <2> HIDE DEF this
  <2>3. t \in Turns /\ t.told = this.told /\ t.asked = this.asked /\ t.held = this.held /\ t.status = "running"
    BY <1>1, <2>1 DEF Turns, TurnRecords
  <2> HIDE DEF t
  <2>4. Writes(p, t)
    BY <2>1, <2>2, <2>3 DEF Writes, Uses, this
  <2>5. QED
    BY <1>2, <2>3, <2>4
<1>4. CASE Authorize(p)
  <2>1. ASSUME NEW d \in Grants(this), Claimable(p, d),
               used' = [used EXCEPT ![d] = <<p, Last(p), this.tries>>],
               Becomes(p, [this EXCEPT !.held = d])
        PROVE  \E t \in Turns : Writes(p, t)
    <3> DEFINE t == [this EXCEPT !.held = d]
    <3>1. d \in DecisionIds
      BY <1>1 DEF Grants, Turns, TurnRecords
    <3>2. this.live /\ UNCHANGED performed
      BY <1>4 DEF Authorize
    <3>3. t \in Turns /\ t.told = this.told /\ t.asked = this.asked /\ t.held = d /\ t.status = "running"
      <4> HIDE DEF this
      <4> QED
        BY <1>1, <3>1, <3>2 DEF Turns, TurnRecords, MaybeDecision
    <3>4. Becomes(p, t)
      BY <2>1
    <3> HIDE DEF t
    <3>5. Uses(p, t)
      BY <2>1, <3>1, <3>2, <3>3 DEF Uses
    <3>6. Writes(p, t)
      BY <1>1, <3>2, <3>3, <3>4, <3>5 DEF Writes
    <3>7. QED
      BY <3>3, <3>6
  <2>2. ASSUME Becomes(p, [this EXCEPT !.wants = TRUE]), UNCHANGED used
        PROVE  \E t \in Turns : Writes(p, t)
    <3> DEFINE t == [this EXCEPT !.wants = TRUE]
    <3>1. this.live /\ UNCHANGED performed
      BY <1>4 DEF Authorize
    <3>2. t \in Turns /\ t.told = this.told /\ t.asked = this.asked /\ t.held = this.held /\ t.status = "running"
      <4> HIDE DEF this
      <4> QED
        BY <1>1, <3>1 DEF Turns, TurnRecords
    <3>3. Becomes(p, t)
      BY <2>2
    <3> HIDE DEF t
    <3>4. Writes(p, t)
      BY <1>1, <2>2, <3>1, <3>2, <3>3 DEF Writes, Uses
    <3>5. QED
      BY <3>2, <3>4
  <2>3. QED
    BY <1>2, <1>4, <2>1, <2>2 DEF Authorize
<1>5. CASE Perform(p)
  <2> DEFINE t == [this EXCEPT !.held = NoDecision]
  <2>1. /\ this.live /\ this.held # NoDecision /\ Becomes(p, t)
        /\ performed' = [performed EXCEPT ![this.held] = @ + 1] /\ UNCHANGED used
    BY <1>5 DEF Perform
  <2>2. t \in Turns /\ t.told = this.told /\ t.asked = this.asked /\ t.held = NoDecision /\ t.status = "running"
    <3> HIDE DEF this
    <3> QED
      BY <1>1, <2>1 DEF Turns, TurnRecords, MaybeDecision
  <2> HIDE DEF t
  <2>3. Writes(p, t)
    BY <1>1, <2>1, <2>2 DEF Writes, Uses
  <2>4. QED
    BY <1>2, <2>2, <2>3
<1>6. ASSUME NEW t, t \in Turns, Becomes(p, t), this.status = "running", t.told = this.told,
             t.asked = this.asked, t.held = NoDecision, t.status # "blocked", UNCHANGED <<used, performed>>
      PROVE  \E u \in Turns : Writes(p, u)
  BY <1>6 DEF Writes, Uses
<1>7. CASE EndBlocked(p)
  <2> DEFINE t == [Ended(this) EXCEPT !.status = "blocked", !.on = this.asked]
  <2>1. /\ this.status = "running" /\ this.asked # NoDecision /\ decisions[this.asked].status = "open"
        /\ Becomes(p, t) /\ UNCHANGED <<used, performed>>
    BY <1>7 DEF EndBlocked
  <2>2. /\ t \in Turns /\ t.told = this.told /\ t.asked = this.asked /\ t.held = NoDecision
        /\ t.on = this.asked
    <3> HIDE DEF this
    <3> QED
      BY <1>1, <2>1 DEF Ended, Turns, TurnRecords, MaybeDecision
  <2> HIDE DEF t
  <2>3. Writes(p, t)
    BY <2>1, <2>2 DEF Writes, Uses
  <2>4. QED
    BY <1>2, <2>2, <2>3
<1>8. ASSUME NEW status \in {"running", "succeeded", "failed"}, this.live, UNCHANGED <<used, performed>>,
             Becomes(p, [Ended(this) EXCEPT !.status = status])
      PROVE  \E u \in Turns : Writes(p, u)
  <2> DEFINE t == [Ended(this) EXCEPT !.status = status]
  <2>1. /\ t \in Turns /\ t.told = this.told /\ t.asked = this.asked /\ t.held = NoDecision
        /\ t.status = status
    <3> HIDE DEF this
    <3> QED
      BY <1>1, <1>8 DEF Ended, Turns, TurnRecords, MaybeDecision
  <2>2. Becomes(p, t)
    BY <1>8
  <2> HIDE DEF t
  <2>3. QED
    BY <1>1, <1>6, <1>8, <2>1, <2>2
<1>9. CASE Succeed(p)
  BY <1>2, <1>8, <1>9 DEF Succeed
<1>10. CASE Fail(p)
  BY <1>2, <1>8, <1>10 DEF Fail
<1>11. QED
  BY <1>3, <1>4, <1>5, <1>7, <1>9, <1>10

LEMMA UsesTypes ==
  ASSUME DecisionTypeOK, NEW p \in Positions, NEW t \in Turns, Uses(p, t)
  PROVE  /\ performed' \in [DecisionIds -> Nat]
         /\ used' \in [DecisionIds -> {Nobody} \cup (Positions \X Nat \X Nat)]
<1>1. Turn(p) \in Turns /\ Last(p) \in Nat
  BY LatestTurn
<1>2. used \in [DecisionIds -> {Nobody} \cup (Positions \X Nat \X Nat)] /\ performed \in [DecisionIds -> Nat]
  BY DEF DecisionTypeOK
<1>3. /\ <<p, Last(p), Turn(p).tries>> \in Positions \X Nat \X Nat
      /\ Turn(p).held # NoDecision => Turn(p).held \in DecisionIds
  BY <1>1 DEF Turns, TurnRecords, MaybeDecision
<1>4. CASE UNCHANGED <<used, performed>>
  BY <1>2, <1>4
<1>5. CASE \E d \in DecisionIds : used' = [used EXCEPT ![d] = <<p, Last(p), Turn(p).tries>>] /\ UNCHANGED performed
  BY <1>2, <1>3, <1>5
<1>6. CASE /\ Turn(p).held # NoDecision
           /\ performed' = [performed EXCEPT ![Turn(p).held] = @ + 1] /\ UNCHANGED used
  <2>1. performed[Turn(p).held] + 1 \in Nat
    BY <1>2, <1>3, <1>6
  <2>2. QED
    BY <1>2, <1>3, <1>6, <2>1
<1>7. QED
  BY <1>4, <1>5, <1>6 DEF Uses

LEMMA TypesStep ==
  ASSUME DecisionTypeOK, [Next]_vars
  PROVE  DecisionTypeOK'
<1> USE DEF DecisionTypeOK
<1>1. CASE UNCHANGED vars
  BY <1>1 DEF vars
<1>2. ASSUME NEW p \in Positions,
             Execute(p) \/ Authorize(p) \/ Perform(p) \/ EndBlocked(p) \/ Succeed(p) \/ Fail(p)
      PROVE  DecisionTypeOK'
  <2> HIDE DEF DecisionTypeOK
  <2>1. PICK t \in Turns : Writes(p, t)
    BY <1>2, LatestStep
  <2>2. turns' \in [Positions -> Seq(Turns)] /\ \A q \in Positions : turns'[q] # <<>>
    BY <2>1, TurnWritten DEF Writes
  <2>3. /\ performed' \in [DecisionIds -> Nat]
        /\ used' \in [DecisionIds -> {Nobody} \cup (Positions \X Nat \X Nat)]
    BY <2>1, UsesTypes DEF Writes
  <2>4. UNCHANGED <<decisions, queue, requirement, failed, crashes>> /\ run' \in {run, "failed"}
    BY <1>2, LatestStep
  <2>5. /\ run' \in {"running", "failed", "cancelled"} /\ decisions' \in [DecisionIds -> DecisionRows]
        /\ queue' \subseteq DecisionIds /\ requirement' \in [revision : Nat, waived : BOOLEAN]
        /\ failed' \subseteq Positions /\ crashes' \in Nat
    BY <2>4 DEF DecisionTypeOK
  <2>6. QED
    BY <2>2, <2>3, <2>5 DEF DecisionTypeOK
<1>3. ASSUME NEW p \in Positions, NEW d \in DecisionIds, NEW kind \in Kinds, Request(p, d, kind)
      PROVE  DecisionTypeOK'
  <2>1. [Turn(p) EXCEPT !.asked = d] \in Turns
    BY LatestTurn, AskingTurn
  <2>2. turns' \in [Positions -> Seq(Turns)] /\ \A q \in Positions : turns'[q] # <<>>
    BY <1>3, <2>1, TurnWritten DEF Request
  <2>3. decisions' \in [DecisionIds -> DecisionRows]
    BY <1>3, RequestedType DEF Request
  <2>4. QED
    BY <1>3, <2>2, <2>3 DEF Request
<1>4. ASSUME NEW p \in Positions, NEW d \in DecisionIds, Intercept(p, d)
      PROVE  DecisionTypeOK'
  <2>1. [Ended(Turn(p)) EXCEPT !.status = "blocked", !.on = d] \in Turns
    BY LatestTurn, BlockedTurn
  <2>2. turns' \in [Positions -> Seq(Turns)] /\ \A q \in Positions : turns'[q] # <<>>
    BY <1>4, <2>1, TurnWritten DEF Intercept
  <2>3. decisions' \in [DecisionIds -> DecisionRows]
    BY <1>4, RequestedType DEF Intercept, Kinds
  <2>4. QED
    BY <1>4, <2>2, <2>3 DEF Intercept
<1>5. ASSUME NEW d \in DecisionIds, NEW answer \in {"yes", "no"}, Resolve(d, answer)
      PROVE  DecisionTypeOK'
  <2>1. decisions' \in [DecisionIds -> DecisionRows]
    <3>1. CASE decisions' = [decisions EXCEPT ![d].status = "superseded"]
      <4>1. [decisions[d] EXCEPT !.status = "superseded"] \in DecisionRows
        <5>1. decisions[d] \in DecisionRows
          OBVIOUS
        <5>2. QED
          BY <5>1 DEF DecisionRows
      <4>2. QED
        BY <3>1, <4>1
    <3>2. CASE decisions' = [decisions EXCEPT ![d] = Resolved(d, "operator", answer)]
      BY <3>2, ResolvedType
    <3>3. QED
      BY <1>5, <3>1, <3>2 DEF Resolve
  <2>2. requirement' \in [revision : Nat, waived : BOOLEAN]
    BY <1>5 DEF Resolve
  <2>3. QED
    BY <1>5, <2>1, <2>2 DEF Resolve
<1>6. ASSUME NEW d \in DecisionIds, NEW s \in DecisionIds, Supersede(d, s)
      PROVE  DecisionTypeOK'
  <2>1. [decisions[d] EXCEPT !.status = "superseded", !.heir = s] \in DecisionRows
    <3>1. decisions[d] \in DecisionRows
      OBVIOUS
    <3>2. QED
      BY <3>1 DEF DecisionRows, MaybeDecision
  <2>2. [Absent EXCEPT !.status = "resolved", !.by = "operator", !.answer = "no"] \in DecisionRows
    BY DEF Absent, DecisionRows, Kinds, MaybeDecision
  <2>3. decisions' \in [DecisionIds -> DecisionRows]
    BY <1>6, <2>1, <2>2 DEF Supersede
  <2>4. queue' \subseteq DecisionIds
    BY <1>6 DEF Supersede
  <2>5. QED
    BY <1>6, <2>3, <2>4 DEF Supersede
<1>7. CASE Revise
  BY <1>7 DEF Revise
<1>8. CASE Cancel
  BY <1>8 DEF Cancel
<1>9. CASE Crash
  <2>1. run' \in {run, "failed"} /\ crashes' \in Nat
    BY <1>9 DEF Crash
  <2>2. QED
    BY <1>9, <2>1, CrashDrops DEF Crash
<1>10. CASE PrepareTurn
  <2>1. Root \in Positions /\ NewTurn(queue) \in Turns
    BY NewTurnType, DecisionAssumption DEF DecisionAssumption
  <2>2. turns' \in [Positions -> Seq(Turns)] /\ \A q \in Positions : turns'[q] # <<>>
    BY <1>10, <2>1, TurnAdded DEF PrepareTurn
  <2>3. QED
    BY <1>10, <2>2 DEF PrepareTurn
<1>11. ASSUME NEW p \in Positions, Continue(p)
       PROVE  DecisionTypeOK'
  <2>1. Turn(p).on \in DecisionIds
    BY <1>11, LatestTurn DEF Continue, Continuable, Awaits, Turn, Turns, TurnRecords, MaybeDecision
  <2>2. Resolution(Turn(p).on) \in SUBSET DecisionIds
    BY <2>1 DEF Resolution, DecisionRows, MaybeDecision
  <2>3. turns' \in [Positions -> Seq(Turns)] /\ \A q \in Positions : turns'[q] # <<>>
    BY <1>11, <2>2, NewTurnType, TurnAdded DEF Continue
  <2>4. QED
    BY <1>11, <2>3 DEF Continue
<1>12. ASSUME NEW d \in DecisionIds, ResolveDefault(d)
       PROVE  DecisionTypeOK'
  <2>1. decisions' \in [DecisionIds -> DecisionRows]
    BY <1>12, ResolvedType DEF ResolveDefault
  <2>2. QED
    BY <1>12, <2>1 DEF ResolveDefault
<1>13. ASSUME NEW p \in Positions, Refuse(p)
       PROVE  DecisionTypeOK'
  BY <1>13 DEF Refuse
<1>14. QED
  BY <1>1, <1>2, <1>3, <1>4, <1>5, <1>6, <1>7, <1>8, <1>9, <1>10, <1>11, <1>12, <1>13 DEF Next

-----------------------------------------------------------------------------
(***************************************************************************)
(* Approvals are spent once.                                               *)
(***************************************************************************)
\* A resolved approval is never written again.
ApprovalsStay == \A d \in DecisionIds :
  decisions[d].kind = "approval" /\ decisions[d].status = "resolved" => decisions'[d] = decisions[d]

LEMMA ClaimsAside ==
  ASSUME SpentInv, DecisionTypeOK', ApprovalsStay, UNCHANGED <<used, performed>>,
         \A p \in Positions : Turn(p)'.held \in {NoDecision, Turn(p).held}
  PROVE  SpentInv'
<1>1. ClaimsFit'
  BY DEF SpentInv, ClaimsFit, ApprovalsStay
<1>2. HeldIsClaimed'
  BY DEF SpentInv, HeldIsClaimed
<1>3. QED
  BY <1>1, <1>2 DEF SpentInv

LEMMA WrittenHolds ==
  ASSUME DecisionTypeOK, NEW p \in Positions, NEW t \in Turns, Becomes(p, t)
  PROVE  /\ Turn(p)' = t /\ Last(p)' = Last(p)
         /\ \A q \in Positions : q # p => Turn(q)' = Turn(q) /\ Last(q)' = Last(q)
  BY TurnWritten, LatestTurn DEF Turn, Last

LEMMA AddedHolds ==
  ASSUME DecisionTypeOK, NEW p \in Positions, NEW told \in SUBSET DecisionIds,
         turns' = [turns EXCEPT ![p] = Append(@, NewTurn(told))]
  PROVE  /\ Turn(p)' = NewTurn(told) /\ Last(p)' = Last(p) + 1
         /\ \A q \in Positions : q # p => Turn(q)' = Turn(q) /\ Last(q)' = Last(q)
<1> DEFINE t == NewTurn(told)
<1>1. t \in Turns /\ Last(p) \in Nat
  BY NewTurnType, LatestTurn
<1>2. turns' = [turns EXCEPT ![p] = Append(@, t)]
  OBVIOUS
<1> HIDE DEF t
<1>3. Len(turns'[p]) = Last(p) + 1 /\ turns'[p][Last(p) + 1] = t /\ \A q \in Positions : q # p => turns'[q] = turns[q]
  BY <1>1, <1>2, TurnAdded
<1>4. Turn(p)' = t /\ Last(p)' = Last(p) + 1
  BY <1>3 DEF Turn, Last
<1>5. QED
  BY <1>3, <1>4 DEF Turn, Last, t

LEMMA CrashedHolds ==
  ASSUME DecisionTypeOK, Crash, NEW p \in Positions
  PROVE  Dropped(Turn(p), Turn(p)') /\ Last(p)' = Last(p)
  BY CrashDrops, LatestTurn DEF Turn, Last

\* What the successor of a blocked turn is told exists.
LEMMA ResolutionExists ==
  ASSUME DecisionTypeOK, NEW p \in Positions, Awaits(p, Last(p))
  PROVE  Turn(p).on \in DecisionIds /\ Resolution(Turn(p).on) \in SUBSET DecisionIds
<1>1. Turn(p).on \in DecisionIds
  BY LatestTurn DEF Awaits, Turn, Turns, TurnRecords, MaybeDecision
<1>2. QED
  BY <1>1 DEF DecisionTypeOK, Resolution, DecisionRows, MaybeDecision

LEMMA WritesSpent ==
  ASSUME SpentInv, DecisionTypeOK', UNCHANGED decisions, NEW p \in Positions, NEW t \in Turns, Writes(p, t)
  PROVE  SpentInv'
<1>1. /\ Turn(p)' = t /\ Last(p)' = Last(p)
      /\ \A q \in Positions : q # p => Turn(q)' = Turn(q) /\ Last(q)' = Last(q)
  BY WrittenHolds DEF Writes, SpentInv
<1>2. Turn(p) \in Turns /\ Last(p) \in Nat
  BY LatestTurn DEF SpentInv
<1>3. CASE t.held \in {NoDecision, Turn(p).held} /\ UNCHANGED <<used, performed>>
  BY <1>1, <1>3, ClaimsAside DEF ApprovalsStay
<1>4. ASSUME NEW d \in DecisionIds, d \in Grants(Turn(p)), Claimable(p, d), t.held = d,
             used' = [used EXCEPT ![d] = <<p, Last(p), Turn(p).tries>>], UNCHANGED performed
      PROVE  SpentInv'
  <2>1. /\ used'[d] = <<p, Last(p), Turn(p).tries>> /\ used'[d] # Nobody
        /\ \A e \in DecisionIds : e # d => used'[e] = used[e]
    BY <1>4 DEF SpentInv, DecisionTypeOK, Nobody
  <2>2. /\ decisions[d].kind = "approval" /\ decisions[d].answer = "yes" /\ decisions[d].status = "resolved"
        /\ decisions[d].from = <<p, Last(p) - 1>> /\ used[d] = Nobody
    BY <1>4 DEF Grants, Claimable
  <2>3. performed[d] = 0
    BY <2>2 DEF SpentInv, ClaimsFit, DecisionTypeOK
  <2>4. ClaimsFit'
    BY <1>4, <2>1, <2>2 DEF SpentInv, ClaimsFit
  <2>5. HeldIsClaimed'
    <3> SUFFICES ASSUME NEW q \in Positions, Turn(q)'.held # NoDecision
                 PROVE  /\ Turn(q)'.held \in DecisionIds
                        /\ used'[Turn(q)'.held] # Nobody /\ used'[Turn(q)'.held][1] = q
                        /\ performed'[Turn(q)'.held] = 0
      BY DEF HeldIsClaimed
    <3>1. CASE q = p
      BY <1>1, <1>4, <2>1, <2>3, <3>1
    <3>2. CASE q # p
      BY <1>1, <1>4, <2>1, <2>2, <3>2 DEF SpentInv, HeldIsClaimed
    <3>3. QED
      BY <3>1, <3>2
  <2>6. QED
    BY <2>4, <2>5 DEF SpentInv
<1>5. ASSUME Turn(p).held # NoDecision, t.held = NoDecision,
             performed' = [performed EXCEPT ![Turn(p).held] = @ + 1], UNCHANGED used
      PROVE  SpentInv'
  <2> DEFINE d == Turn(p).held
  <2>1. d \in DecisionIds /\ used[d] # Nobody /\ used[d][1] = p /\ performed[d] = 0
    BY <1>5 DEF SpentInv, HeldIsClaimed
  <2>2. performed'[d] = 1 /\ \A e \in DecisionIds : e # d => performed'[e] = performed[e]
    BY <1>5, <2>1 DEF SpentInv, DecisionTypeOK
  <2>3. ClaimsFit'
    BY <1>5, <2>1, <2>2 DEF SpentInv, ClaimsFit
  <2>4. HeldIsClaimed'
    BY <1>1, <1>5, <2>1, <2>2 DEF SpentInv, HeldIsClaimed
  <2>5. QED
    BY <2>3, <2>4 DEF SpentInv
<1>6. QED
  BY <1>3, <1>4, <1>5 DEF Writes, Uses

LEMMA SpentInvStep ==
  ASSUME SpentInv, [Next]_vars
  PROVE  SpentInv'
<1>1. DecisionTypeOK' /\ DecisionTypeOK
  BY TypesStep DEF SpentInv
<1>2. CASE UNCHANGED vars
  BY <1>1, <1>2, ClaimsAside DEF vars, ApprovalsStay, Turn, Last
<1>3. ASSUME NEW p \in Positions,
             Execute(p) \/ Authorize(p) \/ Perform(p) \/ EndBlocked(p) \/ Succeed(p) \/ Fail(p)
      PROVE  SpentInv'
  BY <1>1, <1>3, LatestStep, WritesSpent
<1>4. ASSUME NEW p \in Positions, NEW d \in DecisionIds, NEW kind \in Kinds, Request(p, d, kind)
      PROVE  SpentInv'
  <2>1. [Turn(p) EXCEPT !.asked = d] \in Turns /\ [Turn(p) EXCEPT !.asked = d].held = Turn(p).held
    BY <1>1, LatestTurn, AskingTurn
  <2>2. \A q \in Positions : Turn(q)'.held = Turn(q).held
    BY <1>1, <1>4, <2>1, WrittenHolds DEF Request
  <2>3. ApprovalsStay
    BY <1>1, <1>4 DEF Request, Fresh, ApprovalsStay, DecisionTypeOK
  <2>4. QED
    BY <1>1, <1>4, <2>2, <2>3, ClaimsAside DEF Request
<1>5. ASSUME NEW p \in Positions, NEW d \in DecisionIds, Intercept(p, d)
      PROVE  SpentInv'
  <2> DEFINE t == [Ended(Turn(p)) EXCEPT !.status = "blocked", !.on = d]
  <2>1. t \in Turns
    BY <1>1, LatestTurn, BlockedTurn
  <2>2. t.held = NoDecision
    BY <1>1, LatestTurn DEF Ended, Turns, TurnRecords
  <2>3. \A q \in Positions : Turn(q)'.held \in {NoDecision, Turn(q).held}
    BY <1>1, <1>5, <2>1, <2>2, WrittenHolds DEF Intercept
  <2>4. ApprovalsStay
    BY <1>1, <1>5 DEF Intercept, Fresh, ApprovalsStay, DecisionTypeOK
  <2>5. QED
    BY <1>1, <1>5, <2>3, <2>4, ClaimsAside DEF Intercept
<1>6. ASSUME NEW d \in DecisionIds, NEW answer \in {"yes", "no"},
             Resolve(d, answer) \/ ResolveDefault(d)
      PROVE  SpentInv'
  <2>1. ApprovalsStay
    BY <1>1, <1>6 DEF Resolve, ResolveDefault, ApprovalsStay, DecisionTypeOK
  <2>2. UNCHANGED <<turns, used, performed>>
    BY <1>6 DEF Resolve, ResolveDefault
  <2>3. QED
    BY <1>1, <2>1, <2>2, ClaimsAside DEF Turn, Last
<1>7. ASSUME NEW d \in DecisionIds, NEW s \in DecisionIds, Supersede(d, s)
      PROVE  SpentInv'
  <2>1. ApprovalsStay
    BY <1>1, <1>7 DEF Supersede, Fresh, ApprovalsStay, DecisionTypeOK
  <2>2. UNCHANGED <<turns, used, performed>>
    BY <1>7 DEF Supersede
  <2>3. QED
    BY <1>1, <2>1, <2>2, ClaimsAside DEF Turn, Last
<1>8. CASE Revise \/ Cancel \/ \E p \in Positions : Refuse(p)
  BY <1>1, <1>8, ClaimsAside DEF Revise, Cancel, Refuse, ApprovalsStay, Turn, Last
<1>9. CASE Crash
  <2>1. \A p \in Positions : Turn(p)'.held = NoDecision
    BY <1>1, <1>9, CrashedHolds DEF Dropped
  <2>2. QED
    BY <1>1, <1>9, <2>1, ClaimsAside DEF Crash, ApprovalsStay
<1>10. ASSUME NEW p \in Positions, NEW told \in SUBSET DecisionIds,
              turns' = [turns EXCEPT ![p] = Append(@, NewTurn(told))],
              UNCHANGED <<decisions, used, performed>>
       PROVE  SpentInv'
  <2>1. \A q \in Positions : Turn(q)'.held \in {NoDecision, Turn(q).held}
    <3>1. NewTurn(told).held = NoDecision
      BY DEF NewTurn
    <3>2. QED
      BY <1>1, <1>10, <3>1, AddedHolds
  <2>2. QED
    BY <1>1, <1>10, <2>1, ClaimsAside DEF ApprovalsStay
<1>11. CASE PrepareTurn
  BY <1>1, <1>10, <1>11, DecisionAssumption DEF PrepareTurn, DecisionTypeOK, DecisionAssumption
<1>12. ASSUME NEW p \in Positions, Continue(p)
       PROVE  SpentInv'
  BY <1>1, <1>10, <1>12, ResolutionExists DEF Continue, Continuable
<1>13. QED
  BY <1>2, <1>3, <1>4, <1>5, <1>6, <1>7, <1>8, <1>9, <1>11, <1>12 DEF Next

LEMMA TypesInit == Init => DecisionTypeOK
<1> SUFFICES ASSUME Init PROVE DecisionTypeOK
  OBVIOUS
<1>1. NewTurn({}) \in Turns
  BY NewTurnType
<1>2. turns \in [Positions -> Seq(Turns)] /\ \A p \in Positions : turns[p] # <<>>
  BY <1>1 DEF Init
<1>3. Absent \in DecisionRows
  BY DEF Absent, DecisionRows, Kinds, MaybeDecision
<1>4. QED
  BY <1>2, <1>3 DEF Init, DecisionTypeOK

LEMMA SpentInvInit == Init => SpentInv
<1> SUFFICES ASSUME Init PROVE SpentInv
  OBVIOUS
<1>1. \A p \in Positions : Turn(p).held = NoDecision
  BY DEF Init, Turn, Last, NewTurn
<1>2. QED
  BY <1>1, TypesInit DEF Init, SpentInv, ClaimsFit, HeldIsClaimed

\* Turns, Decisions, claims and the root's queue keep to their records.
THEOREM DecisionTypes == Spec => []DecisionTypeOK
  BY TypesInit, TypesStep, PTL DEF Spec

\* An approval authorizes one execution, under a committed claim of the turn that continues the
\* one the call was intercepted in (ApprovedToolCallUseStore.claim), across Attempts and crashes.
THEOREM SpentOnceHolds == Spec => []SpentOnce
<1>1. SpentInv => SpentOnce
  <2> SUFFICES ASSUME SpentInv, NEW d \in DecisionIds
               PROVE  /\ performed[d] <= 1
                      /\ performed[d] = 1 =>
                           /\ decisions[d].kind = "approval" /\ decisions[d].answer = "yes"
                           /\ <<used[d][1], used[d][2] - 1>> = decisions[d].from
    BY DEF SpentOnce
  <2>1. QED
    BY DEF SpentInv, ClaimsFit
<1>2. QED
  BY <1>1, SpentInvInit, SpentInvStep, PTL DEF Spec

-----------------------------------------------------------------------------
(***************************************************************************)
(* A resolution is heard once.                                             *)
(***************************************************************************)
LEMMA TurnsTyped ==
  ASSUME DecisionTypeOK, NEW q \in Positions, NEW n \in 1..Last(q)
  PROVE  /\ turns[q][n] \in Turns
         /\ turns[q][n].asked # NoDecision => turns[q][n].asked \in DecisionIds
         /\ turns[q][n].status = "blocked" => turns[q][n].on \in DecisionIds
         /\ turns[q][n].told \subseteq DecisionIds
         /\ turns[q][n].live => turns[q][n].status = "running"
<1>1. turns[q][n] \in Turns
  <2>1. turns[q] \in Seq(Turns) /\ n \in DOMAIN turns[q]
    BY LatestTurn
  <2> HIDE DEF Turns
  <2>2. QED
    BY <2>1
<1>2. QED
  BY <1>1 DEF Turns, TurnRecords, MaybeDecision

LEMMA TurnAsked ==
  ASSUME HeardInv, NEW q \in Positions, NEW n \in 1..Last(q)
  PROVE  /\ turns[q][n].asked # NoDecision =>
              /\ turns[q][n].asked \in DecisionIds
              /\ decisions[turns[q][n].asked].status # "absent"
              /\ decisions[turns[q][n].asked].from = <<q, n>>
         /\ turns[q][n].status = "blocked" =>
              /\ turns[q][n].on \in DecisionIds
              /\ decisions[turns[q][n].on].status # "absent"
              /\ decisions[turns[q][n].on].from = <<q, n>>
  BY TurnsTyped DEF HeardInv, AskedBy

LEMMA TurnBlocks ==
  ASSUME HeardInv, NEW q \in Positions, Turn(q).status = "blocked"
  PROVE  decisions[Turn(q).on].from = <<q, Last(q)>>
<1>1. Last(q) \in 1..Last(q)
  BY LatestTurn DEF HeardInv
<1>2. QED
  BY <1>1, TurnAsked DEF Turn

LEMMA RowsTyped ==
  ASSUME DecisionTypeOK, NEW d \in DecisionIds
  PROVE  /\ decisions[d].heir # NoDecision => decisions[d].heir \in DecisionIds
         /\ decisions[d].from # Nobody =>
              /\ decisions[d].from[1] \in Positions /\ decisions[d].from[2] \in Nat
              /\ decisions[d].from = <<decisions[d].from[1], decisions[d].from[2]>>
  BY DEF DecisionTypeOK, DecisionRows, MaybeDecision

LEMMA TupleIsSomebody ==
  ASSUME NEW a, NEW b
  PROVE  <<a, b>> # Nobody
  BY DEF Nobody

SameTold ==
  \A p \in Positions :
    Last(p)' = Last(p) /\ \A n \in 1..Last(p) : turns'[p][n].told = turns[p][n].told

LEMMA ToldStays ==
  ASSUME SameTold, NEW d
  PROVE  Told(d)' = Told(d) /\ ToldOne(d)' = ToldOne(d)
<1>1. Told(d)' <=> Told(d)
  BY DEF SameTold, Told
<1>2. ToldOne(d)' <=> ToldOne(d)
  BY DEF SameTold, ToldOne
<1>3. QED
  BY <1>1, <1>2 DEF Told, ToldOne

LEMMA OneWayStays ==
  ASSUME OneWay, SameTold, UNCHANGED queue,
         \A d \in DecisionIds : decisions'[d].heir = decisions[d].heir,
         \A d \in DecisionIds : decisions[d].heir # NoDecision => (WaitsOn(d)' <=> WaitsOn(d))
  PROVE  OneWay'
<1> SUFFICES ASSUME NEW d \in DecisionIds, NEW s, s = decisions[d].heir, s # NoDecision
             PROVE  /\ WaitsOn(d)' \/ s \in queue' \/ Told(s)'
                    /\ ~(WaitsOn(d)' /\ s \in queue') /\ ~(WaitsOn(d)' /\ Told(s)') /\ ~(s \in queue' /\ Told(s)')
                    /\ ToldOne(s)'
  BY DEF OneWay
<1>1. Told(s)' = Told(s) /\ ToldOne(s)' = ToldOne(s)
  BY ToldStays
<1>2. QED
  BY <1>1 DEF OneWay

\* The rows after a step of a turn: as they were, and a new question of its own.
RowsFollow(p) ==
  \A e \in DecisionIds :
    \/ decisions'[e] = decisions[e]
    \/ /\ decisions[e].status = "absent" /\ decisions'[e].status = "open"
       /\ decisions'[e].from = <<p, Last(p)>> /\ decisions'[e].heir = NoDecision

\* The rows of Decisions that are left alone, but for new questions of the latest turns.
RowsGrow ==
  \A e \in DecisionIds :
    decisions'[e] = decisions[e] \/ \E p \in Positions :
      /\ decisions[e].status = "absent" /\ decisions'[e].status = "open"
      /\ decisions'[e].from = <<p, Last(p)>> /\ decisions'[e].heir = NoDecision

LEMMA RowsStay ==
  ASSUME HeardInv, RowsGrow
  PROVE  /\ \A e \in DecisionIds : decisions[e].status # "absent" => decisions'[e] = decisions[e]
         /\ \A e \in DecisionIds : decisions'[e].heir = decisions[e].heir
  BY DEF RowsGrow, HeardInv, AskedOrHeir

LEMMA GrownHeirs ==
  ASSUME HeardInv, RowsGrow, \A p \in Positions : Last(p)' \in Nat /\ Last(p)' >= Last(p)
  PROVE  AskedOrHeir' /\ HeirsDiffer'
<1> USE DEF HeardInv
<1>1. HeirsDiffer'
  <2> SUFFICES ASSUME NEW d \in DecisionIds, NEW s, s = decisions[d].heir, s # NoDecision
               PROVE  /\ decisions'[d].status = "superseded" /\ decisions'[d].from # Nobody
                      /\ decisions'[s].status # "absent" /\ decisions'[s].from = Nobody
                      /\ \A e \in DecisionIds : decisions'[e].heir = s => e = d
    BY RowsStay DEF HeirsDiffer
  <2>1. s \in DecisionIds
    BY RowsTyped
  <2>2. QED
    BY RowsStay, <2>1 DEF HeirsDiffer
<1>2. AskedOrHeir'
  <2> SUFFICES ASSUME NEW d \in DecisionIds
               PROVE  /\ decisions'[d].status = "absent" => decisions'[d].heir = NoDecision
                      /\ decisions'[d].status # "absent" /\ decisions'[d].from = Nobody =>
                           decisions'[d].kind = "choice" /\ \E e \in DecisionIds : decisions'[e].heir = d
                      /\ decisions'[d].status # "absent" /\ decisions'[d].from # Nobody =>
                           decisions'[d].from[2] \in 1..Len(turns'[decisions'[d].from[1]])
    BY DEF AskedOrHeir, Last
  <2>1. \A p \in Positions : Last(p)' = Len(turns'[p]) /\ Last(p) \in Nat \ {0}
    BY LatestTurn DEF Last
  <2>2. CASE decisions'[d] = decisions[d]
    BY RowsStay, RowsTyped, <2>1, <2>2 DEF AskedOrHeir
  <2>3. ASSUME NEW p \in Positions, decisions'[d].status = "open", decisions'[d].from = <<p, Last(p)>>
        PROVE  decisions'[d].from[2] \in 1..Len(turns'[decisions'[d].from[1]]) /\ decisions'[d].from # Nobody
    BY <2>1, <2>3, TupleIsSomebody
  <2>4. QED
    BY <2>2, <2>3, RowsStay DEF RowsGrow
<1>3. QED
  BY <1>1, <1>2

\* Every step of a running turn: it may ask, and may end blocked on what is open.
LEMMA TurnGoesOn ==
  ASSUME HeardInv, DecisionTypeOK', NEW p \in Positions, NEW t \in Turns, Becomes(p, t),
         t.told = Turn(p).told, Turn(p).status = "running", RowsFollow(p), UNCHANGED queue,
         t.asked # NoDecision =>
           decisions'[t.asked].status # "absent" /\ decisions'[t.asked].from = <<p, Last(p)>>,
         t.status = "blocked" =>
           decisions'[t.on].status = "open" /\ decisions'[t.on].from = <<p, Last(p)>>
  PROVE  HeardInv'
<1> USE DEF HeardInv
<1>1. /\ Turn(p)' = t /\ \A q \in Positions : Last(q)' = Last(q)
      /\ \A q \in Positions : q # p => Turn(q)' = Turn(q) /\ turns'[q] = turns[q]
      /\ turns'[p][Last(p)] = t /\ turns[p][Last(p)] = Turn(p)
      /\ \A n \in 1..Last(p) : n # Last(p) => turns'[p][n] = turns[p][n]
  BY WrittenHolds, TurnWritten DEF Turn
<1>2. \A q \in Positions : \A n \in 1..Last(q) :
        turns'[q][n] = turns[q][n] \/ (q = p /\ n = Last(p) /\ turns'[q][n] = t)
  BY <1>1
<1>3. SameTold
  BY <1>1, <1>2 DEF SameTold
<1>4. RowsGrow
  BY DEF RowsFollow, RowsGrow
<1>5. AskedBy'
  <2> SUFFICES ASSUME NEW q \in Positions, NEW n \in 1..Last(q)
               PROVE  /\ turns'[q][n].asked # NoDecision =>
                           /\ decisions'[turns'[q][n].asked].status # "absent"
                           /\ decisions'[turns'[q][n].asked].from = <<q, n>>
                      /\ turns'[q][n].status = "blocked" =>
                           /\ decisions'[turns'[q][n].on].status # "absent"
                           /\ decisions'[turns'[q][n].on].from = <<q, n>>
    BY <1>1 DEF AskedBy
  <2>1. CASE turns'[q][n] = turns[q][n]
    <3>1. \A e \in DecisionIds : decisions[e].status # "absent" => decisions'[e] = decisions[e]
      BY <1>4, RowsStay
    <3> DEFINE u == turns[q][n]
    <3>2. /\ u.asked # NoDecision =>
               /\ u.asked \in DecisionIds /\ decisions[u.asked].status # "absent"
               /\ decisions[u.asked].from = <<q, n>>
          /\ u.status = "blocked" =>
               /\ u.on \in DecisionIds /\ decisions[u.on].status # "absent"
               /\ decisions[u.on].from = <<q, n>>
      BY TurnAsked
    <3>3. turns'[q][n] = u
      BY <2>1
    <3> HIDE DEF u
    <3>4. QED
      BY <3>1, <3>2, <3>3
  <2>2. CASE q = p /\ n = Last(p) /\ turns'[q][n] = t
    BY <2>2
  <2>3. QED
    BY <1>2, <2>1, <2>2
<1>6. ToldFits'
  <2>1. ASSUME NEW q \in Positions, NEW n \in 1..Last(q), NEW d \in turns[q][n].told
        PROVE  decisions'[d].status # "absent" /\ decisions'[d].from \in {Nobody, <<q, n - 1>>}
    BY <1>4, <2>1, RowsStay, TurnsTyped DEF ToldFits
  <2>2. \A d \in queue : decisions'[d].status # "absent" /\ decisions'[d].from = Nobody
    BY <1>4, RowsStay DEF ToldFits, DecisionTypeOK
  <2>3. QED
    BY <1>3, <2>1, <2>2 DEF ToldFits, SameTold
<1>7. AskedOrHeir' /\ HeirsDiffer'
  BY <1>1, <1>4, GrownHeirs, LatestTurn
<1>8. ASSUME NEW d \in DecisionIds, decisions[d].heir # NoDecision
      PROVE  WaitsOn(d)' <=> WaitsOn(d)
  <2>1. decisions'[d].status = "superseded"
    BY <1>4, <1>8, RowsStay DEF HeirsDiffer
  <2>2. QED
    BY <1>1, <2>1 DEF WaitsOn
<1>9. OneWay'
  BY <1>3, <1>4, <1>8, OneWayStays, RowsStay
<1>10. QED
  BY <1>5, <1>6, <1>7, <1>9

\* A question is answered, or expires.
LEMMA RowsAnswered ==
  ASSUME HeardInv, DecisionTypeOK', UNCHANGED <<turns, queue>>,
         \A e \in DecisionIds :
           /\ decisions'[e].from = decisions[e].from /\ decisions'[e].heir = decisions[e].heir
           /\ decisions'[e].kind = decisions[e].kind
           /\ \/ decisions'[e].status = decisions[e].status
              \/ decisions[e].status = "open" /\ decisions'[e].status \in {"resolved", "superseded"}
  PROVE  HeardInv'
<1> USE DEF HeardInv
<1>1. SameTold /\ \A d : WaitsOn(d)' = WaitsOn(d)
  BY DEF SameTold, WaitsOn, Turn, Last
<1>2. AskedBy'
  <2> SUFFICES ASSUME NEW q \in Positions, NEW n \in 1..Last(q)
               PROVE  /\ turns[q][n].asked # NoDecision =>
                           /\ decisions'[turns[q][n].asked].status # "absent"
                           /\ decisions'[turns[q][n].asked].from = <<q, n>>
                      /\ turns[q][n].status = "blocked" =>
                           /\ decisions'[turns[q][n].on].status # "absent"
                           /\ decisions'[turns[q][n].on].from = <<q, n>>
    BY DEF AskedBy, Last
  <2> DEFINE u == turns[q][n]
  <2>1. /\ u.asked # NoDecision =>
             /\ u.asked \in DecisionIds /\ decisions[u.asked].status # "absent"
             /\ decisions[u.asked].from = <<q, n>>
        /\ u.status = "blocked" =>
             /\ u.on \in DecisionIds /\ decisions[u.on].status # "absent"
             /\ decisions[u.on].from = <<q, n>>
    BY TurnAsked
  <2>2. \A e \in DecisionIds : decisions[e].status # "absent" =>
          decisions'[e].status # "absent" /\ decisions'[e].from = decisions[e].from
    OBVIOUS
  <2> HIDE DEF u
  <2>3. /\ u.asked # NoDecision =>
             decisions'[u.asked].status # "absent" /\ decisions'[u.asked].from = <<q, n>>
        /\ u.status = "blocked" =>
             decisions'[u.on].status # "absent" /\ decisions'[u.on].from = <<q, n>>
    BY <2>1, <2>2
  <2>4. QED
    BY <2>3 DEF u
<1>3. ToldFits'
  <2>1. ASSUME NEW q \in Positions, NEW n \in 1..Last(q), NEW d \in turns[q][n].told
        PROVE  decisions'[d].status # "absent" /\ decisions'[d].from \in {Nobody, <<q, n - 1>>}
    BY <2>1, TurnsTyped DEF ToldFits
  <2>2. \A d \in queue : decisions'[d].status # "absent" /\ decisions'[d].from = Nobody
    BY DEF ToldFits, DecisionTypeOK
  <2>3. QED
    BY <2>1, <2>2 DEF ToldFits, Last
<1>4. AskedOrHeir'
  BY DEF AskedOrHeir, Last
<1>5. HeirsDiffer'
  BY RowsTyped DEF HeirsDiffer
<1>6. OneWay'
  BY <1>1, OneWayStays
<1>7. QED
  BY <1>2, <1>3, <1>4, <1>5, <1>6

\* The process dies: nobody hears more, and a turn that waits goes on waiting.
LEMMA CrashHeard ==
  ASSUME HeardInv, DecisionTypeOK', Crash
  PROVE  HeardInv'
<1> USE DEF HeardInv
<1>1. UNCHANGED <<decisions, queue>> /\ \A q \in Positions : Last(q)' = Last(q)
  BY CrashDrops DEF Crash, Last
<1>2. \A q \in Positions : \A n \in 1..Last(q) :
        /\ turns'[q][n].asked = turns[q][n].asked /\ turns'[q][n].on = turns[q][n].on
        /\ turns'[q][n].told = turns[q][n].told
        /\ turns'[q][n].status = "blocked" <=> turns[q][n].status = "blocked"
  BY CrashDrops, TurnsTyped DEF Dropped
<1>3. SameTold
  BY <1>1, <1>2 DEF SameTold
<1>4. \A d : WaitsOn(d)' <=> WaitsOn(d)
  BY <1>1, <1>2, LatestTurn DEF WaitsOn, Turn
<1>5. AskedBy' /\ ToldFits'
  BY <1>1, <1>2 DEF AskedBy, ToldFits
<1>6. AskedOrHeir' /\ HeirsDiffer'
  BY <1>1, LatestTurn, GrownHeirs DEF RowsGrow
<1>7. OneWay'
  BY <1>1, <1>3, <1>4, OneWayStays
<1>8. QED
  BY <1>5, <1>6, <1>7

LEMMA ToldMore ==
  ASSUME HeardInv, NEW p \in Positions, NEW told \in SUBSET DecisionIds,
         turns' = [turns EXCEPT ![p] = Append(@, NewTurn(told))], NEW d
  PROVE  /\ Told(d)' <=> Told(d) \/ d \in told
         /\ d \notin told /\ ToldOne(d) => ToldOne(d)'
         /\ ~Told(d) => ToldOne(d)'
<1> DEFINE t == NewTurn(told)
<1>1. t \in Turns /\ t.told = told
  BY NewTurnType DEF NewTurn
<1> HIDE DEF t
<1>2. /\ Last(p)' = Last(p) + 1 /\ turns'[p][Last(p) + 1] = t
      /\ \A n \in 1..Last(p) : turns'[p][n] = turns[p][n]
      /\ \A q \in Positions : q # p => turns'[q] = turns[q] /\ Last(q)' = Last(q)
  BY <1>1, TurnAdded DEF HeardInv, t, Last
<1>3. \A q \in Positions : \A n \in 1..Last(q)' :
        (q = p /\ n = Last(p) + 1 /\ turns'[q][n].told = told)
        \/ (n \in 1..Last(q) /\ turns'[q][n].told = turns[q][n].told)
  BY <1>1, <1>2, LatestTurn DEF HeardInv
<1>4. \A q \in Positions : \A n \in 1..Last(q) :
        n \in 1..Last(q)' /\ turns'[q][n].told = turns[q][n].told
  BY <1>2, LatestTurn DEF HeardInv
<1>5. Last(p) + 1 \in 1..Last(p)' /\ turns'[p][Last(p) + 1].told = told
  BY <1>1, <1>2, LatestTurn DEF HeardInv
<1>6. Told(d)' <=> Told(d) \/ d \in told
  BY <1>3, <1>4, <1>5 DEF Told
<1>7. ASSUME NEW q \in Positions, NEW n \in 1..Last(q)', d \in turns'[q][n].told
      PROVE  \/ q = p /\ n = Last(p) + 1 /\ d \in told
             \/ n \in 1..Last(q) /\ d \in turns[q][n].told
  BY <1>3, <1>7
<1>8. d \notin told /\ ToldOne(d) => ToldOne(d)'
  <2> SUFFICES ASSUME d \notin told, ToldOne(d), NEW q \in Positions, NEW r \in Positions,
                      NEW n \in 1..Last(q)', NEW m \in 1..Last(r)',
                      d \in turns'[q][n].told, d \in turns'[r][m].told
               PROVE  q = r /\ n = m
    BY DEF ToldOne
  <2>1. /\ n \in 1..Last(q) /\ d \in turns[q][n].told
        /\ m \in 1..Last(r) /\ d \in turns[r][m].told
    BY <1>7
  <2>2. QED
    BY <2>1 DEF ToldOne
<1>9. ~Told(d) => ToldOne(d)'
  <2> SUFFICES ASSUME ~Told(d), NEW q \in Positions, NEW r \in Positions,
                      NEW n \in 1..Last(q)', NEW m \in 1..Last(r)',
                      d \in turns'[q][n].told, d \in turns'[r][m].told
               PROVE  q = r /\ n = m
    BY DEF ToldOne
  <2>1. /\ q = p /\ n = Last(p) + 1
        /\ r = p /\ m = Last(p) + 1
    BY <1>7 DEF Told
  <2>2. QED
    BY <2>1
<1>10. QED
  BY <1>6, <1>8, <1>9

\* The next turn of a position, but for where the choices of the operator are.
LEMMA NextTurnHeard ==
  ASSUME HeardInv, DecisionTypeOK', NEW p \in Positions, NEW told \in SUBSET DecisionIds,
         turns' = [turns EXCEPT ![p] = Append(@, NewTurn(told))],
         UNCHANGED decisions, queue' \subseteq queue,
         \A d \in told : decisions[d].status # "absent" /\ decisions[d].from \in {Nobody, <<p, Last(p)>>}
  PROVE  AskedBy' /\ ToldFits' /\ AskedOrHeir' /\ HeirsDiffer'
<1> DEFINE t == NewTurn(told)
<1>1. t \in Turns /\ t.told = told /\ t.asked = NoDecision /\ t.status # "blocked"
  BY NewTurnType DEF NewTurn
<1> HIDE DEF t
<1>2. /\ Last(p)' = Last(p) + 1 /\ turns'[p][Last(p) + 1] = t
      /\ \A n \in 1..Last(p) : turns'[p][n] = turns[p][n]
      /\ \A q \in Positions : q # p => turns'[q] = turns[q] /\ Last(q)' = Last(q)
  BY <1>1, TurnAdded DEF HeardInv, t, Last
<1>3. \A q \in Positions : Last(q) \in Nat \ {0} /\ Last(q)' \in Nat /\ Last(q)' >= Last(q)
  BY <1>2, LatestTurn DEF HeardInv
<1>4. \A q \in Positions : \A n \in 1..Last(q)' :
        (q = p /\ n = Last(p) + 1 /\ turns'[q][n] = t)
        \/ (n \in 1..Last(q) /\ turns'[q][n] = turns[q][n])
  <2> SUFFICES ASSUME NEW q \in Positions, NEW n \in 1..Last(q)'
               PROVE  \/ q = p /\ n = Last(p) + 1 /\ turns'[q][n] = t
                      \/ n \in 1..Last(q) /\ turns'[q][n] = turns[q][n]
    OBVIOUS
  <2>1. CASE q = p
    <3>1. n = Last(p) + 1 \/ n \in 1..Last(p)
      BY <1>2, <1>3, <2>1
    <3>2. QED
      BY <1>2, <2>1, <3>1
  <2>2. CASE q # p
    BY <1>2, <2>2
  <2>3. QED
    BY <2>1, <2>2
<1>5. AskedBy'
  <2> SUFFICES ASSUME NEW q \in Positions, NEW n \in 1..Last(q)'
               PROVE  /\ turns'[q][n].asked # NoDecision =>
                           /\ decisions[turns'[q][n].asked].status # "absent"
                           /\ decisions[turns'[q][n].asked].from = <<q, n>>
                      /\ turns'[q][n].status = "blocked" =>
                           /\ decisions[turns'[q][n].on].status # "absent"
                           /\ decisions[turns'[q][n].on].from = <<q, n>>
    BY DEF AskedBy
  <2>1. CASE turns'[q][n] = t
    BY <1>1, <2>1
  <2>2. CASE n \in 1..Last(q) /\ turns'[q][n] = turns[q][n]
    BY <2>2, TurnAsked
  <2>3. QED
    BY <1>4, <2>1, <2>2
<1>6. ToldFits'
  <2>1. ASSUME NEW q \in Positions, NEW n \in 1..Last(q)', NEW d \in turns'[q][n].told
        PROVE  decisions[d].status # "absent" /\ decisions[d].from \in {Nobody, <<q, n - 1>>}
    <3>1. CASE q = p /\ n = Last(p) + 1 /\ turns'[q][n] = t
      <4>1. n - 1 = Last(p)
        BY <1>3, <3>1
      <4>2. QED
        BY <1>1, <2>1, <3>1, <4>1
    <3>2. CASE n \in 1..Last(q) /\ turns'[q][n] = turns[q][n]
      BY <2>1, <3>2 DEF HeardInv, ToldFits
    <3>3. QED
      BY <1>4, <3>1, <3>2
  <2>2. \A d \in queue' : decisions[d].status # "absent" /\ decisions[d].from = Nobody
    BY DEF HeardInv, ToldFits
  <2>3. QED
    BY <2>1, <2>2 DEF ToldFits
<1>7. AskedOrHeir' /\ HeirsDiffer'
  BY <1>3, GrownHeirs DEF RowsGrow
<1>8. QED
  BY <1>5, <1>6, <1>7

\* Who waits after the next turn of p: whoever waited elsewhere.
LEMMA WaitsAfter ==
  ASSUME HeardInv, NEW p \in Positions, NEW told \in SUBSET DecisionIds,
         turns' = [turns EXCEPT ![p] = Append(@, NewTurn(told))], NEW d
  PROVE  WaitsOn(d)' <=> \E q \in Positions \ {p} : Turn(q).status = "blocked" /\ Turn(q).on = d
<1>1. NewTurn(told).status # "blocked"
  BY DEF NewTurn
<1>2. QED
  BY <1>1, AddedHolds DEF HeardInv, WaitsOn

LEMMA ContinueHeard ==
  ASSUME HeardInv, DecisionTypeOK', NEW p \in Positions, Continue(p)
  PROVE  HeardInv'
<1> DEFINE e == Turn(p).on
           told == Resolution(e)
<1>1. /\ Turn(p).status = "blocked" /\ Awaits(p, Last(p)) /\ UNCHANGED <<decisions, queue>>
      /\ turns' = [turns EXCEPT ![p] = Append(@, NewTurn(told))]
  BY DEF Continue, Continuable, Awaits, Turn
<1>2. /\ e \in DecisionIds /\ told \in SUBSET DecisionIds
      /\ decisions[e].status # "absent" /\ decisions[e].from = <<p, Last(p)>>
  <2>1. Last(p) \in 1..Last(p)
    BY LatestTurn DEF HeardInv
  <2>2. QED
    BY <1>1, <2>1, ResolutionExists, TurnAsked DEF HeardInv, Turn
<1>3. told = {e} \cup ({decisions[e].heir} \ {NoDecision})
  BY DEF Resolution
<1> HIDE DEF e, told
<1>4. \A d \in told : decisions[d].status # "absent" /\ decisions[d].from \in {Nobody, <<p, Last(p)>>}
  BY <1>2, <1>3 DEF HeardInv, HeirsDiffer
<1>5. AskedBy' /\ ToldFits' /\ AskedOrHeir' /\ HeirsDiffer'
  BY <1>1, <1>2, <1>4, NextTurnHeard
<1>6. OneWay'
  <2> SUFFICES ASSUME NEW d \in DecisionIds, NEW s, s = decisions[d].heir, s # NoDecision
               PROVE  /\ WaitsOn(d)' \/ s \in queue \/ Told(s)'
                      /\ ~(WaitsOn(d)' /\ s \in queue) /\ ~(WaitsOn(d)' /\ Told(s)') /\ ~(s \in queue /\ Told(s)')
                      /\ ToldOne(s)'
    BY <1>1 DEF OneWay
  <2>1. /\ WaitsOn(d) \/ s \in queue \/ Told(s)
        /\ ~(WaitsOn(d) /\ s \in queue) /\ ~(WaitsOn(d) /\ Told(s)) /\ ~(s \in queue /\ Told(s))
        /\ ToldOne(s)
        /\ decisions[s].from = Nobody
        /\ \A x \in DecisionIds : decisions[x].heir = s => x = d
    BY DEF HeardInv, OneWay, HeirsDiffer
  <2>2. CASE d = e
    <3>1. WaitsOn(d)
      BY <1>1, <2>2 DEF WaitsOn, e
    <3>2. ~WaitsOn(d)'
      <4>1. \A q \in Positions : Turn(q).status = "blocked" /\ Turn(q).on = d => q = p
        <5> SUFFICES ASSUME NEW q \in Positions, Turn(q).status = "blocked", Turn(q).on = d
                     PROVE  q = p
          OBVIOUS
        <5>1. decisions[d].from = <<q, Last(q)>>
          BY TurnBlocks
        <5>2. QED
          BY <1>2, <2>2, <5>1
      <4>2. WaitsOn(d)' <=> \E q \in Positions \ {p} : Turn(q).status = "blocked" /\ Turn(q).on = d
        BY <1>1, <1>2, WaitsAfter
      <4>3. QED
        BY <4>1, <4>2
    <3>3. s \in told
      BY <1>3, <2>2
    <3>4. Told(s)' /\ ToldOne(s)' /\ s \notin queue
      <4>1. /\ Told(s)' <=> Told(s) \/ s \in told
            /\ ~Told(s) => ToldOne(s)'
        BY <1>1, <1>2, ToldMore
      <4>2. QED
        BY <2>1, <3>1, <3>3, <4>1
    <3>5. QED
      BY <3>2, <3>4
  <2>3. CASE d # e
    <3>1. s \notin told
      BY <1>2, <1>3, <2>1, <2>3, TupleIsSomebody
    <3>2. WaitsOn(d)' <=> WaitsOn(d)
      <4>1. WaitsOn(d)' <=> \E q \in Positions \ {p} : Turn(q).status = "blocked" /\ Turn(q).on = d
        BY <1>1, <1>2, WaitsAfter
      <4>2. WaitsOn(d) <=> \E q \in Positions \ {p} : Turn(q).status = "blocked" /\ Turn(q).on = d
        BY <2>3 DEF WaitsOn, e
      <4>3. QED
        BY <4>1, <4>2
    <3>3. /\ Told(s)' <=> Told(s) \/ s \in told
          /\ s \notin told /\ ToldOne(s) => ToldOne(s)'
      BY <1>1, <1>2, ToldMore
    <3>4. QED
      BY <2>1, <3>1, <3>2, <3>3
  <2>4. QED
    BY <2>2, <2>3
<1>7. QED
  BY <1>5, <1>6 DEF HeardInv

LEMMA PrepareHeard ==
  ASSUME HeardInv, DecisionTypeOK', PrepareTurn
  PROVE  HeardInv'
<1>1. /\ turns' = [turns EXCEPT ![Root] = Append(@, NewTurn(queue))] /\ queue' = {}
      /\ Turn(Root).status = "succeeded" /\ UNCHANGED decisions
      /\ Root \in Positions /\ queue \in SUBSET DecisionIds
  BY DecisionAssumption DEF PrepareTurn, DecisionAssumption, HeardInv, DecisionTypeOK
<1>2. AskedBy' /\ ToldFits' /\ AskedOrHeir' /\ HeirsDiffer'
  BY <1>1, NextTurnHeard DEF HeardInv, ToldFits
<1>3. OneWay'
  <2> SUFFICES ASSUME NEW d \in DecisionIds, NEW s, s = decisions[d].heir, s # NoDecision
               PROVE  /\ WaitsOn(d)' \/ Told(s)'
                      /\ ~(WaitsOn(d)' /\ Told(s)')
                      /\ ToldOne(s)'
    BY <1>1 DEF OneWay
  <2>1. /\ WaitsOn(d) \/ s \in queue \/ Told(s)
        /\ ~(WaitsOn(d) /\ s \in queue) /\ ~(WaitsOn(d) /\ Told(s)) /\ ~(s \in queue /\ Told(s))
        /\ ToldOne(s)
    BY DEF HeardInv, OneWay
  <2>2. WaitsOn(d)' <=> WaitsOn(d)
    <3>1. WaitsOn(d)' <=> \E q \in Positions \ {Root} : Turn(q).status = "blocked" /\ Turn(q).on = d
      BY <1>1, WaitsAfter
    <3>2. WaitsOn(d) <=> \E q \in Positions \ {Root} : Turn(q).status = "blocked" /\ Turn(q).on = d
      BY <1>1 DEF WaitsOn
    <3>3. QED
      BY <3>1, <3>2
  <2>3. QED
    BY <1>1, <2>1, <2>2, ToldMore
<1>4. QED
  BY <1>2, <1>3 DEF HeardInv

\* The operator chooses otherwise: the choice waits with the turn, or goes to the queue.
LEMMA SupersedeHeard ==
  ASSUME HeardInv, DecisionTypeOK', NEW e \in DecisionIds, NEW c \in DecisionIds, Supersede(e, c)
  PROVE  HeardInv'
<1> DEFINE p == decisions[e].from[1]
           n == decisions[e].from[2]
<1>1. /\ decisions[e].kind = "default" /\ decisions[e].status = "resolved" /\ decisions[c].status = "absent"
      /\ UNCHANGED turns
      /\ queue' = IF Awaits(p, n) /\ turns[p][n].on = e THEN queue ELSE queue \cup {c}
  BY DEF Supersede, Fresh
<1>2. c # e /\ e # NoDecision /\ c # NoDecision
  BY <1>1 DEF DecisionIds, NoDecision
<1>3. /\ decisions'[e].status = "superseded" /\ decisions'[e].heir = c
      /\ decisions'[e].from = decisions[e].from /\ decisions'[e].kind = "default"
      /\ decisions'[c].status = "resolved" /\ decisions'[c].from = Nobody
      /\ decisions'[c].heir = NoDecision /\ decisions'[c].kind = "choice"
      /\ \A d \in DecisionIds : d \notin {e, c} => decisions'[d] = decisions[d]
  <2>1. decisions \in [DecisionIds -> DecisionRows]
    BY DEF HeardInv, DecisionTypeOK
  <2>2. /\ decisions' = [decisions EXCEPT
               ![e].status = "superseded", ![e].heir = c,
               ![c] = [Absent EXCEPT !.status = "resolved", !.by = "operator", !.answer = "no"]]
    BY DEF Supersede
  <2>3. /\ decisions'[e] = [decisions[e] EXCEPT !.status = "superseded", !.heir = c]
        /\ decisions'[c] = [Absent EXCEPT !.status = "resolved", !.by = "operator", !.answer = "no"]
        /\ \A d \in DecisionIds : d \notin {e, c} => decisions'[d] = decisions[d]
    BY <1>2, <2>1, <2>2
  <2>4. decisions[e] \in DecisionRows
    BY <2>1
  <2>5. QED
    BY <1>1, <2>3, <2>4 DEF DecisionRows, Absent
<1>4. /\ decisions[e].from # Nobody /\ decisions[e].heir = NoDecision /\ decisions[c].heir = NoDecision
      /\ p \in Positions /\ n \in 1..Last(p) /\ decisions[e].from = <<p, n>>
  BY <1>1, RowsTyped DEF HeardInv, AskedOrHeir, HeirsDiffer
<1> HIDE DEF p, n
<1>5. \A d \in DecisionIds : decisions[d].status # "absent" =>
        decisions'[d].status # "absent" /\ decisions'[d].from = decisions[d].from
  BY <1>1, <1>3
<1>6. AskedBy'
  <2> SUFFICES ASSUME NEW q \in Positions, NEW m \in 1..Last(q)
               PROVE  /\ turns[q][m].asked # NoDecision =>
                           /\ decisions'[turns[q][m].asked].status # "absent"
                           /\ decisions'[turns[q][m].asked].from = <<q, m>>
                      /\ turns[q][m].status = "blocked" =>
                           /\ decisions'[turns[q][m].on].status # "absent"
                           /\ decisions'[turns[q][m].on].from = <<q, m>>
    BY <1>1 DEF AskedBy, Last
  <2>1. QED
    BY <1>5, TurnAsked
<1>7. ToldFits'
  <2>1. ASSUME NEW q \in Positions, NEW m \in 1..Last(q), NEW d \in turns[q][m].told
        PROVE  decisions'[d].status # "absent" /\ decisions'[d].from \in {Nobody, <<q, m - 1>>}
    BY <1>5, <2>1, TurnsTyped DEF HeardInv, ToldFits
  <2>2. \A d \in queue' : decisions'[d].status # "absent" /\ decisions'[d].from = Nobody
    BY <1>1, <1>3, <1>5 DEF HeardInv, ToldFits, DecisionTypeOK
  <2>3. QED
    BY <1>1, <2>1, <2>2 DEF ToldFits, Last
<1>8. AskedOrHeir'
  <2> SUFFICES ASSUME NEW d \in DecisionIds
               PROVE  /\ decisions'[d].status = "absent" => decisions'[d].heir = NoDecision
                      /\ decisions'[d].status # "absent" /\ decisions'[d].from = Nobody =>
                           decisions'[d].kind = "choice" /\ \E x \in DecisionIds : decisions'[x].heir = d
                      /\ decisions'[d].status # "absent" /\ decisions'[d].from # Nobody =>
                           decisions'[d].from[2] \in 1..Len(turns[decisions'[d].from[1]])
    BY <1>1 DEF AskedOrHeir, Last
  <2>1. CASE d = c
    BY <1>3, <2>1
  <2>2. CASE d = e
    BY <1>3, <1>4, <2>2 DEF Last, p, n
  <2>3. CASE d \notin {e, c}
    <3>1. \A x \in DecisionIds : decisions[x].heir = d => decisions'[x].heir = d
      BY <1>2, <1>3, <1>4, <2>3 DEF DecisionIds, NoDecision
    <3>2. QED
      BY <1>3, <2>3, <3>1 DEF HeardInv, AskedOrHeir, Last
  <2>4. QED
    BY <2>1, <2>2, <2>3
<1>9. ASSUME NEW d \in DecisionIds, NEW s, s = decisions'[d].heir, s # NoDecision
      PROVE  (d = e /\ s = c) \/ (d \notin {e, c} /\ s = decisions[d].heir /\ s \in DecisionIds \ {e, c})
  <2>1. CASE d \in {e, c}
    BY <1>3, <1>9, <2>1
  <2>2. CASE d \notin {e, c}
    <3>1. s = decisions[d].heir /\ s \in DecisionIds
      BY <1>3, <1>9, <2>2, RowsTyped DEF HeardInv
    <3>2. decisions[s].status # "absent" /\ decisions[s].from = Nobody
      BY <1>9, <3>1 DEF HeardInv, HeirsDiffer
    <3>3. QED
      BY <1>1, <1>4, <2>2, <3>1, <3>2
  <2>3. QED
    BY <2>1, <2>2
<1>10. HeirsDiffer'
  <2> SUFFICES ASSUME NEW d \in DecisionIds, NEW s, s = decisions'[d].heir, s # NoDecision
               PROVE  /\ decisions'[d].status = "superseded" /\ decisions'[d].from # Nobody
                      /\ decisions'[s].status # "absent" /\ decisions'[s].from = Nobody
                      /\ \A x \in DecisionIds : decisions'[x].heir = s => x = d
    BY DEF HeirsDiffer
  <2>1. CASE d = e /\ s = c
    BY <1>2, <1>3, <1>4, <1>9, <2>1
  <2>2. CASE d \notin {e, c} /\ s = decisions[d].heir /\ s \in DecisionIds \ {e, c}
    BY <1>3, <1>9, <2>2 DEF HeardInv, HeirsDiffer
  <2>3. QED
    BY <1>9, <2>1, <2>2
<1>11. SameTold /\ \A d : WaitsOn(d)' = WaitsOn(d)
  BY <1>1 DEF SameTold, WaitsOn, Turn, Last
<1>12. WaitsOn(e) <=> Awaits(p, n) /\ turns[p][n].on = e
  <2>1. ASSUME NEW q \in Positions, Turn(q).status = "blocked", Turn(q).on = e
        PROVE  q = p /\ Last(q) = n
    <3>1. decisions[e].from = <<q, Last(q)>>
      BY <2>1, TurnBlocks
    <3>2. QED
      BY <1>4, <3>1
  <2>2. QED
    BY <1>1, <1>4, <2>1 DEF WaitsOn, Awaits, Turn
<1>13. c \notin queue /\ ~Told(c) /\ ToldOne(c)
  BY <1>1 DEF HeardInv, ToldFits, Told, ToldOne
<1>14. OneWay'
  <2> SUFFICES ASSUME NEW d \in DecisionIds, NEW s, s = decisions'[d].heir, s # NoDecision
               PROVE  /\ WaitsOn(d) \/ s \in queue' \/ Told(s)
                      /\ ~(WaitsOn(d) /\ s \in queue') /\ ~(WaitsOn(d) /\ Told(s)) /\ ~(s \in queue' /\ Told(s))
                      /\ ToldOne(s)
    BY <1>11, ToldStays DEF OneWay
  <2>1. CASE d = e /\ s = c
    BY <1>1, <1>12, <1>13, <2>1
  <2>2. CASE d \notin {e, c} /\ s = decisions[d].heir /\ s \in DecisionIds \ {e, c}
    BY <1>1, <2>2 DEF HeardInv, OneWay
  <2>3. QED
    BY <1>9, <2>1, <2>2
<1>15. QED
  BY <1>6, <1>7, <1>8, <1>10, <1>14 DEF HeardInv

LEMMA HeardInvStep ==
  ASSUME HeardInv, [Next]_vars
  PROVE  HeardInv'
<1>1. DecisionTypeOK /\ DecisionTypeOK'
  BY TypesStep DEF HeardInv
<1>2. ASSUME UNCHANGED <<turns, queue, decisions>>
      PROVE  HeardInv'
  BY <1>1, <1>2, RowsAnswered
<1>3. ASSUME NEW p \in Positions,
             Execute(p) \/ Authorize(p) \/ Perform(p) \/ EndBlocked(p) \/ Succeed(p) \/ Fail(p)
      PROVE  HeardInv'
  <2>1. PICK t \in Turns : Writes(p, t)
    BY <1>1, <1>3, LatestStep
  <2>2. UNCHANGED <<decisions, queue>>
    BY <1>1, <1>3, LatestStep
  <2>3. Turn(p).asked # NoDecision =>
          decisions[Turn(p).asked].status # "absent" /\ decisions[Turn(p).asked].from = <<p, Last(p)>>
    <3>1. Last(p) \in 1..Last(p)
      BY <1>1, LatestTurn
    <3>2. QED
      BY <3>1, TurnAsked DEF Turn
  <2>4. /\ Becomes(p, t) /\ t.told = Turn(p).told /\ Turn(p).status = "running" /\ t.asked = Turn(p).asked
        /\ t.status = "blocked" => t.on = t.asked /\ t.asked # NoDecision /\ decisions[t.on].status = "open"
    BY <2>1 DEF Writes
  <2>5. RowsFollow(p)
    BY <2>2 DEF RowsFollow
  <2>6. QED
    BY <1>1, <2>2, <2>3, <2>4, <2>5, TurnGoesOn
<1>4. ASSUME NEW p \in Positions, NEW d \in DecisionIds, NEW kind \in Kinds, Turn(p).live, Fresh(d),
             decisions' = [decisions EXCEPT ![d] = Requested(kind, p)]
      PROVE  /\ RowsFollow(p) /\ decisions'[d].status = "open" /\ decisions'[d].from = <<p, Last(p)>>
             /\ Turn(p).status = "running" /\ Turn(p) \in Turns
  <2>1. /\ decisions'[d] = Requested(kind, p)
        /\ \A e \in DecisionIds : e # d => decisions'[e] = decisions[e]
    BY <1>1, <1>4 DEF DecisionTypeOK
  <2>2. /\ Requested(kind, p).status = "open" /\ Requested(kind, p).from = <<p, Last(p)>>
        /\ Requested(kind, p).heir = NoDecision
    BY <1>1, RequestedType
  <2>3. QED
    BY <1>1, <1>4, <2>1, <2>2, LatestTurn DEF RowsFollow, Fresh, Turns
<1>5. ASSUME NEW p \in Positions, NEW d \in DecisionIds, NEW kind \in Kinds, Request(p, d, kind)
      PROVE  HeardInv'
  <2> DEFINE t == [Turn(p) EXCEPT !.asked = d]
  <2>1. /\ RowsFollow(p) /\ decisions'[d].status = "open" /\ decisions'[d].from = <<p, Last(p)>>
        /\ Turn(p).status = "running" /\ Turn(p) \in Turns
    BY <1>4, <1>5 DEF Request
  <2>2. t \in Turns /\ t.asked = d /\ t.told = Turn(p).told /\ t.status = "running"
    BY <2>1, AskingTurn
  <2>3. Becomes(p, t) /\ UNCHANGED queue
    BY <1>5 DEF Request
  <2> HIDE DEF t
  <2>4. QED
    BY <1>1, <2>1, <2>2, <2>3, TurnGoesOn
<1>6. ASSUME NEW p \in Positions, NEW d \in DecisionIds, Intercept(p, d)
      PROVE  HeardInv'
  <2> DEFINE t == [Ended(Turn(p)) EXCEPT !.status = "blocked", !.on = d]
  <2>1. /\ RowsFollow(p) /\ decisions'[d].status = "open" /\ decisions'[d].from = <<p, Last(p)>>
        /\ Turn(p).status = "running" /\ Turn(p) \in Turns
    BY <1>4, <1>6 DEF Intercept, Kinds
  <2>2. t \in Turns
    BY <2>1, BlockedTurn
  <2>3. t.asked = Turn(p).asked /\ t.told = Turn(p).told /\ t.on = d
    BY <2>1 DEF Ended, Turns, TurnRecords
  <2>4. Becomes(p, t) /\ UNCHANGED queue /\ Turn(p).asked = NoDecision
    BY <1>6 DEF Intercept
  <2> HIDE DEF t
  <2>5. QED
    BY <1>1, <2>1, <2>2, <2>3, <2>4, TurnGoesOn
<1>7. ASSUME NEW d \in DecisionIds, NEW answer \in {"yes", "no"},
             Resolve(d, answer) \/ ResolveDefault(d)
      PROVE  HeardInv'
  <2>1. UNCHANGED <<turns, queue>> /\ decisions[d].status = "open" /\ decisions[d] \in DecisionRows
    BY <1>1, <1>7 DEF Resolve, ResolveDefault, DecisionTypeOK
  <2>2. PICK who \in {"operator", "policy"}, reply \in {"yes", "no"} :
          \/ decisions' = [decisions EXCEPT ![d].status = "superseded"]
          \/ decisions' = [decisions EXCEPT ![d] = Resolved(d, who, reply)]
    BY <1>7 DEF Resolve, ResolveDefault
  <2>3. /\ decisions'[d].from = decisions[d].from /\ decisions'[d].heir = decisions[d].heir
        /\ decisions'[d].kind = decisions[d].kind /\ decisions'[d].status \in {"resolved", "superseded"}
        /\ \A e \in DecisionIds : e # d => decisions'[e] = decisions[e]
    <3>1. CASE decisions' = [decisions EXCEPT ![d].status = "superseded"]
      BY <1>1, <2>1, <3>1 DEF DecisionTypeOK, DecisionRows
    <3>2. CASE decisions' = [decisions EXCEPT ![d] = Resolved(d, who, reply)]
      <4>1. /\ decisions'[d] = Resolved(d, who, reply)
            /\ \A e \in DecisionIds : e # d => decisions'[e] = decisions[e]
        BY <1>1, <3>2 DEF DecisionTypeOK
      <4>2. QED
        BY <1>1, <4>1, ResolvedType
    <3>3. QED
      BY <2>2, <3>1, <3>2
  <2>4. QED
    BY <1>1, <2>1, <2>3, RowsAnswered
<1>8. CASE UNCHANGED vars
  BY <1>2, <1>8 DEF vars
<1>9. CASE Revise \/ Cancel \/ \E p \in Positions : Refuse(p)
  BY <1>2, <1>9 DEF Revise, Cancel, Refuse
<1>10. QED
  BY <1>1, <1>3, <1>5, <1>6, <1>7, <1>8, <1>9, SupersedeHeard, CrashHeard, PrepareHeard, ContinueHeard
  DEF Next

LEMMA HeardInvInit == Init => HeardInv
<1> SUFFICES ASSUME Init PROVE HeardInv
  OBVIOUS
<1>1. /\ \A p \in Positions : Last(p) = 1 /\ turns[p][1] = NewTurn({}) /\ Turn(p) = NewTurn({})
      /\ \A d \in DecisionIds : decisions[d] = Absent
      /\ queue = {}
  BY DEF Init, Last, Turn
<1>2. /\ NewTurn({}).asked = NoDecision /\ NewTurn({}).status = "running" /\ NewTurn({}).told = {}
      /\ Absent.status = "absent" /\ Absent.heir = NoDecision
  BY DEF NewTurn, Absent
<1>3. AskedBy /\ ToldFits
  BY <1>1, <1>2 DEF AskedBy, ToldFits
<1>4. AskedOrHeir /\ HeirsDiffer /\ OneWay
  BY <1>1, <1>2 DEF AskedOrHeir, HeirsDiffer, OneWay
<1>5. QED
  BY <1>3, <1>4, TypesInit DEF HeardInv

-----------------------------------------------------------------------------
(***************************************************************************)
(* What a turn is told is the answer to the turn before it.                *)
(***************************************************************************)
Over(d) == decisions[d].status \in {"resolved", "superseded"}
\* Nobody is told, and nothing is queued, before it was decided.
ToldIsOver ==
  /\ \A p \in Positions : \A n \in 1..Last(p) : \A d \in turns[p][n].told : Over(d)
  /\ \A d \in queue : Over(d)
  /\ \A d, s \in DecisionIds : decisions[d].heir = s => Over(s)
\* Only the latest turn of a position runs, and each later one continues the one before it.
Answers ==
  \A p \in Positions : \A n \in 2..Last(p) :
    /\ turns[p][n - 1].status # "running"
    /\ \A d \in DecisionIds :
         decisions[d].from # Nobody => (d \in turns[p][n].told <=> Continuation(p, n, d))

FollowInv == HeardInv /\ ToldIsOver /\ Answers

\* A Decision that ended stays ended, and no row changes its question.
RowsEnd ==
  \A d \in DecisionIds :
    /\ Over(d) => Over(d)'
    /\ decisions[d].status # "absent" => decisions'[d].from = decisions[d].from
    /\ \A s \in DecisionIds : decisions'[d].heir = s => decisions[d].heir = s \/ Over(s)'
\* The turns of a step that adds none: only a running one is written.
TurnsStay ==
  \A p \in Positions :
    /\ Last(p)' = Last(p)
    /\ \A n \in 1..Last(p) :
         /\ turns'[p][n].told = turns[p][n].told
         /\ turns[p][n].status = "running" \/
              (turns'[p][n].status = turns[p][n].status /\ turns'[p][n].on = turns[p][n].on)

LEMMA EndsStay ==
  ASSUME FollowInv, RowsEnd, \A d \in queue' : d \in queue \/ (d \in DecisionIds /\ Over(d)')
  PROVE  /\ \A d \in queue' : Over(d)'
         /\ \A d, s \in DecisionIds : decisions'[d].heir = s => Over(s)'
         /\ \A d \in DecisionIds : Over(d) => Over(d)'
<1>1. \A d \in DecisionIds : Over(d) => Over(d)'
  BY DEF RowsEnd
<1>2. \A d \in queue : d \in DecisionIds /\ Over(d)
  BY DEF FollowInv, HeardInv, DecisionTypeOK, ToldIsOver
<1>3. ASSUME NEW d \in DecisionIds, NEW s \in DecisionIds, decisions'[d].heir = s
      PROVE  Over(s)'
  BY <1>1, <1>3 DEF RowsEnd, FollowInv, ToldIsOver
<1>4. QED
  BY <1>1, <1>2, <1>3

LEMMA FollowsStays ==
  ASSUME FollowInv, HeardInv', RowsEnd, TurnsStay,
         \A d \in queue' : d \in queue \/ (d \in DecisionIds /\ Over(d)')
  PROVE  FollowInv'
<1>1. ASSUME NEW p \in Positions, NEW n \in 1..Last(p), NEW d \in turns'[p][n].told
      PROVE  Over(d)'
  <2>1. d \in DecisionIds /\ Over(d)
    BY <1>1, TurnsTyped DEF TurnsStay, FollowInv, HeardInv, ToldIsOver
  <2>2. QED
    BY <2>1, EndsStay
<1>2. ToldIsOver'
  BY <1>1, EndsStay DEF ToldIsOver, TurnsStay
<1>3. ASSUME NEW p \in Positions, NEW n \in 2..Last(p)
      PROVE  /\ turns'[p][n - 1].status # "running"
             /\ \A d \in DecisionIds : decisions'[d].from # Nobody =>
                  (d \in turns'[p][n].told <=> Continuation(p, n, d)')
  <2>1. /\ n \in 1..Last(p) /\ n - 1 \in 1..Last(p) /\ n > 1
    BY LatestTurn DEF FollowInv, HeardInv
  <2>2. turns[p][n - 1].status # "running"
    BY DEF FollowInv, Answers
  <2>3. /\ turns'[p][n - 1].status = turns[p][n - 1].status
        /\ turns'[p][n - 1].on = turns[p][n - 1].on
        /\ turns'[p][n].told = turns[p][n].told
    BY <2>1, <2>2 DEF TurnsStay
  <2>4. ASSUME NEW d \in DecisionIds, decisions'[d].from # Nobody
        PROVE  d \in turns'[p][n].told <=> Continuation(p, n, d)'
    <3>1. Continuation(p, n, d)' <=> Continuation(p, n, d)
      BY <2>3 DEF Continuation
    <3>2. CASE decisions[d].status = "absent"
      <4>1. d \notin turns[p][n].told
        BY <2>1, <3>2 DEF FollowInv, ToldIsOver, Over
      <4>2. ~Continuation(p, n, d)
        BY <2>1, <3>2, TurnAsked DEF FollowInv, Continuation
      <4>3. QED
        BY <2>3, <3>1, <4>1, <4>2
    <3>3. CASE decisions[d].status # "absent"
      <4>1. decisions[d].from # Nobody
        BY <2>4, <3>3 DEF RowsEnd
      <4>2. QED
        BY <2>3, <3>1, <4>1 DEF FollowInv, Answers
    <3>4. QED
      BY <3>2, <3>3
  <2>5. QED
    BY <2>2, <2>3, <2>4
<1>4. Answers'
  BY <1>3 DEF Answers, TurnsStay
<1>5. QED
  BY <1>2, <1>4 DEF FollowInv

LEMMA FollowsNext ==
  ASSUME FollowInv, HeardInv', NEW p \in Positions, NEW told \in SUBSET DecisionIds,
         turns' = [turns EXCEPT ![p] = Append(@, NewTurn(told))],
         UNCHANGED decisions, queue' \subseteq queue, Turn(p).status # "running",
         \A d \in told : Over(d),
         \A d \in DecisionIds : decisions[d].from # Nobody =>
           (d \in told <=> Turn(p).status = "blocked" /\ Turn(p).on = d)
  PROVE  FollowInv'
<1> DEFINE t == NewTurn(told)
<1>1. t \in Turns /\ t.told = told
  BY NewTurnType DEF NewTurn
<1> HIDE DEF t
<1>2. /\ Last(p)' = Last(p) + 1 /\ turns'[p][Last(p) + 1] = t
      /\ \A n \in 1..Last(p) : turns'[p][n] = turns[p][n]
      /\ \A q \in Positions : q # p => turns'[q] = turns[q] /\ Last(q)' = Last(q)
  BY <1>1, TurnAdded DEF FollowInv, HeardInv, t, Last
<1>3. Last(p) \in Nat \ {0} /\ \A q \in Positions : Last(q) \in Nat \ {0}
  BY LatestTurn DEF FollowInv, HeardInv
<1>4. ASSUME NEW q \in Positions, NEW n \in 1..Last(q)'
      PROVE  \/ q = p /\ n = Last(p) + 1 /\ turns'[q][n] = t
             \/ n \in 1..Last(q) /\ turns'[q][n] = turns[q][n]
  <2>1. CASE q = p
    <3>1. n = Last(p) + 1 \/ n \in 1..Last(p)
      BY <1>2, <1>3, <2>1
    <3>2. QED
      BY <1>2, <2>1, <3>1
  <2>2. CASE q # p
    BY <1>2, <2>2
  <2>3. QED
    BY <2>1, <2>2
<1>5. \A d : Over(d)' = Over(d)
  BY DEF Over
<1>6. ToldIsOver'
  <2>1. ASSUME NEW q \in Positions, NEW n \in 1..Last(q)', NEW d \in turns'[q][n].told
        PROVE  Over(d)
    BY <1>1, <1>4, <2>1 DEF FollowInv, ToldIsOver
  <2>2. (\A d \in queue' : Over(d)) /\ \A d, s \in DecisionIds : decisions[d].heir = s => Over(s)
    BY DEF FollowInv, ToldIsOver
  <2>3. QED
    BY <1>5, <2>1, <2>2 DEF ToldIsOver, Over
<1>7. ASSUME NEW q \in Positions, NEW n \in 2..Last(q)'
      PROVE  /\ turns'[q][n - 1].status # "running"
             /\ \A d \in DecisionIds : decisions[d].from # Nobody =>
                  (d \in turns'[q][n].told <=> Continuation(q, n, d)')
  <2>1. Last(q)' \in Nat /\ n \in 1..Last(q)' /\ n > 1
    BY <1>2, <1>3
  <2>2. CASE q = p /\ n = Last(p) + 1 /\ turns'[q][n] = t
    <3>1. n - 1 = Last(p) /\ turns'[q][n - 1] = Turn(p)
      <4>1. n - 1 = Last(p) /\ Last(p) \in 1..Last(p)
        BY <1>3, <2>2
      <4>2. QED
        BY <1>2, <2>2, <4>1 DEF Turn
    <3>2. QED
      BY <1>1, <2>1, <2>2, <3>1 DEF Continuation
  <2>3. CASE n \in 1..Last(q) /\ turns'[q][n] = turns[q][n]
    <3>1. n \in 2..Last(q) /\ n - 1 \in 1..Last(q)
      BY <1>3, <2>1, <2>3
    <3>2. turns'[q][n - 1] = turns[q][n - 1]
      BY <1>2, <3>1
    <3>3. /\ turns[q][n - 1].status # "running"
          /\ \A d \in DecisionIds : decisions[d].from # Nobody =>
               (d \in turns[q][n].told <=> Continuation(q, n, d))
      BY <3>1 DEF FollowInv, Answers
    <3>4. \A d : Continuation(q, n, d)' <=> Continuation(q, n, d)
      BY <3>2 DEF Continuation
    <3>5. QED
      BY <2>3, <3>2, <3>3, <3>4
  <2>4. QED
    BY <1>4, <2>1, <2>2, <2>3
<1>8. Answers'
  BY <1>7 DEF Answers
<1>9. QED
  BY <1>6, <1>8 DEF FollowInv

\* A step of the latest turn writes that one.
LEMMA LatestStays ==
  ASSUME DecisionTypeOK, NEW p \in Positions, NEW t \in Turns, Becomes(p, t),
         t.told = Turn(p).told, Turn(p).status = "running"
  PROVE  TurnsStay
<1>1. /\ \A q \in Positions : Last(q)' = Last(q) /\ (q # p => turns'[q] = turns[q])
      /\ turns'[p][Last(p)] = t /\ turns[p][Last(p)] = Turn(p)
      /\ \A n \in 1..Last(p) : n # Last(p) => turns'[p][n] = turns[p][n]
  BY WrittenHolds, TurnWritten DEF Turn
<1>2. ASSUME NEW q \in Positions, NEW n \in 1..Last(q)
      PROVE  turns'[q][n] = turns[q][n] \/ (turns'[q][n] = t /\ turns[q][n] = Turn(p))
  BY <1>1
<1>3. QED
  BY <1>1, <1>2 DEF TurnsStay

LEMMA FollowStep ==
  ASSUME FollowInv, [Next]_vars
  PROVE  FollowInv'
<1>1. HeardInv /\ HeardInv' /\ DecisionTypeOK
  BY HeardInvStep DEF FollowInv, HeardInv
<1>2. ASSUME UNCHANGED <<turns, queue, decisions>>
      PROVE  FollowInv'
  <2>1. RowsEnd /\ TurnsStay
    BY <1>2 DEF RowsEnd, TurnsStay, Over, Last
  <2>2. QED
    BY <1>1, <1>2, <2>1, FollowsStays
<1>3. ASSUME NEW p \in Positions,
             Execute(p) \/ Authorize(p) \/ Perform(p) \/ EndBlocked(p) \/ Succeed(p) \/ Fail(p)
      PROVE  FollowInv'
  <2>1. PICK t \in Turns : Writes(p, t)
    BY <1>1, <1>3, LatestStep
  <2>2. UNCHANGED <<decisions, queue>>
    BY <1>1, <1>3, LatestStep
  <2>3. TurnsStay
    BY <1>1, <2>1, LatestStays DEF Writes
  <2>4. RowsEnd
    BY <2>2 DEF RowsEnd, Over
  <2>5. QED
    BY <1>1, <2>2, <2>3, <2>4, FollowsStays
<1>4. ASSUME NEW p \in Positions, NEW d \in DecisionIds, NEW kind \in Kinds, Fresh(d),
             decisions' = [decisions EXCEPT ![d] = Requested(kind, p)]
      PROVE  RowsEnd
  <2>1. /\ decisions'[d] = Requested(kind, p) /\ Requested(kind, p).heir = NoDecision
        /\ \A e \in DecisionIds : e # d => decisions'[e] = decisions[e]
        /\ decisions[d].status = "absent" /\ NoDecision \notin DecisionIds
    BY <1>1, <1>4, RequestedType DEF DecisionTypeOK, Fresh, DecisionIds, NoDecision
  <2> SUFFICES ASSUME NEW e \in DecisionIds
               PROVE  /\ Over(e) => Over(e)'
                      /\ decisions[e].status # "absent" => decisions'[e].from = decisions[e].from
                      /\ \A s \in DecisionIds : decisions'[e].heir = s => decisions[e].heir = s \/ Over(s)'
    BY DEF RowsEnd
  <2>2. QED
    BY <2>1 DEF Over
<1>5. ASSUME NEW p \in Positions, NEW d \in DecisionIds, NEW kind \in Kinds,
             Request(p, d, kind) \/ Intercept(p, d)
      PROVE  FollowInv'
  <2>1. Turn(p) \in Turns /\ Turn(p).status = "running" /\ UNCHANGED queue
    BY <1>1, <1>5, LatestTurn DEF Request, Intercept, Turns
  <2>2. RowsEnd
    BY <1>4, <1>5 DEF Request, Intercept, Kinds
  <2>3. CASE Request(p, d, kind)
    <3> DEFINE t == [Turn(p) EXCEPT !.asked = d]
    <3>1. t \in Turns /\ t.told = Turn(p).told /\ Becomes(p, t)
      BY <2>1, <2>3, AskingTurn DEF Request
    <3> HIDE DEF t
    <3>2. QED
      BY <1>1, <2>1, <2>2, <3>1, LatestStays, FollowsStays
  <2>4. CASE Intercept(p, d)
    <3> DEFINE t == [Ended(Turn(p)) EXCEPT !.status = "blocked", !.on = d]
    <3>1. t \in Turns /\ Becomes(p, t)
      BY <2>1, <2>4, BlockedTurn DEF Intercept
    <3>2. t.told = Turn(p).told
      BY <2>1 DEF Ended, Turns, TurnRecords
    <3> HIDE DEF t
    <3>3. QED
      BY <1>1, <2>1, <2>2, <3>1, <3>2, LatestStays, FollowsStays
  <2>5. QED
    BY <1>5, <2>3, <2>4
<1>6. ASSUME NEW d \in DecisionIds, NEW answer \in {"yes", "no"},
             Resolve(d, answer) \/ ResolveDefault(d)
      PROVE  FollowInv'
  <2>1. UNCHANGED <<turns, queue>> /\ decisions[d].status = "open" /\ decisions[d] \in DecisionRows
    BY <1>1, <1>6 DEF Resolve, ResolveDefault, DecisionTypeOK
  <2>2. PICK who \in {"operator", "policy"}, reply \in {"yes", "no"} :
          \/ decisions' = [decisions EXCEPT ![d].status = "superseded"]
          \/ decisions' = [decisions EXCEPT ![d] = Resolved(d, who, reply)]
    BY <1>6 DEF Resolve, ResolveDefault
  <2>3. /\ decisions'[d].from = decisions[d].from /\ decisions'[d].heir = decisions[d].heir
        /\ \A e \in DecisionIds : e # d => decisions'[e] = decisions[e]
    <3>1. CASE decisions' = [decisions EXCEPT ![d].status = "superseded"]
      BY <1>1, <2>1, <3>1 DEF DecisionTypeOK, DecisionRows
    <3>2. CASE decisions' = [decisions EXCEPT ![d] = Resolved(d, who, reply)]
      <4>1. /\ decisions'[d] = Resolved(d, who, reply)
            /\ \A e \in DecisionIds : e # d => decisions'[e] = decisions[e]
        BY <1>1, <3>2 DEF DecisionTypeOK
      <4>2. QED
        BY <1>1, <4>1, ResolvedType
    <3>3. QED
      BY <2>2, <3>1, <3>2
  <2>4. RowsEnd
    BY <2>1, <2>3 DEF RowsEnd, Over
  <2>5. TurnsStay
    BY <2>1 DEF TurnsStay, Last
  <2>6. QED
    BY <1>1, <2>1, <2>4, <2>5, FollowsStays
<1>7. ASSUME NEW d \in DecisionIds, NEW s \in DecisionIds, Supersede(d, s)
      PROVE  FollowInv'
  <2> DEFINE heir == [Absent EXCEPT !.status = "resolved", !.by = "operator", !.answer = "no"]
             old == [decisions[d] EXCEPT !.status = "superseded", !.heir = s]
  <2>1. /\ decisions[d].status = "resolved" /\ decisions[s].status = "absent"
        /\ decisions[d] \in DecisionRows
    BY <1>1, <1>7 DEF Supersede, Fresh, DecisionTypeOK
  <2>2. /\ decisions'[s] = heir /\ decisions'[d] = old
        /\ \A e \in DecisionIds : e \notin {s, d} => decisions'[e] = decisions[e]
    BY <1>1, <1>7, <2>1 DEF Supersede, DecisionTypeOK
  <2>3. heir.status = "resolved" /\ heir.heir = NoDecision
    BY DEF Absent
  <2>4. old.status = "superseded" /\ old.heir = s /\ old.from = decisions[d].from
    BY <2>1 DEF DecisionRows
  <2> HIDE DEF heir, old
  <2>5. RowsEnd
    <3> SUFFICES ASSUME NEW e \in DecisionIds
                 PROVE  /\ Over(e) => Over(e)'
                        /\ decisions[e].status # "absent" => decisions'[e].from = decisions[e].from
                        /\ \A x \in DecisionIds : decisions'[e].heir = x => decisions[e].heir = x \/ Over(x)'
      BY DEF RowsEnd
    <3>1. NoDecision \notin DecisionIds
      BY DEF DecisionIds, NoDecision
    <3>2. QED
      BY <2>1, <2>2, <2>3, <2>4, <3>1 DEF Over
  <2>6. TurnsStay /\ \A e \in queue' : e \in queue \/ e = s
    BY <1>7 DEF Supersede, TurnsStay, Last
  <2>7. Over(s)'
    BY <2>2, <2>3 DEF Over
  <2>8. QED
    BY <1>1, <2>5, <2>6, <2>7, FollowsStays
<1>8. CASE Crash
  <2>1. UNCHANGED <<decisions, queue>> /\ \A q \in Positions : Last(q)' = Last(q)
    BY <1>1, <1>8, CrashDrops DEF Crash, Last
  <2>2. \A q \in Positions : \A n \in 1..Last(q) :
          /\ turns'[q][n].told = turns[q][n].told /\ turns'[q][n].on = turns[q][n].on
          /\ turns[q][n].status = "running" \/ turns'[q][n].status = turns[q][n].status
    BY <1>1, <1>8, CrashDrops, TurnsTyped DEF Dropped
  <2>3. RowsEnd /\ TurnsStay
    BY <2>1, <2>2 DEF RowsEnd, TurnsStay, Over
  <2>4. QED
    BY <1>1, <2>1, <2>3, FollowsStays
<1>9. CASE PrepareTurn
  <2>1. /\ turns' = [turns EXCEPT ![Root] = Append(@, NewTurn(queue))] /\ queue' = {}
        /\ Turn(Root).status = "succeeded" /\ UNCHANGED decisions
        /\ Root \in Positions /\ queue \in SUBSET DecisionIds
    BY <1>1, <1>9, DecisionAssumption DEF PrepareTurn, DecisionAssumption, DecisionTypeOK
  <2>2. \A d \in queue : Over(d) /\ decisions[d].from = Nobody
    BY DEF FollowInv, ToldIsOver, HeardInv, ToldFits
  <2>3. QED
    BY <1>1, <2>1, <2>2, FollowsNext
<1>10. ASSUME NEW p \in Positions, Continue(p)
       PROVE  FollowInv'
  <2> DEFINE e == Turn(p).on
             told == Resolution(e)
  <2>1. /\ Turn(p).status = "blocked" /\ Awaits(p, Last(p)) /\ UNCHANGED <<decisions, queue>>
        /\ turns' = [turns EXCEPT ![p] = Append(@, NewTurn(told))] /\ decisions[e].status # "open"
    BY <1>10 DEF Continue, Continuable, Awaits, Turn
  <2>2. e \in DecisionIds /\ told \in SUBSET DecisionIds /\ decisions[e].status # "absent"
    <3>1. Last(p) \in 1..Last(p)
      BY <1>1, LatestTurn
    <3>2. QED
      BY <1>1, <2>1, <3>1, ResolutionExists, TurnAsked DEF Turn
  <2>3. told = {e} \cup ({decisions[e].heir} \ {NoDecision})
    BY DEF Resolution
  <2> HIDE DEF e, told
  <2>4. Over(e)
    BY <1>1, <2>1, <2>2 DEF Over, DecisionTypeOK, DecisionRows
  <2>5. decisions[e].heir # NoDecision => Over(decisions[e].heir) /\ decisions[decisions[e].heir].from = Nobody
    BY <1>1, <2>2, RowsTyped DEF FollowInv, ToldIsOver, HeardInv, HeirsDiffer
  <2>6. \A d \in told : Over(d)
    BY <2>3, <2>4, <2>5
  <2>7. \A d \in DecisionIds : decisions[d].from # Nobody => (d \in told <=> d = e)
    BY <2>3, <2>5
  <2>8. QED
    BY <1>1, <2>1, <2>2, <2>6, <2>7, FollowsNext DEF e
<1>11. CASE UNCHANGED vars
  BY <1>2, <1>11 DEF vars
<1>12. CASE Revise \/ Cancel \/ \E p \in Positions : Refuse(p)
  BY <1>2, <1>12 DEF Revise, Cancel, Refuse
<1>13. "approval" \in Kinds
  BY DEF Kinds
<1>14. QED
  BY <1>3, <1>5, <1>6, <1>7, <1>8, <1>9, <1>10, <1>11, <1>12, <1>13 DEF Next

LEMMA FollowInit == Init => FollowInv
<1> SUFFICES ASSUME Init PROVE FollowInv
  OBVIOUS
<1>1. /\ \A p \in Positions : Last(p) = 1 /\ turns[p][1] = NewTurn({})
      /\ \A d \in DecisionIds : decisions[d] = Absent
      /\ queue = {}
  BY DEF Init, Last
<1>2. NewTurn({}).told = {} /\ Absent.heir = NoDecision
  BY DEF NewTurn, Absent
<1>3. ToldIsOver /\ Answers
  BY <1>1, <1>2 DEF ToldIsOver, Answers, DecisionIds, NoDecision
<1>4. QED
  BY <1>3, HeardInvInit DEF FollowInv

LEMMA AtMostOne ==
  ASSUME NEW S, \A x, y \in S : x = y
  PROVE  IsFiniteSet(S) /\ Cardinality(S) = IF S = {} THEN 0 ELSE 1
<1>1. CASE S = {}
  BY <1>1, FS_EmptySet
<1>2. ASSUME NEW x \in S
      PROVE  IsFiniteSet(S) /\ Cardinality(S) = 1
  <2>1. S = {x}
    BY <1>2
  <2>2. QED
    BY <2>1, FS_Singleton
<1>3. QED
  BY <1>1, <1>2

\* A resolution is told to one turn at most, after the Decision ended; a question's to the turn that
\* continues its requester and to no other; a superseding choice is with the turn that waits, in the
\* queue, or with the turn that heard it (DecisionRequestService.supersede, awaitsContinuation).
THEOREM HeardOnceHolds == Spec => []HeardOnce
<1>1. FollowInv => HeardOnce
  <2> SUFFICES ASSUME FollowInv, HeardInv PROVE HeardOnce
    BY DEF FollowInv
  <2>1. ASSUME NEW x \in Sites
        PROVE  x[1] \in Positions /\ x[2] \in 1..Last(x[1]) /\ x = <<x[1], x[2]>>
    BY DEF Sites
  <2>2. \A p \in Positions : \A n \in 1..Last(p) : <<p, n>> \in Sites
    BY DEF Sites
  <2>3. ASSUME NEW d \in DecisionIds
        PROVE  /\ Cardinality(Hearers(d)) = IF Told(d) THEN 1 ELSE 0
    <3>1. ToldOne(d)
      <4>1. CASE decisions[d].from = Nobody /\ decisions[d].status # "absent"
        <5>1. PICK e \in DecisionIds : decisions[e].heir = d
          BY <4>1 DEF HeardInv, AskedOrHeir
        <5>2. d # NoDecision
          BY DEF DecisionIds, NoDecision
        <5>3. QED
          BY <5>1, <5>2 DEF HeardInv, OneWay
      <4>2. CASE decisions[d].from # Nobody
        <5> SUFFICES ASSUME NEW p \in Positions, NEW q \in Positions,
                            NEW n \in 1..Last(p), NEW m \in 1..Last(q),
                            d \in turns[p][n].told, d \in turns[q][m].told
                     PROVE  p = q /\ n = m
          BY DEF ToldOne
        <5>1. decisions[d].from = <<p, n - 1>> /\ decisions[d].from = <<q, m - 1>>
          BY <4>2 DEF HeardInv, ToldFits
        <5>2. QED
          BY <5>1
      <4>3. CASE decisions[d].status = "absent"
        BY <4>3 DEF HeardInv, ToldFits, ToldOne
      <4>4. QED
        BY <4>1, <4>2, <4>3
    <3>2. \A x, y \in Hearers(d) : x = y
      <4> SUFFICES ASSUME NEW x \in Hearers(d), NEW y \in Hearers(d) PROVE x = y
        OBVIOUS
      <4>1. x \in Sites /\ y \in Sites /\ d \in turns[x[1]][x[2]].told /\ d \in turns[y[1]][y[2]].told
        BY DEF Hearers
      <4>2. x[1] = y[1] /\ x[2] = y[2]
        BY <2>1, <3>1, <4>1 DEF ToldOne
      <4>3. QED
        BY <2>1, <4>1, <4>2
    <3>3. Hearers(d) # {} <=> Told(d)
      <4>1. ASSUME NEW p \in Positions, NEW n \in 1..Last(p), d \in turns[p][n].told
            PROVE  <<p, n>> \in Hearers(d)
        BY <2>2, <4>1 DEF Hearers
      <4>2. ASSUME NEW x \in Hearers(d)
            PROVE  Told(d)
        BY <2>1 DEF Hearers, Told
      <4>3. QED
        BY <4>1, <4>2 DEF Told
    <3>4. QED
      BY <3>2, <3>3, AtMostOne
  <2>4. ASSUME NEW d \in DecisionIds, NEW s, s = decisions[d].heir, s # NoDecision
        PROVE  LET waiting == {x \in Sites : Awaits(x[1], x[2]) /\ turns[x[1]][x[2]].on = d}
               IN  Cardinality(Hearers(s)) + Cardinality(waiting) + (IF s \in queue THEN 1 ELSE 0) = 1
    <3> DEFINE waiting == {x \in Sites : Awaits(x[1], x[2]) /\ turns[x[1]][x[2]].on = d}
    <3>1. ASSUME NEW x \in waiting
          PROVE  /\ decisions[d].from = x
                 /\ WaitsOn(d)
      <4>1. /\ x[1] \in Positions /\ x[2] = Last(x[1]) /\ x = <<x[1], x[2]>>
            /\ Turn(x[1]).status = "blocked" /\ Turn(x[1]).on = d
        BY <2>1 DEF Awaits, Turn
      <4>2. QED
        BY <4>1, TurnBlocks DEF WaitsOn
    <3>2. ASSUME NEW p \in Positions, Turn(p).status = "blocked", Turn(p).on = d
          PROVE  <<p, Last(p)>> \in waiting
      <4>1. Last(p) \in 1..Last(p)
        BY LatestTurn DEF HeardInv
      <4>2. decisions[d].status = "superseded"
        BY <2>4 DEF HeardInv, HeirsDiffer
      <4>3. QED
        BY <2>2, <3>2, <4>1, <4>2 DEF Awaits, Turn
    <3> HIDE DEF waiting
    <3>3. Cardinality(waiting) = IF WaitsOn(d) THEN 1 ELSE 0
      <4>1. waiting # {} <=> WaitsOn(d)
        BY <3>1, <3>2 DEF WaitsOn
      <4>2. QED
        BY <3>1, <4>1, AtMostOne
    <3>4. s \in DecisionIds
      BY <2>4, RowsTyped DEF HeardInv
    <3>5. Cardinality(Hearers(s)) = IF Told(s) THEN 1 ELSE 0
      BY <2>3, <3>4
    <3>6. /\ WaitsOn(d) \/ s \in queue \/ Told(s)
          /\ ~(WaitsOn(d) /\ s \in queue) /\ ~(WaitsOn(d) /\ Told(s)) /\ ~(s \in queue /\ Told(s))
      BY <2>4 DEF HeardInv, OneWay
    <3>7. Cardinality(Hearers(s)) + Cardinality(waiting) + (IF s \in queue THEN 1 ELSE 0) = 1
      BY <3>3, <3>5, <3>6
    <3>8. QED
      BY <3>7 DEF waiting
  <2>5. \A d \in DecisionIds : Cardinality(Hearers(d)) <= 1
    BY <2>3
  <2>6. ASSUME NEW d \in DecisionIds, Hearers(d) # {}
        PROVE  Over(d)
    <3>1. PICK x \in Hearers(d) : TRUE
      BY <2>6
    <3>2. x \in Sites /\ d \in turns[x[1]][x[2]].told
      BY DEF Hearers
    <3>3. QED
      BY <2>1, <3>2 DEF FollowInv, ToldIsOver
  <2>7. ASSUME NEW d \in DecisionIds, decisions[d].from # Nobody, NEW x \in Sites
        PROVE  x \in Hearers(d) <=> Continuation(x[1], x[2], d)
    <3>1. x[1] \in Positions /\ x[2] \in 1..Last(x[1]) /\ Last(x[1]) \in Nat
      BY <2>1, LatestTurn DEF HeardInv
    <3>2. x \in Hearers(d) <=> d \in turns[x[1]][x[2]].told
      BY DEF Hearers
    <3>3. CASE x[2] \in 2..Last(x[1])
      BY <2>7, <3>1, <3>2, <3>3 DEF FollowInv, Answers
    <3>4. CASE x[2] = 1
      <4>1. ~Continuation(x[1], x[2], d)
        BY <3>4 DEF Continuation
      <4>2. d \notin turns[x[1]][x[2]].told
        <5>1. d \in turns[x[1]][x[2]].told => decisions[d].from = <<x[1], 0>> /\ decisions[d].status # "absent"
          BY <2>7, <3>1, <3>4 DEF HeardInv, ToldFits
        <5>2. decisions[d].status # "absent" => decisions[d].from[2] >= 1
          BY <2>7, RowsTyped DEF HeardInv, AskedOrHeir
        <5>3. QED
          BY <5>1, <5>2
      <4>3. QED
        BY <3>2, <4>1, <4>2
    <3>5. QED
      BY <3>1, <3>3, <3>4
  <2>8. QED
    BY <2>4, <2>5, <2>6, <2>7 DEF HeardOnce, Over
<1>2. QED
  BY <1>1, FollowInit, FollowStep, PTL DEF Spec

=============================================================================
