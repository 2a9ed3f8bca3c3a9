--------------------------- MODULE PersistenceProofs ---------------------------
(***************************************************************************)
(* What is persisted and told of it, for every value of the constants.     *)
(*                                                                         *)
(* Storage: rows and content stay together.  What each stand of the        *)
(* process knows of the disk (Knows) is the part of the inductive          *)
(* invariant the properties lack.                                          *)
(*                                                                         *)
(* EventStream: the browser is told every Event once and in order.  What   *)
(* lies on its line accounts for exactly the Events in scope from the      *)
(* sequence it noted (Chain).                                              *)
(*                                                                         *)
(* Budgets: a Run's accounts are sums over its reservations.  What a sum   *)
(* over a finite set does when its values change is proved first, of the   *)
(* smallest set it could be wrong of; which statuses hold a reservation    *)
(* (BudgetInv) is the inductive invariant.                                 *)
(***************************************************************************)
EXTENDS Storage, EventStream, Budgets, SequenceTheorems, FiniteSetTheorems, WellFoundedInduction, TLAPS

InWork == at \in {"open", "marked", "written"}
MadeDigests == {DigestOf[a] : a \in made}

\* The rows of the transaction have their blobs, and a transaction under way that is
\* not doomed inserted the row of every blob it wrote.
WorkKnows ==
  /\ ~InWork => made = {}
  /\ MadeDigests \subseteq blobs \cup lost
  /\ (InWork /\ ~doomed) => \A i \in 1..Len(hooks) : hooks[i].owned => hooks[i].digest \in MadeDigests

\* While bytes are stored their digest has a marker and no blob.
PutKnows ==
  at \in {"marked", "written"} =>
    putting \in Artifacts /\ DigestOf[putting] \notin blobs /\ DigestOf[putting] \in markers

\* A marker is removed only once its blob is gone or referenced.
HooksKnow ==
  /\ at = "settling" => \A i \in 1..Len(hooks) : hooks[i].owned => hooks[i].digest \in Referenced
  /\ at = "withdrawing" =>
       hooks # <<>> /\ (Last.owned => Last.digest \notin blobs \ Referenced)
  /\ at \in {"idle", "down", "recovering", "resolving", "incomplete"} => hooks = <<>>
  /\ at = "resolving" => putting \in Artifacts /\ DigestOf[putting] \notin blobs \ Referenced

Knows == WorkKnows /\ PutKnows /\ HooksKnow

StorageInv == StorageTypeOK /\ ReferencesResolve /\ OrphansMarked /\ Knows

-----------------------------------------------------------------------------
\* What dropping the last hook leaves.
LEMMA EarlierHooks ==
  ASSUME NEW S, NEW q \in Seq(S), q # <<>>
  PROVE  /\ SubSeq(q, 1, Len(q) - 1) \in Seq(S)
         /\ q[Len(q)] \in S
  <1>1. Len(q) \in Nat /\ Len(q) > 0
    BY EmptySeq, LenProperties
  <1>2. \A i \in 1..Len(q) - 1 : q[i] \in S
    BY <1>1, ElementOfSeq
  <1>3. SubSeq(q, 1, Len(q) - 1) \in Seq(S)
    BY <1>1, <1>2, SubSeqProperties
  <1> QED
    BY <1>1, <1>3, ElementOfSeq

LEMMA BeginKeeps ==
  ASSUME StorageInv, Begin
  PROVE  StorageInv'
  <1> USE StorageAssumption DEF StorageInv, Knows, disk, memory
  <1>1. StorageTypeOK'
    BY DEF StorageTypeOK, Stands, Hooks, Begin
  <1>2. ReferencesResolve'
    BY DEF StorageTypeOK, ReferencesResolve, Referenced, WorkKnows, InWork, MadeDigests, Begin
  <1>3. OrphansMarked'
    BY DEF StorageTypeOK, Hooks, OrphansMarked, Referenced, PutKnows, HooksKnow, Begin
  <1>4. WorkKnows'
    BY DEF StorageTypeOK, Hooks, WorkKnows, InWork, MadeDigests, PutKnows, HooksKnow, Begin
  <1>5. PutKnows'
    BY DEF StorageTypeOK, PutKnows, Begin
  <1>6. HooksKnow'
    BY DEF StorageTypeOK, Hooks, HooksKnow, Referenced, Last, WorkKnows, InWork, MadeDigests, Begin
  <1> QED
    BY <1>1, <1>2, <1>3, <1>4, <1>5, <1>6

LEMMA NestKeeps ==
  ASSUME StorageInv, Nest
  PROVE  StorageInv'
  <1> USE StorageAssumption DEF StorageInv, Knows, disk, memory
  <1>1. StorageTypeOK'
    BY DEF StorageTypeOK, Stands, Hooks, Nest
  <1>2. ReferencesResolve'
    BY DEF StorageTypeOK, ReferencesResolve, Referenced, WorkKnows, InWork, MadeDigests, Nest
  <1>3. OrphansMarked'
    BY DEF StorageTypeOK, Hooks, OrphansMarked, Referenced, PutKnows, HooksKnow, Nest
  <1>4. WorkKnows'
    BY DEF StorageTypeOK, Hooks, WorkKnows, InWork, MadeDigests, PutKnows, HooksKnow, Nest
  <1>5. PutKnows'
    BY DEF StorageTypeOK, PutKnows, Nest
  <1>6. HooksKnow'
    BY DEF StorageTypeOK, Hooks, HooksKnow, Referenced, Last, WorkKnows, InWork, MadeDigests, Nest
  <1> QED
    BY <1>1, <1>2, <1>3, <1>4, <1>5, <1>6

LEMMA UnnestKeeps ==
  ASSUME StorageInv, Unnest
  PROVE  StorageInv'
  <1> USE StorageAssumption DEF StorageInv, Knows, disk, memory
  <1>1. StorageTypeOK'
    BY DEF StorageTypeOK, Stands, Hooks, Unnest
  <1>2. ReferencesResolve'
    BY DEF StorageTypeOK, ReferencesResolve, Referenced, WorkKnows, InWork, MadeDigests, Unnest
  <1>3. OrphansMarked'
    BY DEF StorageTypeOK, Hooks, OrphansMarked, Referenced, PutKnows, HooksKnow, Unnest
  <1>4. WorkKnows'
    BY DEF StorageTypeOK, Hooks, WorkKnows, InWork, MadeDigests, PutKnows, HooksKnow, Unnest
  <1>5. PutKnows'
    BY DEF StorageTypeOK, PutKnows, Unnest
  <1>6. HooksKnow'
    BY DEF StorageTypeOK, Hooks, HooksKnow, Referenced, Last, WorkKnows, InWork, MadeDigests, Unnest
  <1> QED
    BY <1>1, <1>2, <1>3, <1>4, <1>5, <1>6

LEMMA NestedFailsKeeps ==
  ASSUME StorageInv, NestedFails
  PROVE  StorageInv'
  <1> USE StorageAssumption DEF StorageInv, Knows, disk, memory
  <1>1. StorageTypeOK'
    BY DEF StorageTypeOK, Stands, Hooks, NestedFails
  <1>2. ReferencesResolve'
    BY DEF StorageTypeOK, ReferencesResolve, Referenced, WorkKnows, InWork, MadeDigests, NestedFails
  <1>3. OrphansMarked'
    BY DEF StorageTypeOK, Hooks, OrphansMarked, Referenced, PutKnows, HooksKnow, NestedFails
  <1>4. WorkKnows'
    BY DEF StorageTypeOK, Hooks, WorkKnows, InWork, MadeDigests, PutKnows, HooksKnow, NestedFails
  <1>5. PutKnows'
    BY DEF StorageTypeOK, PutKnows, NestedFails
  <1>6. HooksKnow'
    BY DEF StorageTypeOK, Hooks, HooksKnow, Referenced, Last, WorkKnows, InWork, MadeDigests, NestedFails
  <1> QED
    BY <1>1, <1>2, <1>3, <1>4, <1>5, <1>6

LEMMA CommitKeeps ==
  ASSUME StorageInv, Commit
  PROVE  StorageInv'
  <1> USE StorageAssumption DEF StorageInv, Knows, disk, memory
  <1>1. StorageTypeOK'
    BY DEF StorageTypeOK, Stands, Hooks, Commit
  <1>2. ReferencesResolve'
    BY DEF StorageTypeOK, ReferencesResolve, Referenced, WorkKnows, InWork, MadeDigests, Commit
  <1>3. OrphansMarked'
    BY DEF StorageTypeOK, Hooks, OrphansMarked, Referenced, PutKnows, HooksKnow, Commit
  <1>4. WorkKnows'
    BY DEF StorageTypeOK, Hooks, WorkKnows, InWork, MadeDigests, PutKnows, HooksKnow, Commit
  <1>5. PutKnows'
    BY DEF StorageTypeOK, PutKnows, Commit
  <1>6. HooksKnow'
    BY DEF StorageTypeOK, Hooks, HooksKnow, Referenced, Last, WorkKnows, InWork, MadeDigests, Commit
  <1> QED
    BY <1>1, <1>2, <1>3, <1>4, <1>5, <1>6

LEMMA RollbackKeeps ==
  ASSUME StorageInv, Rollback
  PROVE  StorageInv'
  <1> USE StorageAssumption DEF StorageInv, Knows, disk, memory
  <1>1. StorageTypeOK'
    BY DEF StorageTypeOK, Stands, Hooks, Rollback
  <1>2. ReferencesResolve'
    BY DEF StorageTypeOK, ReferencesResolve, Referenced, WorkKnows, InWork, MadeDigests, Rollback
  <1>3. OrphansMarked'
    BY DEF StorageTypeOK, Hooks, OrphansMarked, Referenced, PutKnows, HooksKnow, Rollback
  <1>4. WorkKnows'
    BY DEF StorageTypeOK, Hooks, WorkKnows, InWork, MadeDigests, PutKnows, HooksKnow, Rollback
  <1>5. PutKnows'
    BY DEF StorageTypeOK, PutKnows, Rollback
  <1>6. HooksKnow'
    BY DEF StorageTypeOK, Hooks, HooksKnow, Referenced, Last, WorkKnows, InWork, MadeDigests, Rollback
  <1> QED
    BY <1>1, <1>2, <1>3, <1>4, <1>5, <1>6

LEMMA ReuseKeeps ==
  ASSUME StorageInv, NEW a \in Artifacts, Reuse(a)
  PROVE  StorageInv'
  <1> USE StorageAssumption DEF StorageInv, Knows, disk, memory
  <1>1. StorageTypeOK'
    BY DEF StorageTypeOK, Stands, Hooks, Reuse, Creates, Inserts, Hook
  <1>2. ReferencesResolve'
    BY DEF StorageTypeOK, ReferencesResolve, Referenced, WorkKnows, InWork, MadeDigests, Reuse, Creates, Inserts, Hook
  <1>3. OrphansMarked'
    BY DEF StorageTypeOK, Hooks, OrphansMarked, Referenced, PutKnows, HooksKnow, Reuse, Creates, Inserts, Hook
  <1>4. WorkKnows'
    BY DEF StorageTypeOK, Hooks, WorkKnows, InWork, MadeDigests, PutKnows, HooksKnow, Reuse, Creates, Inserts, Hook
  <1>5. PutKnows'
    BY DEF StorageTypeOK, PutKnows, Reuse, Creates, Inserts, Hook
  <1>6. HooksKnow'
    BY DEF StorageTypeOK, Hooks, HooksKnow, Referenced, Last, WorkKnows, InWork, MadeDigests, Reuse, Creates, Inserts, Hook
  <1> QED
    BY <1>1, <1>2, <1>3, <1>4, <1>5, <1>6

LEMMA MarkKeeps ==
  ASSUME StorageInv, NEW a \in Artifacts, Mark(a)
  PROVE  StorageInv'
  <1> USE StorageAssumption DEF StorageInv, Knows, disk, memory
  <1>1. StorageTypeOK'
    BY DEF StorageTypeOK, Stands, Hooks, Mark, Creates
  <1>2. ReferencesResolve'
    BY DEF StorageTypeOK, ReferencesResolve, Referenced, WorkKnows, InWork, MadeDigests, Mark, Creates
  <1>3. OrphansMarked'
    BY DEF StorageTypeOK, Hooks, OrphansMarked, Referenced, PutKnows, HooksKnow, Mark, Creates
  <1>4. WorkKnows'
    BY DEF StorageTypeOK, Hooks, WorkKnows, InWork, MadeDigests, PutKnows, HooksKnow, Mark, Creates
  <1>5. PutKnows'
    BY DEF StorageTypeOK, PutKnows, Mark, Creates
  <1>6. HooksKnow'
    BY DEF StorageTypeOK, Hooks, HooksKnow, Referenced, Last, WorkKnows, InWork, MadeDigests, Mark, Creates
  <1> QED
    BY <1>1, <1>2, <1>3, <1>4, <1>5, <1>6

LEMMA PutRefusedKeeps ==
  ASSUME StorageInv, NEW a \in Artifacts, PutRefused(a)
  PROVE  StorageInv'
  <1> USE StorageAssumption DEF StorageInv, Knows, disk, memory
  <1>1. StorageTypeOK'
    BY DEF StorageTypeOK, Stands, Hooks, PutRefused, Creates, Hook
  <1>2. ReferencesResolve'
    BY DEF StorageTypeOK, ReferencesResolve, Referenced, WorkKnows, InWork, MadeDigests, PutRefused, Creates, Hook
  <1>3. OrphansMarked'
    BY DEF StorageTypeOK, Hooks, OrphansMarked, Referenced, PutKnows, HooksKnow, PutRefused, Creates, Hook
  <1>4. WorkKnows'
    BY DEF StorageTypeOK, Hooks, WorkKnows, InWork, MadeDigests, PutKnows, HooksKnow, PutRefused, Creates, Hook
  <1>5. PutKnows'
    BY DEF StorageTypeOK, PutKnows, PutRefused, Creates, Hook
  <1>6. HooksKnow'
    BY DEF StorageTypeOK, Hooks, HooksKnow, Referenced, Last, WorkKnows, InWork, MadeDigests, PutRefused, Creates, Hook
  <1> QED
    BY <1>1, <1>2, <1>3, <1>4, <1>5, <1>6

LEMMA ResolveBlobKeeps ==
  ASSUME StorageInv, NEW a \in Artifacts, ResolveBlob(a)
  PROVE  StorageInv'
  <1> USE StorageAssumption DEF StorageInv, Knows, disk, memory
  <1>1. StorageTypeOK'
    BY DEF StorageTypeOK, Stands, Hooks, ResolveBlob
  <1>2. ReferencesResolve'
    BY DEF StorageTypeOK, ReferencesResolve, Referenced, WorkKnows, InWork, MadeDigests, ResolveBlob
  <1>3. OrphansMarked'
    BY DEF StorageTypeOK, Hooks, OrphansMarked, Referenced, PutKnows, HooksKnow, ResolveBlob
  <1>4. WorkKnows'
    BY DEF StorageTypeOK, Hooks, WorkKnows, InWork, MadeDigests, PutKnows, HooksKnow, ResolveBlob
  <1>5. PutKnows'
    BY DEF StorageTypeOK, PutKnows, ResolveBlob
  <1>6. HooksKnow'
    BY DEF StorageTypeOK, Hooks, HooksKnow, Referenced, Last, WorkKnows, InWork, MadeDigests, ResolveBlob
  <1> QED
    BY <1>1, <1>2, <1>3, <1>4, <1>5, <1>6

LEMMA WriteTemporaryKeeps ==
  ASSUME StorageInv, WriteTemporary
  PROVE  StorageInv'
  <1> USE StorageAssumption DEF StorageInv, Knows, disk, memory
  <1>1. StorageTypeOK'
    BY DEF StorageTypeOK, Stands, Hooks, WriteTemporary, Digest, PutKnows
  <1>2. ReferencesResolve'
    BY DEF StorageTypeOK, ReferencesResolve, Referenced, WorkKnows, InWork, MadeDigests, WriteTemporary, Digest
  <1>3. OrphansMarked'
    BY DEF StorageTypeOK, Hooks, OrphansMarked, Referenced, PutKnows, HooksKnow, WriteTemporary, Digest
  <1>4. WorkKnows'
    BY DEF StorageTypeOK, Hooks, WorkKnows, InWork, MadeDigests, PutKnows, HooksKnow, WriteTemporary, Digest
  <1>5. PutKnows'
    BY DEF StorageTypeOK, PutKnows, WriteTemporary, Digest
  <1>6. HooksKnow'
    BY DEF StorageTypeOK, Hooks, HooksKnow, Referenced, Last, WorkKnows, InWork, MadeDigests, WriteTemporary, Digest
  <1> QED
    BY <1>1, <1>2, <1>3, <1>4, <1>5, <1>6

LEMMA PublishKeeps ==
  ASSUME StorageInv, Publish
  PROVE  StorageInv'
  <1> USE StorageAssumption DEF StorageInv, Knows, disk, memory
  <1>1. StorageTypeOK'
    BY DEF StorageTypeOK, Stands, Hooks, Publish, Digest, LeavePut, Inserts, Hook, PutKnows
  <1>2. ReferencesResolve'
    BY DEF StorageTypeOK, ReferencesResolve, Referenced, WorkKnows, InWork, MadeDigests, Publish, Digest, LeavePut, Inserts, Hook
  <1>3. OrphansMarked'
    BY DEF StorageTypeOK, Hooks, OrphansMarked, Referenced, PutKnows, HooksKnow, Publish, Digest, LeavePut, Inserts, Hook
  <1>4. WorkKnows'
    BY DEF StorageTypeOK, Hooks, WorkKnows, InWork, MadeDigests, PutKnows, HooksKnow, Publish, Digest, LeavePut, Inserts, Hook
  <1>5. PutKnows'
    BY DEF StorageTypeOK, PutKnows, Publish, Digest, LeavePut, Inserts, Hook
  <1>6. HooksKnow'
    BY DEF StorageTypeOK, Hooks, HooksKnow, Referenced, Last, WorkKnows, InWork, MadeDigests, Publish, Digest, LeavePut, Inserts, Hook
  <1> QED
    BY <1>1, <1>2, <1>3, <1>4, <1>5, <1>6

LEMMA PublishRefusedKeeps ==
  ASSUME StorageInv, PublishRefused
  PROVE  StorageInv'
  <1> USE StorageAssumption DEF StorageInv, Knows, disk, memory
  <1>1. StorageTypeOK'
    BY DEF StorageTypeOK, Stands, Hooks, PublishRefused, Digest, LeavePut, Throws, Hook, PutKnows
  <1>2. ReferencesResolve'
    BY DEF StorageTypeOK, ReferencesResolve, Referenced, WorkKnows, InWork, MadeDigests, PublishRefused, Digest, LeavePut, Throws, Hook
  <1>3. OrphansMarked'
    BY DEF StorageTypeOK, Hooks, OrphansMarked, Referenced, PutKnows, HooksKnow, PublishRefused, Digest, LeavePut, Throws, Hook
  <1>4. WorkKnows'
    BY DEF StorageTypeOK, Hooks, WorkKnows, InWork, MadeDigests, PutKnows, HooksKnow, PublishRefused, Digest, LeavePut, Throws, Hook
  <1>5. PutKnows'
    BY DEF StorageTypeOK, PutKnows, PublishRefused, Digest, LeavePut, Throws, Hook
  <1>6. HooksKnow'
    BY DEF StorageTypeOK, Hooks, HooksKnow, Referenced, Last, WorkKnows, InWork, MadeDigests, PublishRefused, Digest, LeavePut, Throws, Hook
  <1> QED
    BY <1>1, <1>2, <1>3, <1>4, <1>5, <1>6

LEMMA PutFailsKeeps ==
  ASSUME StorageInv, PutFails
  PROVE  StorageInv'
  <1> USE StorageAssumption DEF StorageInv, Knows, disk, memory
  <1>1. StorageTypeOK'
    BY DEF StorageTypeOK, Stands, Hooks, PutFails, Digest, LeavePut, Throws, Hook, PutKnows
  <1>2. ReferencesResolve'
    BY DEF StorageTypeOK, ReferencesResolve, Referenced, WorkKnows, InWork, MadeDigests, PutFails, Digest, LeavePut, Throws, Hook
  <1>3. OrphansMarked'
    BY DEF StorageTypeOK, Hooks, OrphansMarked, Referenced, PutKnows, HooksKnow, PutFails, Digest, LeavePut, Throws, Hook
  <1>4. WorkKnows'
    BY DEF StorageTypeOK, Hooks, WorkKnows, InWork, MadeDigests, PutKnows, HooksKnow, PutFails, Digest, LeavePut, Throws, Hook
  <1>5. PutKnows'
    BY DEF StorageTypeOK, PutKnows, PutFails, Digest, LeavePut, Throws, Hook
  <1>6. HooksKnow'
    BY DEF StorageTypeOK, Hooks, HooksKnow, Referenced, Last, WorkKnows, InWork, MadeDigests, PutFails, Digest, LeavePut, Throws, Hook
  <1> QED
    BY <1>1, <1>2, <1>3, <1>4, <1>5, <1>6

LEMMA SettleKeeps ==
  ASSUME StorageInv, Settle
  PROVE  StorageInv'
  <1> USE StorageAssumption DEF StorageInv, Knows, disk, memory
  <1>1. StorageTypeOK'
    BY DEF StorageTypeOK, Stands, Hooks, Settle
  <1>2. ReferencesResolve'
    BY DEF StorageTypeOK, ReferencesResolve, Referenced, WorkKnows, InWork, MadeDigests, Settle
  <1>3. OrphansMarked'
    BY DEF StorageTypeOK, Hooks, OrphansMarked, Referenced, PutKnows, HooksKnow, Settle
  <1>4. WorkKnows'
    BY DEF StorageTypeOK, Hooks, WorkKnows, InWork, MadeDigests, PutKnows, HooksKnow, Settle
  <1>5. PutKnows'
    BY DEF StorageTypeOK, PutKnows, Settle
  <1>6. HooksKnow'
    <2>1. \A i \in 1..Len(Tail(hooks)) : i + 1 \in 1..Len(hooks) /\ Tail(hooks)[i] = hooks[i + 1]
      BY DEF StorageTypeOK, Settle
    <2> QED
      BY <2>1 DEF StorageTypeOK, Hooks, HooksKnow, Referenced, Last, WorkKnows, InWork, MadeDigests, Settle
  <1> QED
    BY <1>1, <1>2, <1>3, <1>4, <1>5, <1>6

LEMMA CompensateKeeps ==
  ASSUME StorageInv, Compensate
  PROVE  StorageInv'
  <1> USE StorageAssumption DEF StorageInv, Knows, disk, memory
  <1>1. StorageTypeOK'
    BY EarlierHooks DEF StorageTypeOK, Stands, Hooks, Compensate, Last
  <1>2. ReferencesResolve'
    BY DEF StorageTypeOK, ReferencesResolve, Referenced, WorkKnows, InWork, MadeDigests, Compensate, Last
  <1>3. OrphansMarked'
    BY EarlierHooks DEF StorageTypeOK, Hooks, OrphansMarked, Referenced, PutKnows, HooksKnow, Compensate, Last
  <1>4. WorkKnows'
    BY EarlierHooks DEF StorageTypeOK, Hooks, WorkKnows, InWork, MadeDigests, PutKnows, HooksKnow, Compensate, Last
  <1>5. PutKnows'
    BY DEF StorageTypeOK, PutKnows, Compensate, Last
  <1>6. HooksKnow'
    BY EarlierHooks DEF StorageTypeOK, Hooks, HooksKnow, Referenced, Last, WorkKnows, InWork, MadeDigests, Compensate, Last
  <1> QED
    BY <1>1, <1>2, <1>3, <1>4, <1>5, <1>6

LEMMA CompensateFailsKeeps ==
  ASSUME StorageInv, CompensateFails
  PROVE  StorageInv'
  <1> USE StorageAssumption DEF StorageInv, Knows, disk, memory
  <1>1. StorageTypeOK'
    BY EarlierHooks DEF StorageTypeOK, Stands, Hooks, CompensateFails, Last, Earlier
  <1>2. ReferencesResolve'
    BY DEF StorageTypeOK, ReferencesResolve, Referenced, WorkKnows, InWork, MadeDigests, CompensateFails, Last, Earlier
  <1>3. OrphansMarked'
    BY EarlierHooks DEF StorageTypeOK, Hooks, OrphansMarked, Referenced, PutKnows, HooksKnow, CompensateFails, Last, Earlier
  <1>4. WorkKnows'
    BY EarlierHooks DEF StorageTypeOK, Hooks, WorkKnows, InWork, MadeDigests, PutKnows, HooksKnow, CompensateFails, Last, Earlier
  <1>5. PutKnows'
    BY DEF StorageTypeOK, PutKnows, CompensateFails, Last, Earlier
  <1>6. HooksKnow'
    BY EarlierHooks DEF StorageTypeOK, Hooks, HooksKnow, Referenced, Last, WorkKnows, InWork, MadeDigests, CompensateFails, Last, Earlier
  <1> QED
    BY <1>1, <1>2, <1>3, <1>4, <1>5, <1>6

LEMMA WithdrawKeeps ==
  ASSUME StorageInv, Withdraw
  PROVE  StorageInv'
  <1> USE StorageAssumption DEF StorageInv, Knows, disk, memory
  <1>1. StorageTypeOK'
    BY EarlierHooks DEF StorageTypeOK, Stands, Hooks, Withdraw, Last, Earlier, HooksKnow
  <1>2. ReferencesResolve'
    BY DEF StorageTypeOK, ReferencesResolve, Referenced, WorkKnows, InWork, MadeDigests, Withdraw, Last, Earlier
  <1>3. OrphansMarked'
    BY EarlierHooks DEF StorageTypeOK, Hooks, OrphansMarked, Referenced, PutKnows, HooksKnow, Withdraw, Last, Earlier
  <1>4. WorkKnows'
    BY EarlierHooks DEF StorageTypeOK, Hooks, WorkKnows, InWork, MadeDigests, PutKnows, HooksKnow, Withdraw, Last, Earlier
  <1>5. PutKnows'
    BY DEF StorageTypeOK, PutKnows, Withdraw, Last, Earlier
  <1>6. HooksKnow'
    BY EarlierHooks DEF StorageTypeOK, Hooks, HooksKnow, Referenced, Last, WorkKnows, InWork, MadeDigests, Withdraw, Last, Earlier
  <1> QED
    BY <1>1, <1>2, <1>3, <1>4, <1>5, <1>6

LEMMA HooksDoneKeeps ==
  ASSUME StorageInv, HooksDone
  PROVE  StorageInv'
  <1> USE StorageAssumption DEF StorageInv, Knows, disk, memory
  <1>1. StorageTypeOK'
    BY DEF StorageTypeOK, Stands, Hooks, HooksDone
  <1>2. ReferencesResolve'
    BY DEF StorageTypeOK, ReferencesResolve, Referenced, WorkKnows, InWork, MadeDigests, HooksDone
  <1>3. OrphansMarked'
    BY DEF StorageTypeOK, Hooks, OrphansMarked, Referenced, PutKnows, HooksKnow, HooksDone
  <1>4. WorkKnows'
    BY DEF StorageTypeOK, Hooks, WorkKnows, InWork, MadeDigests, PutKnows, HooksKnow, HooksDone
  <1>5. PutKnows'
    BY DEF StorageTypeOK, PutKnows, HooksDone
  <1>6. HooksKnow'
    BY DEF StorageTypeOK, Hooks, HooksKnow, Referenced, Last, WorkKnows, InWork, MadeDigests, HooksDone
  <1> QED
    BY <1>1, <1>2, <1>3, <1>4, <1>5, <1>6

LEMMA StartKeeps ==
  ASSUME StorageInv, Start
  PROVE  StorageInv'
  <1> USE StorageAssumption DEF StorageInv, Knows, disk, memory
  <1>1. StorageTypeOK'
    BY DEF StorageTypeOK, Stands, Hooks, Start
  <1>2. ReferencesResolve'
    BY DEF StorageTypeOK, ReferencesResolve, Referenced, WorkKnows, InWork, MadeDigests, Start
  <1>3. OrphansMarked'
    BY DEF StorageTypeOK, Hooks, OrphansMarked, Referenced, PutKnows, HooksKnow, Start
  <1>4. WorkKnows'
    BY DEF StorageTypeOK, Hooks, WorkKnows, InWork, MadeDigests, PutKnows, HooksKnow, Start
  <1>5. PutKnows'
    BY DEF StorageTypeOK, PutKnows, Start
  <1>6. HooksKnow'
    BY DEF StorageTypeOK, Hooks, HooksKnow, Referenced, Last, WorkKnows, InWork, MadeDigests, Start
  <1> QED
    BY <1>1, <1>2, <1>3, <1>4, <1>5, <1>6

LEMMA ResolveMarkerKeeps ==
  ASSUME StorageInv, ResolveMarker
  PROVE  StorageInv'
  <1> USE StorageAssumption DEF StorageInv, Knows, disk, memory
  <1>1. StorageTypeOK'
    BY DEF StorageTypeOK, Stands, Hooks, ResolveMarker, Digest
  <1>2. ReferencesResolve'
    BY DEF StorageTypeOK, ReferencesResolve, Referenced, WorkKnows, InWork, MadeDigests, ResolveMarker, Digest
  <1>3. OrphansMarked'
    BY DEF StorageTypeOK, Hooks, OrphansMarked, Referenced, PutKnows, HooksKnow, ResolveMarker, Digest
  <1>4. WorkKnows'
    BY DEF StorageTypeOK, Hooks, WorkKnows, InWork, MadeDigests, PutKnows, HooksKnow, ResolveMarker, Digest
  <1>5. PutKnows'
    BY DEF StorageTypeOK, PutKnows, ResolveMarker, Digest
  <1>6. HooksKnow'
    BY DEF StorageTypeOK, Hooks, HooksKnow, Referenced, Last, WorkKnows, InWork, MadeDigests, ResolveMarker, Digest
  <1> QED
    BY <1>1, <1>2, <1>3, <1>4, <1>5, <1>6

LEMMA ReconcileFailsKeeps ==
  ASSUME StorageInv, ReconcileFails
  PROVE  StorageInv'
  <1> USE StorageAssumption DEF StorageInv, Knows, disk, memory
  <1>1. StorageTypeOK'
    BY DEF StorageTypeOK, Stands, Hooks, ReconcileFails
  <1>2. ReferencesResolve'
    BY DEF StorageTypeOK, ReferencesResolve, Referenced, WorkKnows, InWork, MadeDigests, ReconcileFails
  <1>3. OrphansMarked'
    BY DEF StorageTypeOK, Hooks, OrphansMarked, Referenced, PutKnows, HooksKnow, ReconcileFails
  <1>4. WorkKnows'
    BY DEF StorageTypeOK, Hooks, WorkKnows, InWork, MadeDigests, PutKnows, HooksKnow, ReconcileFails
  <1>5. PutKnows'
    BY DEF StorageTypeOK, PutKnows, ReconcileFails
  <1>6. HooksKnow'
    BY DEF StorageTypeOK, Hooks, HooksKnow, Referenced, Last, WorkKnows, InWork, MadeDigests, ReconcileFails
  <1> QED
    BY <1>1, <1>2, <1>3, <1>4, <1>5, <1>6

LEMMA AdmitKeeps ==
  ASSUME StorageInv, Admit
  PROVE  StorageInv'
  <1> USE StorageAssumption DEF StorageInv, Knows, disk, memory
  <1>1. StorageTypeOK'
    BY DEF StorageTypeOK, Stands, Hooks, Admit
  <1>2. ReferencesResolve'
    BY DEF StorageTypeOK, ReferencesResolve, Referenced, WorkKnows, InWork, MadeDigests, Admit
  <1>3. OrphansMarked'
    BY DEF StorageTypeOK, Hooks, OrphansMarked, Referenced, PutKnows, HooksKnow, Admit
  <1>4. WorkKnows'
    BY DEF StorageTypeOK, Hooks, WorkKnows, InWork, MadeDigests, PutKnows, HooksKnow, Admit
  <1>5. PutKnows'
    BY DEF StorageTypeOK, PutKnows, Admit
  <1>6. HooksKnow'
    BY DEF StorageTypeOK, Hooks, HooksKnow, Referenced, Last, WorkKnows, InWork, MadeDigests, Admit
  <1> QED
    BY <1>1, <1>2, <1>3, <1>4, <1>5, <1>6

LEMMA CrashKeeps ==
  ASSUME StorageInv, Crash
  PROVE  StorageInv'
  <1> USE StorageAssumption DEF StorageInv, Knows, disk, memory
  <1>1. StorageTypeOK'
    BY EmptySeq DEF StorageTypeOK, Stands, Hooks, Crash
  <1>2. ReferencesResolve'
    BY DEF StorageTypeOK, ReferencesResolve, Referenced, WorkKnows, InWork, MadeDigests, Crash
  <1>3. OrphansMarked'
    BY DEF StorageTypeOK, Hooks, OrphansMarked, Referenced, PutKnows, HooksKnow, Crash
  <1>4. WorkKnows'
    BY DEF StorageTypeOK, Hooks, WorkKnows, InWork, MadeDigests, PutKnows, HooksKnow, Crash
  <1>5. PutKnows'
    BY DEF StorageTypeOK, PutKnows, Crash
  <1>6. HooksKnow'
    BY DEF StorageTypeOK, Hooks, HooksKnow, Referenced, Last, WorkKnows, InWork, MadeDigests, Crash
  <1> QED
    BY <1>1, <1>2, <1>3, <1>4, <1>5, <1>6

LEMMA RemoveTemporaryKeeps ==
  ASSUME StorageInv, NEW d \in Digests, RemoveTemporary(d)
  PROVE  StorageInv'
  <1> USE StorageAssumption DEF StorageInv, Knows, disk, memory
  <1>1. StorageTypeOK'
    BY DEF StorageTypeOK, Stands, Hooks, RemoveTemporary
  <1>2. ReferencesResolve'
    BY DEF StorageTypeOK, ReferencesResolve, Referenced, WorkKnows, InWork, MadeDigests, RemoveTemporary
  <1>3. OrphansMarked'
    BY DEF StorageTypeOK, Hooks, OrphansMarked, Referenced, PutKnows, HooksKnow, RemoveTemporary
  <1>4. WorkKnows'
    BY DEF StorageTypeOK, Hooks, WorkKnows, InWork, MadeDigests, PutKnows, HooksKnow, RemoveTemporary
  <1>5. PutKnows'
    BY DEF StorageTypeOK, PutKnows, RemoveTemporary
  <1>6. HooksKnow'
    BY DEF StorageTypeOK, Hooks, HooksKnow, Referenced, Last, WorkKnows, InWork, MadeDigests, RemoveTemporary
  <1> QED
    BY <1>1, <1>2, <1>3, <1>4, <1>5, <1>6

LEMMA LoseKeeps ==
  ASSUME StorageInv, NEW d \in Digests, Lose(d)
  PROVE  StorageInv'
  <1> USE StorageAssumption DEF StorageInv, Knows, disk, memory
  <1>1. StorageTypeOK'
    BY DEF StorageTypeOK, Stands, Hooks, Lose
  <1>2. ReferencesResolve'
    BY DEF StorageTypeOK, ReferencesResolve, Referenced, WorkKnows, InWork, MadeDigests, Lose
  <1>3. OrphansMarked'
    BY DEF StorageTypeOK, Hooks, OrphansMarked, Referenced, PutKnows, HooksKnow, Lose
  <1>4. WorkKnows'
    BY DEF StorageTypeOK, Hooks, WorkKnows, InWork, MadeDigests, PutKnows, HooksKnow, Lose
  <1>5. PutKnows'
    BY DEF StorageTypeOK, PutKnows, Lose
  <1>6. HooksKnow'
    BY DEF StorageTypeOK, Hooks, HooksKnow, Referenced, Last, WorkKnows, InWork, MadeDigests, Lose
  <1> QED
    BY <1>1, <1>2, <1>3, <1>4, <1>5, <1>6

LEMMA StorageInitially == Init => StorageInv
  <1> SUFFICES ASSUME Init PROVE StorageInv
    OBVIOUS
  <1>1. <<>> \in Seq(Hooks)
    BY EmptySeq
  <1>2. StorageTypeOK
    BY <1>1, StorageAssumption DEF Init, StorageTypeOK, Stands
  <1>3. ReferencesResolve /\ OrphansMarked
    BY DEF Init, ReferencesResolve, OrphansMarked, Referenced
  <1>4. Knows
    BY DEF Init, Knows, WorkKnows, PutKnows, HooksKnow, InWork, MadeDigests
  <1> QED
    BY <1>2, <1>3, <1>4 DEF StorageInv

LEMMA StorageStep == StorageInv /\ [Next]_vars => StorageInv'
  <1> SUFFICES ASSUME StorageInv, [Next]_vars PROVE StorageInv'
    OBVIOUS
  <1>1. CASE UNCHANGED vars
    BY <1>1 DEF StorageInv, StorageTypeOK, ReferencesResolve, OrphansMarked, Referenced, Knows, WorkKnows, PutKnows,
       HooksKnow, InWork, MadeDigests, Last, vars, disk, memory
  <1>2. CASE Next
    BY <1>2, BeginKeeps, NestKeeps, UnnestKeeps, NestedFailsKeeps, CommitKeeps, RollbackKeeps, ReuseKeeps, MarkKeeps, PutRefusedKeeps, ResolveBlobKeeps, WriteTemporaryKeeps, PublishKeeps, PublishRefusedKeeps, PutFailsKeeps, SettleKeeps, CompensateKeeps, CompensateFailsKeeps, WithdrawKeeps, HooksDoneKeeps, StartKeeps, ResolveMarkerKeeps, ReconcileFailsKeeps, AdmitKeeps, CrashKeeps, RemoveTemporaryKeeps, LoseKeeps DEF Next
  <1> QED
    BY <1>1, <1>2

LEMMA StorageInvHolds == Spec => []StorageInv
  BY StorageInitially, StorageStep, PTL DEF Spec

-----------------------------------------------------------------------------
\* Every variable keeps its type (the types StorageTypeOK states).
THEOREM StorageTypes == Spec => []StorageTypeOK
  <1>1. StorageInv => StorageTypeOK
    BY DEF StorageInv
  <1> QED
    BY <1>1, StorageInvHolds, PTL

\* A committed Artifact has its content unless the disk lost it (stores/artifacts.ts),
\* over every failure of put, of a hook or of the reconciliation, and every death.
THEOREM ContentIsKept == Spec => []ReferencesResolve
  <1>1. StorageInv => ReferencesResolve
    BY DEF StorageInv
  <1> QED
    BY <1>1, StorageInvHolds, PTL

\* At every instant a blob nothing committed references has its marker, so the next
\* reconciliation finds it (blob-store.ts, stores/artifacts.ts).
THEOREM OrphansAreFound == Spec => []OrphansMarked
  <1>1. StorageInv => OrphansMarked
    BY DEF StorageInv
  <1> QED
    BY <1>1, StorageInvHolds, PTL

\* Both at once: rows and content account for each other (blob-store.ts, stores/artifacts.ts).
THEOREM ContentIsAccounted == Spec => []ContentAccounted
  <1>1. StorageInv => ContentAccounted
    BY DEF StorageInv, ContentAccounted
  <1> QED
    BY <1>1, StorageInvHolds, PTL

\* Writes are admitted over a store without orphans (boot.ts).
THEOREM AdmissionIsClean == Spec => AdmittedClean
  <1>1. StorageInv /\ [Next]_vars => [(at = "recovering" /\ at' = "idle") => (blobs \subseteq Referenced /\ temps = {})]_vars
    BY DEF StorageInv, StorageTypeOK, Stands, OrphansMarked, vars, disk, memory, Next, Begin, Nest, Unnest, NestedFails, Commit, Rollback,
       Reuse, Mark, PutRefused, Creates, ResolveBlob, WriteTemporary, Publish, PublishRefused, PutFails, LeavePut, Throws, Inserts,
       Settle, Compensate, CompensateFails, Withdraw, HooksDone, Start, ResolveMarker, ReconcileFails, Admit, Crash,
       RemoveTemporary, Lose
  <1> QED
    BY <1>1, StorageInvHolds, PTL DEF Spec, AdmittedClean

-----------------------------------------------------------------------------
(***************************************************************************)
(* EventStream.  The elements of a finite set of numbers in ascending      *)
(* order.                                                                  *)
(***************************************************************************)
LEMMA LeastExists ==
  ASSUME NEW S, S \subseteq Nat, S # {}
  PROVE  \E n \in S : \A m \in S : n <= m
<1>1. PICK n \in S : \A m \in S : ~(<<m, n>> \in OpToRel(<, Nat))
  BY NatLessThanWellFounded, WFMin
<1>2. \A m \in S : ~(m < n)
  BY <1>1 DEF OpToRel
<1>3. QED
  BY <1>2

Rank(S, n) == Cardinality(UpTo(S, n))
FiniteNumbers(S) == S \in SUBSET Nat /\ IsFiniteSet(S)

LEMMA RankTypes ==
  ASSUME NEW S, FiniteNumbers(S)
  PROVE  /\ Cardinality(S) \in Nat /\ \A n \in S : n \in Nat
         /\ \A n \in S : /\ IsFiniteSet(UpTo(S, n)) /\ n \in UpTo(S, n)
                         /\ Rank(S, n) \in Nat /\ 1 <= Rank(S, n) /\ Rank(S, n) <= Cardinality(S)
<1>1. Cardinality(S) \in Nat /\ \A n \in S : n \in Nat
  BY FS_CardinalityType DEF FiniteNumbers
<1>2. ASSUME NEW n \in S
      PROVE  /\ IsFiniteSet(UpTo(S, n)) /\ n \in UpTo(S, n)
             /\ Rank(S, n) \in Nat /\ 1 <= Rank(S, n) /\ Rank(S, n) <= Cardinality(S)
  <2>1. UpTo(S, n) \in SUBSET S /\ n \in UpTo(S, n)
    BY <1>1 DEF UpTo
  <2>2. IsFiniteSet(UpTo(S, n)) /\ Rank(S, n) <= Cardinality(S)
    BY <2>1, FS_Subset DEF FiniteNumbers, Rank
  <2>3. Rank(S, n) \in Nat /\ (Rank(S, n) = 0 <=> UpTo(S, n) = {})
    BY <2>2, FS_CardinalityType, FS_EmptySet DEF Rank
  <2>4. Rank(S, n) # 0
    BY <2>1, <2>3
  <2>5. QED
    BY <2>1, <2>2, <2>3, <2>4
<1>3. QED
  BY <1>1, <1>2

\* A larger element has a larger rank.
LEMMA RankGrows ==
  ASSUME NEW S, FiniteNumbers(S), NEW m \in S, NEW n \in S, m < n
  PROVE  Rank(S, m) < Rank(S, n)
<1>1. m \in Nat /\ n \in Nat /\ \A o \in S : o \in Nat
  BY RankTypes
<1>2. UpTo(S, m) \in SUBSET UpTo(S, n) /\ n \notin UpTo(S, m)
  <2>1. \A o \in S : o <= m => o <= n
    BY <1>1
  <2>2. ~(n <= m)
    BY <1>1
  <2>3. QED
    BY <2>1, <2>2 DEF UpTo
<1>3. IsFiniteSet(UpTo(S, n)) /\ n \in UpTo(S, n) /\ Rank(S, n) \in Nat /\ Rank(S, m) \in Nat
  BY RankTypes
<1>4. UpTo(S, m) # UpTo(S, n)
  BY <1>2, <1>3
<1>5. Rank(S, m) <= Rank(S, n) /\ Rank(S, m) # Rank(S, n)
  BY <1>2, <1>3, <1>4, FS_Subset DEF Rank
<1>6. QED
  BY <1>3, <1>5

LEMMA NextRank ==
  ASSUME NEW S, FiniteNumbers(S), NEW n \in S, Rank(S, n) < Cardinality(S)
  PROVE  \E o \in S : Rank(S, o) = Rank(S, n) + 1
<1> DEFINE above == {m \in S : m > n}
<1>1. n \in Nat /\ Cardinality(S) \in Nat /\ \A o \in S : o \in Nat
  BY RankTypes
<1>2. above # {}
  <2>1. above = {} => UpTo(S, n) = S
    <3>1. \A m \in S : m > n \/ m <= n
      BY <1>1
    <3>2. QED
      BY <3>1 DEF UpTo
  <2>2. UpTo(S, n) # S
    BY <1>1 DEF Rank
  <2>3. QED
    BY <2>1, <2>2
<1>3. above \subseteq Nat /\ above \subseteq S
  BY <1>1
<1>4. PICK o \in above : \A m \in above : o <= m
  BY <1>2, <1>3, LeastExists
<1>5. UpTo(S, o) = UpTo(S, n) \cup {o} /\ o \notin UpTo(S, n)
  <2>1. \A m \in S : m <= o <=> m <= n \/ m = o
    BY <1>1, <1>4
  <2>2. o \in S /\ ~(o <= n)
    BY <1>1, <1>4
  <2>3. QED
    BY <2>1, <2>2 DEF UpTo
<1>6. IsFiniteSet(UpTo(S, n))
  BY RankTypes
<1>7. Rank(S, o) = Rank(S, n) + 1
  BY <1>5, <1>6, FS_AddElement DEF Rank
<1>8. QED
  BY <1>3, <1>4, <1>7

LEMMA NthExists ==
  ASSUME NEW S, FiniteNumbers(S), NEW k \in 1..Cardinality(S)
  PROVE  \E n \in S : Rank(S, n) = k
<1> DEFINE missing == {j \in 1..Cardinality(S) : ~\E n \in S : Rank(S, n) = j}
<1>1. Cardinality(S) \in Nat /\ missing \subseteq Nat /\ \A n \in S : n \in Nat
  BY RankTypes
<1>2. SUFFICES ASSUME missing # {}
               PROVE  FALSE
  OBVIOUS
<1>3. PICK j \in missing : \A i \in missing : j <= i
  BY <1>1, <1>2, LeastExists
<1>4. CASE j = 1
  <2>1. S # {}
    BY <1>1, <1>3, FS_EmptySet
  <2>2. PICK n \in S : \A m \in S : n <= m
    BY <1>1, <2>1, LeastExists
  <2>3. UpTo(S, n) = {n}
    BY <1>1, <2>2 DEF UpTo
  <2>4. Rank(S, n) = 1
    BY <2>3, FS_Singleton DEF Rank
  <2>5. QED
    BY <1>3, <1>4, <2>4
<1>5. CASE j # 1
  <2>1. j \in Nat /\ j <= Cardinality(S) /\ j - 1 \in 1..Cardinality(S) /\ j - 1 \notin missing
    BY <1>1, <1>3, <1>5
  <2>2. PICK n \in S : Rank(S, n) = j - 1
    BY <2>1
  <2>3. Rank(S, n) < Cardinality(S)
    BY <1>1, <2>1, <2>2
  <2>4. PICK o \in S : Rank(S, o) = Rank(S, n) + 1
    BY <2>3, NextRank
  <2>5. Rank(S, o) = j
    BY <2>1, <2>2, <2>4
  <2>6. QED
    BY <1>3, <2>5
<1>6. QED
  BY <1>4, <1>5

LEMMA NthIs ==
  ASSUME NEW S, FiniteNumbers(S), NEW k \in 1..Cardinality(S)
  PROVE  Nth(S, k) \in S /\ Nth(S, k) \in Nat /\ Rank(S, Nth(S, k)) = k
<1>1. Nth(S, k) = CHOOSE n \in S : Rank(S, n) = k
  BY DEF Nth, Rank
<1>2. Nth(S, k) \in S /\ Rank(S, Nth(S, k)) = k
  BY <1>1, NthExists
<1>3. QED
  BY <1>2, RankTypes

\* No element is left out before the first or between two that follow one another.
LEMMA NthFollows ==
  ASSUME NEW S, FiniteNumbers(S), NEW k \in 1..Cardinality(S), NEW m \in S, m < Nth(S, k)
  PROVE  k > 1 /\ m <= Nth(S, k - 1)
<1>1. Nth(S, k) \in S /\ Rank(S, Nth(S, k)) = k /\ Cardinality(S) \in Nat
  BY NthIs, RankTypes
<1>2. Rank(S, m) < k /\ Rank(S, m) \in Nat /\ 1 <= Rank(S, m) /\ m \in Nat
  BY <1>1, RankGrows, RankTypes
<1>3. k > 1 /\ k - 1 \in 1..Cardinality(S)
  BY <1>1, <1>2
<1>4. Nth(S, k - 1) \in S /\ Nth(S, k - 1) \in Nat /\ Rank(S, Nth(S, k - 1)) = k - 1
  BY <1>3, NthIs
<1>5. Nth(S, k - 1) < m => k - 1 < Rank(S, m)
  BY <1>4, RankGrows
<1>6. QED
  BY <1>2, <1>3, <1>4, <1>5

LEMMA NthGrows ==
  ASSUME NEW S, FiniteNumbers(S), NEW k \in 1..Cardinality(S), k > 1
  PROVE  Nth(S, k - 1) < Nth(S, k)
<1>1. Cardinality(S) \in Nat /\ k - 1 \in 1..Cardinality(S) /\ k \in Nat
  BY RankTypes
<1>2. /\ Nth(S, k) \in S /\ Nth(S, k) \in Nat /\ Rank(S, Nth(S, k)) = k
      /\ Nth(S, k - 1) \in S /\ Nth(S, k - 1) \in Nat /\ Rank(S, Nth(S, k - 1)) = k - 1
  BY <1>1, NthIs
<1>3. Nth(S, k) < Nth(S, k - 1) => k < k - 1
  BY <1>2, RankGrows
<1>4. Nth(S, k) = Nth(S, k - 1) => k = k - 1
  BY <1>2
<1>5. QED
  BY <1>1, <1>2, <1>3, <1>4

LEMMA NothingAfterLast ==
  ASSUME NEW S, FiniteNumbers(S), NEW m \in S
  PROVE  Cardinality(S) >= 1 /\ m <= Nth(S, Cardinality(S))
<1>1. /\ Cardinality(S) \in Nat /\ Rank(S, m) \in Nat /\ 1 <= Rank(S, m)
      /\ Rank(S, m) <= Cardinality(S) /\ m \in Nat
  BY RankTypes
<1>2. Cardinality(S) \in 1..Cardinality(S)
  BY <1>1
<1>3. /\ Nth(S, Cardinality(S)) \in S /\ Nth(S, Cardinality(S)) \in Nat
      /\ Rank(S, Nth(S, Cardinality(S))) = Cardinality(S)
  BY <1>2, NthIs
<1>4. Nth(S, Cardinality(S)) < m => Cardinality(S) < Rank(S, m)
  BY <1>3, RankGrows
<1>5. QED
  BY <1>1, <1>3, <1>4

-----------------------------------------------------------------------------
(***************************************************************************)
(* A page.                                                                 *)
(***************************************************************************)
PageLength(l, s) == Len(Page(l, s))

LEMMA PageIs ==
  ASSUME NEW l \in Seq(BOOLEAN), NEW s \in Nat
  PROVE  LET p == Page(l, s)
             wanted == InScope(l, s)
         IN  /\ Len(p) \in Nat /\ Len(p) <= PageSize /\ p \in [1..Len(p) -> wanted]
             /\ p \in Seq(Nat)
             /\ \A k \in 1..Len(p) : k > 1 => p[k - 1] < p[k]
             /\ \A k \in 1..Len(p) : \A m \in wanted : m < p[k] => k > 1 /\ m <= p[k - 1]
             /\ Len(p) < PageSize => \A m \in wanted : Len(p) >= 1 /\ m <= p[Len(p)]
<1> DEFINE wanted == InScope(l, s)
           size == Cardinality(wanted)
           length == IF size > PageSize THEN PageSize ELSE size
           p == Page(l, s)
<1>1. FiniteNumbers(wanted) /\ size \in Nat /\ \A m \in wanted : m \in Nat
  <2>1. DOMAIN l = 1..Len(l) /\ Len(l) \in Nat
    OBVIOUS
  <2>2. IsFiniteSet(DOMAIN l)
    BY <2>1, FS_Interval
  <2>3. wanted \subseteq DOMAIN l
    BY DEF InScope
  <2>4. QED
    BY <2>1, <2>2, <2>3, FS_Subset, FS_CardinalityType DEF FiniteNumbers
<1>2. length \in Nat /\ length <= PageSize /\ length <= size /\ (length < PageSize => length = size)
  BY <1>1, StreamAssumption
<1>3. p = [k \in 1..length |-> Nth(wanted, k)]
  BY DEF Page
<1> HIDE DEF wanted, length
<1>4. \A k \in 1..length : Nth(wanted, k) \in wanted
  BY <1>1, <1>2, NthIs
<1>5. p \in [1..length -> wanted]
  BY <1>3, <1>4
<1>6. Len(p) = length /\ p \in Seq(Nat) /\ \A k \in 1..length : p[k] = Nth(wanted, k)
  BY <1>1, <1>2, <1>3, <1>5
<1> HIDE DEF p
<1>7. \A k \in 1..length : k > 1 => p[k - 1] < p[k]
  BY <1>1, <1>2, <1>6, NthGrows
<1>8. ASSUME NEW k \in 1..length, NEW m \in wanted, m < p[k]
      PROVE  k > 1 /\ m <= p[k - 1]
  <2>1. k \in 1..size /\ m < Nth(wanted, k)
    BY <1>1, <1>2, <1>6, <1>8
  <2>2. k > 1 /\ m <= Nth(wanted, k - 1)
    BY <1>1, <2>1, NthFollows
  <2>3. QED
    BY <1>2, <1>6, <2>2
<1>9. ASSUME length < PageSize, NEW m \in wanted
      PROVE  length >= 1 /\ m <= p[length]
  <2>1. size >= 1 /\ m <= Nth(wanted, size)
    BY <1>1, NothingAfterLast
  <2>2. QED
    BY <1>2, <1>6, <1>9, <2>1
<1>10. QED
  BY <1>2, <1>5, <1>6, <1>7, <1>8, <1>9 DEF p, wanted

-----------------------------------------------------------------------------
(***************************************************************************)
(* What a line of frames says to a reader that has noted s: each frame     *)
(* accounts for exactly the Events in scope since the one before it.       *)
(***************************************************************************)
Frames == [kind : {"connected", "event", "caught_up"}, seq : Nat]

Between(l, from, to) == {n \in DOMAIN l : from < n /\ n <= to /\ l[n]}
Said(frame) == IF frame.kind = "event" THEN {frame.seq} ELSE {}
Link(l, from, frame) ==
  from <= frame.seq /\ frame.seq <= Len(l) /\ Between(l, from, frame.seq) = Said(frame)

\* The sequence a reader has noted once it read the first k frames.
Noted(w, k, s) == IF k = 0 \/ w[k].kind = "connected" THEN s ELSE w[k].seq
End(w, s) == Noted(w, Len(w), s)

Chain(l, w, s) ==
  \A k \in 1..Len(w) :
    IF w[k].kind = "connected" THEN k = 1 ELSE Link(l, Noted(w, k - 1, s), w[k])

LEMMA ChainBegins ==
  ASSUME NEW l, NEW w \in Seq(Frames), NEW p \in Seq(Frames), NEW s,
         Len(p) <= Len(w), \A k \in 1..Len(p) : p[k] = w[k], Chain(l, w, s)
  PROVE  Chain(l, p, s)
<1>1. Len(p) \in Nat /\ Len(w) \in Nat
  OBVIOUS
<1>2. ASSUME NEW k \in 1..Len(p)
      PROVE  k \in 1..Len(w) /\ p[k] = w[k] /\ Noted(p, k - 1, s) = Noted(w, k - 1, s)
  <2>1. k \in 1..Len(w) /\ p[k] = w[k] /\ (k - 1 = 0 \/ k - 1 \in 1..Len(p))
    BY <1>1
  <2>2. QED
    BY <2>1 DEF Noted
<1>3. QED
  BY <1>2 DEF Chain

LEMMA ChainGoesOn ==
  ASSUME NEW l, NEW w \in Seq(Frames), NEW f \in Seq(Frames), NEW s,
         Chain(l, w, s), Chain(l, f, End(w, s)),
         \A k \in 1..Len(f) : f[k].kind # "connected"
  PROVE  Chain(l, w \o f, s) /\ End(w \o f, s) = End(f, End(w, s))
<1> DEFINE v == w \o f
<1>1. /\ Len(w) \in Nat /\ Len(f) \in Nat /\ v \in Seq(Frames) /\ Len(v) = Len(w) + Len(f)
      /\ \A k \in 1..Len(v) : v[k] = IF k <= Len(w) THEN w[k] ELSE f[k - Len(w)]
  BY ConcatProperties, LenProperties
<1> HIDE DEF v
<1>2. \A k \in 0..Len(w) : Noted(v, k, s) = Noted(w, k, s)
  BY <1>1 DEF Noted
<1>3. ASSUME NEW k \in 0..Len(f)
      PROVE  Noted(v, Len(w) + k, s) = Noted(f, k, End(w, s))
  <2>1. CASE k = 0
    BY <1>1, <1>2, <2>1 DEF Noted, End
  <2>2. CASE k # 0
    <3>1. /\ k \in 1..Len(f) /\ Len(w) + k \in 1..Len(v) /\ ~(Len(w) + k <= Len(w))
          /\ (Len(w) + k) - Len(w) = k /\ Len(w) + k # 0
      BY <1>1, <2>2
    <3>2. v[Len(w) + k] = f[k] /\ f[k].kind # "connected"
      BY <1>1, <3>1
    <3>3. QED
      BY <2>2, <3>1, <3>2 DEF Noted
  <2>3. QED
    BY <2>1, <2>2
<1>4. ASSUME NEW k \in 1..Len(v)
      PROVE  IF v[k].kind = "connected" THEN k = 1 ELSE Link(l, Noted(v, k - 1, s), v[k])
  <2>1. CASE k <= Len(w)
    <3>1. k \in 1..Len(w) /\ k - 1 \in 0..Len(w) /\ v[k] = w[k]
      BY <1>1, <2>1
    <3>2. QED
      BY <1>2, <3>1 DEF Chain
  <2>2. CASE ~(k <= Len(w))
    <3> DEFINE j == k - Len(w)
    <3>1. j \in 1..Len(f) /\ j - 1 \in 0..Len(f) /\ Len(w) + (j - 1) = k - 1 /\ v[k] = f[j]
      BY <1>1, <2>2
    <3> HIDE DEF j
    <3>2. Noted(v, k - 1, s) = Noted(f, j - 1, End(w, s))
      BY <1>3, <3>1
    <3>3. Link(l, Noted(f, j - 1, End(w, s)), f[j]) /\ f[j].kind # "connected"
      BY <3>1 DEF Chain
    <3>4. QED
      BY <3>1, <3>2, <3>3
  <2>3. QED
    BY <2>1, <2>2
<1>5. Chain(l, v, s)
  BY <1>4 DEF Chain
<1>6. End(v, s) = End(f, End(w, s))
  <2>1. Len(f) \in 0..Len(f)
    BY <1>1
  <2>2. Noted(v, Len(w) + Len(f), s) = Noted(f, Len(f), End(w, s))
    BY <1>3, <2>1
  <2>3. QED
    BY <1>1, <2>2 DEF End
<1>7. QED
  BY <1>5, <1>6 DEF v

\* What is written of the frames is a beginning of them.
LEMMA WrittenChain ==
  ASSUME NEW l, NEW w \in Seq(Frames), NEW f \in Seq(Frames), NEW s,
         Len(f) >= 1, Chain(l, w \o f, s)
  PROVE  /\ Written(w, f) \in Seq(Frames) /\ Chain(l, Written(w, f), s)
         /\ ~Overflows(w, f) => Written(w, f) = w \o f
<1> DEFINE n == IF Len(w) > Buffer THEN 1 ELSE Buffer + 1 - Len(w)
           g == SubSeq(f, 1, n)
<1>1. CASE Overflows(w, f)
  <2>1. Len(w) \in Nat /\ Len(f) \in Nat /\ Buffer \in Nat
    BY StreamAssumption, LenProperties
  <2>2. n \in Nat /\ 1 <= n /\ n <= Len(f)
    BY <1>1, <2>1 DEF Overflows
  <2> HIDE DEF n
  <2>3. \A i \in 1..n : f[i] \in Frames
    BY <2>1, <2>2, ElementOfSeq
  <2>4. g \in Seq(Frames) /\ Len(g) = n /\ \A i \in 1..n : g[i] = f[i]
    BY <2>2, <2>3, SubSeqProperties
  <2> HIDE DEF g
  <2>5. Written(w, f) = w \o g
    BY <1>1 DEF Written, g, n
  <2>6. /\ w \o f \in Seq(Frames) /\ Len(w \o f) = Len(w) + Len(f)
        /\ \A i \in 1..Len(w) + Len(f) : (w \o f)[i] = IF i <= Len(w) THEN w[i] ELSE f[i - Len(w)]
    BY ConcatProperties
  <2>7. /\ w \o g \in Seq(Frames) /\ Len(w \o g) = Len(w) + n
        /\ \A i \in 1..Len(w) + n : (w \o g)[i] = IF i <= Len(w) THEN w[i] ELSE g[i - Len(w)]
    BY <2>4, ConcatProperties
  <2>8. ASSUME NEW i \in 1..Len(w) + n
        PROVE  (w \o g)[i] = (w \o f)[i]
    <3>1. i \in 1..Len(w) + Len(f) /\ (~(i <= Len(w)) => i - Len(w) \in 1..n)
      BY <2>1, <2>2
    <3>2. QED
      BY <2>4, <2>6, <2>7, <3>1
  <2>9. Chain(l, w \o g, s)
    <3>1. Len(w \o g) <= Len(w \o f)
      BY <2>1, <2>2, <2>6, <2>7
    <3>2. \A i \in 1..Len(w \o g) : (w \o g)[i] = (w \o f)[i]
      BY <2>7, <2>8
    <3>3. w \o g \in Seq(Frames) /\ w \o f \in Seq(Frames)
      BY <2>6, <2>7
    <3>4. QED
      BY <3>1, <3>2, <3>3, ChainBegins
  <2>10. QED
    BY <1>1, <2>5, <2>7, <2>9
<1>2. CASE ~Overflows(w, f)
  BY <1>2, ConcatProperties DEF Written
<1>3. QED
  BY <1>1, <1>2

\* Reading the first frame.
LEMMA ChainIsRead ==
  ASSUME NEW l, NEW w \in Seq(Frames), NEW s, w # <<>>, Chain(l, w, s)
  PROVE  /\ Head(w) = w[1] /\ Tail(w) \in Seq(Frames)
         /\ w[1].kind # "connected" => Link(l, s, w[1])
         /\ Chain(l, Tail(w), Noted(w, 1, s)) /\ End(Tail(w), Noted(w, 1, s)) = End(w, s)
<1> DEFINE t == Tail(w)
           r == Noted(w, 1, s)
<1>1. /\ Len(w) \in Nat /\ Len(w) >= 1 /\ Head(w) = w[1]
      /\ t \in Seq(Frames) /\ Len(t) = Len(w) - 1 /\ \A k \in 1..Len(t) : t[k] = w[k + 1]
  BY EmptySeq, LenProperties, HeadTailProperties
<1> HIDE DEF t, r
<1>2. \A k \in 2..Len(w) : w[k].kind # "connected"
  BY <1>1 DEF Chain
<1>3. ASSUME NEW k \in 0..Len(t)
      PROVE  Noted(t, k, r) = Noted(w, k + 1, s)
  <2>1. CASE k = 0
    BY <2>1 DEF Noted, r
  <2>2. CASE k # 0
    <3>1. k \in 1..Len(t) /\ k + 1 \in 2..Len(w) /\ k + 1 # 0
      BY <1>1, <2>2
    <3>2. t[k] = w[k + 1] /\ w[k + 1].kind # "connected"
      BY <1>1, <1>2, <3>1
    <3>3. QED
      BY <2>2, <3>1, <3>2 DEF Noted
  <2>3. QED
    BY <2>1, <2>2
<1>4. ASSUME NEW k \in 1..Len(t)
      PROVE  t[k].kind # "connected" /\ Link(l, Noted(t, k - 1, r), t[k])
  <2>1. /\ k + 1 \in 1..Len(w) /\ k + 1 \in 2..Len(w) /\ k - 1 \in 0..Len(t)
        /\ (k - 1) + 1 = k /\ (k + 1) - 1 = k
    BY <1>1
  <2>2. t[k] = w[k + 1] /\ w[k + 1].kind # "connected" /\ Noted(t, k - 1, r) = Noted(w, k, s)
    BY <1>1, <1>2, <1>3, <2>1
  <2>3. Link(l, Noted(w, (k + 1) - 1, s), w[k + 1])
    BY <2>1, <2>2 DEF Chain
  <2>4. QED
    BY <2>1, <2>2, <2>3
<1>5. Chain(l, t, r)
  BY <1>4 DEF Chain
<1>6. End(t, r) = End(w, s)
  <2>1. Len(t) \in 0..Len(t) /\ Len(t) + 1 = Len(w)
    BY <1>1
  <2>2. QED
    BY <1>3, <2>1 DEF End
<1>7. w[1].kind # "connected" => Link(l, s, w[1])
  <2>1. 1 \in 1..Len(w) /\ 1 - 1 = 0
    BY <1>1
  <2>2. w[1].kind # "connected" => Link(l, Noted(w, 1 - 1, s), w[1])
    BY <2>1 DEF Chain
  <2>3. QED
    BY <2>1, <2>2 DEF Noted
<1>8. QED
  BY <1>1, <1>5, <1>6, <1>7 DEF t, r

\* Commits leave what was written true.
LEMMA ChainStays ==
  ASSUME NEW l \in Seq(BOOLEAN), NEW batch \in Seq(BOOLEAN),
         NEW w \in Seq(Frames), NEW s, Chain(l, w, s)
  PROVE  Chain(l \o batch, w, s)
<1>1. /\ Len(l) \in Nat /\ Len(batch) \in Nat /\ Len(l \o batch) = Len(l) + Len(batch)
      /\ DOMAIN l = 1..Len(l) /\ DOMAIN (l \o batch) = 1..Len(l) + Len(batch)
      /\ \A i \in 1..Len(l) : (l \o batch)[i] = l[i]
  BY ConcatProperties, LenProperties
<1>2. ASSUME NEW from, NEW frame \in Frames, Link(l, from, frame)
      PROVE  Link(l \o batch, from, frame)
  <2>1. frame.seq \in Nat /\ frame.seq <= Len(l)
    BY <1>2 DEF Frames, Link
  <2>2. \A n : n \in DOMAIN (l \o batch) /\ n <= frame.seq <=> n \in DOMAIN l /\ n <= frame.seq
    BY <1>1, <2>1
  <2>3. Between(l \o batch, from, frame.seq) = Between(l, from, frame.seq)
    BY <1>1, <2>2 DEF Between
  <2>4. frame.seq <= Len(l \o batch)
    BY <1>1, <2>1
  <2>5. QED
    BY <1>2, <2>3, <2>4 DEF Link
<1>3. \A k \in 1..Len(w) : w[k] \in Frames
  BY ElementOfSeq
<1>4. QED
  BY <1>2, <1>3 DEF Chain

-----------------------------------------------------------------------------
(***************************************************************************)
(* A turn of replay writes a chain from its cursor to the next one.        *)
(***************************************************************************)
LEMMA NothingBetween ==
  ASSUME NEW l, NEW from, NEW to, \A m \in InScope(l, from) : ~(m <= to)
  PROVE  Between(l, from, to) = {}
<1>1. \A m \in DOMAIN l : l[m] /\ from < m => ~(m <= to)
  BY DEF InScope
<1>2. QED
  BY <1>1 DEF Between

LEMMA PageChain ==
  ASSUME NEW l \in Seq(BOOLEAN), NEW s \in Nat, s <= Len(l), NEW k \in 1..Len(Page(l, s))
  PROVE  Link(l, IF k = 1 THEN s ELSE Page(l, s)[k - 1], Frame("event", Page(l, s)[k]))
<1> DEFINE p == Page(l, s)
           wanted == InScope(l, s)
           from == IF k = 1 THEN s ELSE p[k - 1]
<1>1. /\ Len(p) \in Nat /\ Len(p) <= PageSize /\ p \in [1..Len(p) -> wanted]
      /\ p \in Seq(Nat)
      /\ \A j \in 1..Len(p) : j > 1 => p[j - 1] < p[j]
      /\ \A j \in 1..Len(p) : \A m \in wanted : m < p[j] => j > 1 /\ m <= p[j - 1]
  BY PageIs
<1>2. DOMAIN l = 1..Len(l) /\ Len(l) \in Nat /\ k \in 1..Len(p) /\ Len(p) \in Nat
  BY <1>1, LenProperties
<1> HIDE DEF p
<1> DEFINE skipsNone == \A m \in wanted : m < p[k] => k > 1 /\ m <= p[k - 1]
<1>3. skipsNone
  BY <1>1, <1>2
<1> HIDE DEF skipsNone
<1>4. p[k] \in wanted /\ p[k] \in DOMAIN l /\ l[p[k]] /\ s < p[k] /\ p[k] \in Nat /\ p[k] <= Len(l)
  <2>1. p[k] \in wanted
    BY <1>1, <1>2
  <2>2. \A n \in wanted : n \in DOMAIN l /\ l[n] /\ s < n /\ n \in Nat /\ n <= Len(l)
    BY <1>2 DEF InScope
  <2>3. QED
    BY <2>1, <2>2
<1>5. from \in Nat /\ s <= from /\ from < p[k]
  <2>1. CASE k = 1
    BY <1>4, <2>1
  <2>2. CASE k # 1
    <3>1. k > 1 /\ k - 1 \in 1..Len(p)
      BY <1>2, <2>2
    <3>2. p[k - 1] \in wanted /\ p[k - 1] < p[k]
      BY <1>1, <1>2, <3>1
    <3>3. p[k - 1] \in Nat /\ s < p[k - 1]
      BY <1>2, <3>2 DEF InScope
    <3>4. QED
      BY <2>2, <3>2, <3>3
  <2>3. QED
    BY <2>1, <2>2
<1>6. ASSUME NEW m \in DOMAIN l, l[m], from < m, m <= p[k]
      PROVE  m = p[k]
  <2>1. m \in Nat /\ s < m
    BY <1>2, <1>5, <1>6
  <2>2. m \in wanted
    BY <1>6, <2>1 DEF InScope
  <2>3. SUFFICES ASSUME m < p[k]
                 PROVE  FALSE
    BY <1>4, <1>6, <2>1
  <2>4. k > 1 /\ m <= p[k - 1]
    BY <1>3, <2>2, <2>3 DEF skipsNone
  <2>5. QED
    BY <1>5, <1>6, <2>1, <2>4
<1>7. Between(l, from, p[k]) = {p[k]}
  <2>1. p[k] <= p[k]
    BY <1>4
  <2>2. QED
    BY <1>4, <1>5, <1>6, <2>1 DEF Between
<1>8. Frame("event", p[k]).seq = p[k] /\ Said(Frame("event", p[k])) = {p[k]}
  BY DEF Frame, Said
<1>9. from <= p[k]
  BY <1>4, <1>5
<1>10. QED
  BY <1>4, <1>7, <1>8, <1>9 DEF Link, p

LEMMA FramesOfChain ==
  ASSUME NEW l \in Seq(BOOLEAN), NEW s \in Nat, s <= Len(l)
  PROVE  LET f == FramesOf(l, s)
         IN  /\ f \in Seq(Frames) /\ Len(f) >= 1
             /\ \A k \in 1..Len(f) : f[k].kind # "connected"
             /\ Chain(l, f, s) /\ End(f, s) = CursorAfter(l, s)
             /\ CursorAfter(l, s) \in Nat /\ CursorAfter(l, s) <= Len(l)
<1> DEFINE f == FramesOf(l, s)
           p == Page(l, s)
           events == [k \in DOMAIN p |-> Frame("event", p[k])]
           wanted == InScope(l, s)
<1>1. /\ Len(p) \in Nat /\ Len(p) <= PageSize /\ p \in [1..Len(p) -> wanted]
      /\ p \in Seq(Nat)
      /\ Len(p) < PageSize => \A m \in wanted : Len(p) >= 1 /\ m <= p[Len(p)]
  BY PageIs
<1>2. /\ DOMAIN l = 1..Len(l) /\ Len(l) \in Nat /\ PageSize \in Nat /\ PageSize >= 1
      /\ Len(p) \in Nat /\ Len(p) <= PageSize
  BY <1>1, LenProperties, StreamAssumption
<1>3. f = IF Full(l, s) THEN events ELSE Append(events, Frame("caught_up", CursorAfter(l, s)))
  BY DEF FramesOf
<1>4. \A k \in 1..Len(p) :
        Link(l, IF k = 1 THEN s ELSE p[k - 1], Frame("event", p[k]))
  BY PageChain
<1>5. Full(l, s) <=> Len(p) = PageSize
  BY DEF Full
<1>6. CursorAfter(l, s) = IF Full(l, s) THEN p[PageSize] ELSE Len(l)
  BY <1>2 DEF CursorAfter
<1>7. \A k \in 1..Len(p) : p[k] \in Nat /\ p[k] <= Len(l) /\ p[k] > s
  <2>1. \A k \in 1..Len(p) : p[k] \in wanted
    BY <1>1
  <2>2. \A n \in wanted : n \in Nat /\ n <= Len(l) /\ n > s
    BY <1>2 DEF InScope
  <2>3. QED
    BY <2>1, <2>2
<1> HIDE DEF p, f
<1>8. /\ events \in Seq(Frames) /\ Len(events) = Len(p)
      /\ \A k \in 1..Len(p) : events[k] = Frame("event", p[k])
  <2>1. DOMAIN p = 1..Len(p)
    BY <1>1
  <2>2. \A k \in 1..Len(p) : Frame("event", p[k]) \in Frames
    BY <1>7 DEF Frame, Frames
  <2>3. QED
    BY <1>1, <2>1, <2>2
<1> HIDE DEF events
<1>9. \A k \in 1..Len(p) : events[k].kind = "event" /\ events[k].seq = p[k]
  <2>1. \A n : Frame("event", n).kind = "event" /\ Frame("event", n).seq = n
    BY DEF Frame
  <2>2. QED
    BY <1>8, <2>1
<1>10. \A k \in 0..Len(p) : Noted(events, k, s) = IF k = 0 THEN s ELSE p[k]
  <2>1. \A k \in 0..Len(p) : k # 0 => k \in 1..Len(p)
    BY <1>1
  <2>2. QED
    BY <1>9, <2>1 DEF Noted
<1>11. Chain(l, events, s)
  <2>1. ASSUME NEW k \in 1..Len(p)
        PROVE  Link(l, Noted(events, k - 1, s), events[k])
    <3>1. k - 1 \in 0..Len(p) /\ (k - 1 = 0 <=> k = 1)
      BY <1>1
    <3>2. Noted(events, k - 1, s) = IF k = 1 THEN s ELSE p[k - 1]
      BY <1>10, <3>1
    <3>3. QED
      BY <1>4, <1>8, <3>2
  <2>2. QED
    BY <1>8, <1>9, <2>1 DEF Chain
<1>12. End(events, s) = IF Len(p) = 0 THEN s ELSE p[Len(p)]
  <2>1. Len(p) \in 0..Len(p)
    BY <1>1
  <2>2. QED
    BY <1>8, <1>10, <2>1 DEF End
<1>13. CASE Full(l, s)
  <2>1. f = events /\ Len(p) = PageSize /\ Len(p) >= 1 /\ CursorAfter(l, s) = p[Len(p)]
    BY <1>2, <1>3, <1>5, <1>6, <1>13
  <2>2. Len(p) \in 1..Len(p) /\ Len(p) # 0
    BY <1>1, <2>1
  <2>3. QED
    BY <1>7, <1>8, <1>9, <1>11, <1>12, <2>1, <2>2 DEF f
<1>14. CASE ~Full(l, s)
  <2> DEFINE last == Frame("caught_up", Len(l))
             one == <<last>>
  <2>1. f = Append(events, last) /\ CursorAfter(l, s) = Len(l) /\ Len(p) < PageSize
    <3>1. CursorAfter(l, s) = Len(l)
      BY <1>6, <1>14
    <3>2. Len(p) < PageSize
      BY <1>2, <1>5, <1>14
    <3>3. QED
      BY <1>3, <1>14, <3>1, <3>2
  <2>2. last \in Frames /\ last.kind = "caught_up" /\ last.seq = Len(l)
    BY <1>2 DEF Frame, Frames
  <2>3. f = events \o one
    BY <1>8, <2>1, <2>2, AppendIsConcat
  <2>4. one \in Seq(Frames) /\ Len(one) = 1 /\ one[1] = last
    BY <2>2
  <2> HIDE DEF last, one
  <2>5. End(events, s) \in Nat /\ s <= End(events, s) /\ End(events, s) <= Len(l)
    <3>1. CASE Len(p) = 0
      BY <1>12, <3>1
    <3>2. CASE Len(p) # 0
      <4>1. Len(p) \in 1..Len(p)
        BY <1>1, <3>2
      <4>2. QED
        BY <1>7, <1>12, <3>2, <4>1
    <3>3. QED
      BY <3>1, <3>2
  <2>6. Between(l, End(events, s), Len(l)) = {}
    <3>1. ASSUME NEW m \in DOMAIN l, l[m], End(events, s) < m
          PROVE  FALSE
      <4>1. m \in Nat /\ s < m
        BY <1>2, <2>5, <3>1
      <4>2. m \in wanted
        BY <3>1, <4>1 DEF InScope
      <4>3. Len(p) >= 1 /\ m <= p[Len(p)]
        BY <1>1, <2>1, <4>2
      <4>4. Len(p) # 0 /\ Len(p) \in 1..Len(p)
        BY <1>1, <4>3
      <4>5. End(events, s) = p[Len(p)]
        BY <1>12, <4>4
      <4>6. QED
        BY <2>5, <3>1, <4>1, <4>3, <4>5
    <3>2. QED
      BY <3>1 DEF Between
  <2>7. Link(l, End(events, s), last)
    <3>1. Said(last) = {}
      BY <2>2 DEF Said
    <3>2. Len(l) <= Len(l)
      BY <1>2
    <3>3. QED
      BY <2>2, <2>5, <2>6, <3>1, <3>2 DEF Link
  <2>8. Chain(l, one, End(events, s)) /\ End(one, End(events, s)) = Len(l)
    <3>1. \A k \in 1..Len(one) : k = 1 /\ k - 1 = 0
      BY <2>4
    <3>2. Chain(l, one, End(events, s))
      BY <2>2, <2>4, <2>7, <3>1 DEF Chain, Noted
    <3>3. End(one, End(events, s)) = Len(l)
      BY <2>2, <2>4 DEF End, Noted
    <3>4. QED
      BY <3>2, <3>3
  <2>9. \A k \in 1..Len(one) : one[k].kind # "connected"
    BY <2>2, <2>4
  <2>10. Chain(l, f, s) /\ End(f, s) = Len(l)
    BY <1>8, <1>11, <2>3, <2>4, <2>8, <2>9, ChainGoesOn
  <2>11. /\ f \in Seq(Frames) /\ Len(f) = Len(p) + 1
         /\ \A k \in 1..Len(p) + 1 : f[k] = IF k <= Len(p) THEN events[k] ELSE one[k - Len(p)]
    BY <1>8, <2>3, <2>4, ConcatProperties
  <2>12. \A k \in 1..Len(f) : f[k].kind # "connected"
    <3>1. \A k \in 1..Len(p) + 1 : IF k <= Len(p) THEN k \in 1..Len(p) ELSE k - Len(p) = 1
      BY <1>1
    <3>2. QED
      BY <1>9, <2>2, <2>4, <2>11, <3>1
  <2>13. Len(f) >= 1
    BY <1>1, <2>11
  <2>14. QED
    BY <1>2, <2>1, <2>10, <2>11, <2>12, <2>13 DEF f
<1>15. QED
  BY <1>13, <1>14

-----------------------------------------------------------------------------
(***************************************************************************)
(* The state of the stream.                                                *)
(***************************************************************************)
Entries == [at : {"none", "replaying", "live"}, cursor : Nat]
Responses == {"none", "requested", "open", "ended"}

StreamTypes ==
  /\ log \in Seq(BOOLEAN) /\ lastSeq \in Nat /\ seen \in Seq(Nat)
  /\ entry \in [Connections -> Entries] /\ wire \in [Connections -> Seq(Frames)]
  /\ response \in [Connections -> Responses]
  /\ reader \in Connections \cup {NoConnection}

\* The browser has handled exactly the Events in scope up to the sequence it noted.
BrowserKnows ==
  lastSeq <= Len(log) /\ {seen[i] : i \in DOMAIN seen} = Between(log, 0, lastSeq)

\* The stream goes on from the cursor of an entry, and of one that was asked for.
GoesOn(c) == Subscribed(c) \/ response[c] = "requested"

\* What lies on the browser's connection goes on from the sequence it noted, and a
\* subscription that is not cut off goes on from there.
LineKnows(c) ==
  reader = c =>
    /\ Chain(log, wire[c], lastSeq)
    /\ GoesOn(c) => entry[c].cursor = End(wire[c], lastSeq)

LineInv ==
  /\ StreamTypes /\ BrowserKnows
  /\ \A c \in Connections : entry[c].cursor <= Len(log) /\ LineKnows(c)

StreamInv == LineInv /\ ReleasedTogether

\* One turn of replay on a line.
LEMMA TurnChain ==
  ASSUME NEW l \in Seq(BOOLEAN), NEW w \in Seq(Frames), NEW s \in Nat, s <= Len(l)
  PROVE  /\ Written(w, FramesOf(l, s)) \in Seq(Frames)
         /\ EntryAfter(l, s, w, FramesOf(l, s)) \in Entries
         /\ EntryAfter(l, s, w, FramesOf(l, s)).cursor <= Len(l)
         /\ \A n : (Chain(l, w, n) /\ s = End(w, n)) =>
              /\ Chain(l, Written(w, FramesOf(l, s)), n)
              /\ EntryAfter(l, s, w, FramesOf(l, s)).at # "none" =>
                   EntryAfter(l, s, w, FramesOf(l, s)).cursor = End(Written(w, FramesOf(l, s)), n)
<1> DEFINE f == FramesOf(l, s)
           e == EntryAfter(l, s, w, f)
<1>1. /\ f \in Seq(Frames) /\ Len(f) >= 1 /\ \A k \in 1..Len(f) : f[k].kind # "connected"
      /\ Chain(l, f, s) /\ End(f, s) = CursorAfter(l, s)
      /\ CursorAfter(l, s) \in Nat /\ CursorAfter(l, s) <= Len(l)
  BY FramesOfChain
<1> HIDE DEF f
<1>2. /\ e \in Entries /\ e.cursor = CursorAfter(l, s)
      /\ e.at # "none" => ~Overflows(w, f)
  BY <1>1 DEF EntryAfter, Entries
<1>3. Written(w, f) \in Seq(Frames)
  <2>1. Len(w) \in Nat /\ Len(f) \in Nat /\ Buffer \in Nat
    BY <1>1, StreamAssumption, LenProperties
  <2> DEFINE n == IF Len(w) > Buffer THEN 1 ELSE Buffer + 1 - Len(w)
  <2>2. CASE Overflows(w, f)
    <3>1. n \in Int /\ n <= Len(f)
      BY <1>1, <2>1, <2>2 DEF Overflows
    <3> HIDE DEF n
    <3>2. \A i \in 1..n : f[i] \in Frames
      BY <1>1, <2>1, <3>1, ElementOfSeq
    <3>3. SubSeq(f, 1, n) \in Seq(Frames)
      BY <3>1, <3>2, SubSeqProperties
    <3>4. w \o SubSeq(f, 1, n) \in Seq(Frames)
      BY <3>3, ConcatProperties
    <3>5. QED
      BY <2>2, <3>4 DEF Written, n
  <2>3. CASE ~Overflows(w, f)
    BY <1>1, <2>3, ConcatProperties DEF Written
  <2>4. QED
    BY <2>2, <2>3
<1>4. ASSUME NEW n, Chain(l, w, n), s = End(w, n)
      PROVE  Chain(l, Written(w, f), n) /\ (e.at # "none" => e.cursor = End(Written(w, f), n))
  <2>1. Chain(l, w \o f, n) /\ End(w \o f, n) = CursorAfter(l, s)
    BY <1>1, <1>4, ChainGoesOn
  <2>2. Chain(l, Written(w, f), n) /\ (~Overflows(w, f) => Written(w, f) = w \o f)
    BY <1>1, <2>1, WrittenChain
  <2>3. QED
    BY <1>2, <2>1, <2>2
<1> HIDE DEF e
<1>5. QED
  BY <1>1, <1>2, <1>3, <1>4 DEF e, f

\* The first turn of a connection, inside subscribe.
LEMMA FirstTurnChain ==
  ASSUME NEW l \in Seq(BOOLEAN), NEW s \in Nat, s <= Len(l)
  PROVE  LET frames == <<Frame("connected", Len(l))>> \o FramesOf(l, s)
             e == EntryAfter(l, s, <<>>, frames)
         IN  /\ Written(<<>>, frames) \in Seq(Frames) /\ Chain(l, Written(<<>>, frames), s)
             /\ e \in Entries /\ e.cursor <= Len(l)
             /\ e.at # "none" => e.cursor = End(Written(<<>>, frames), s)
<1> DEFINE f == FramesOf(l, s)
           hello == <<Frame("connected", Len(l))>>
           frames == hello \o f
           e == EntryAfter(l, s, <<>>, frames)
<1>1. /\ f \in Seq(Frames) /\ Len(f) >= 1 /\ \A k \in 1..Len(f) : f[k].kind # "connected"
      /\ Chain(l, f, s) /\ End(f, s) = CursorAfter(l, s)
      /\ CursorAfter(l, s) \in Nat /\ CursorAfter(l, s) <= Len(l)
  BY FramesOfChain
<1> HIDE DEF f
<1>2. hello \in Seq(Frames) /\ Len(hello) = 1 /\ hello[1].kind = "connected"
  <2>1. Len(l) \in Nat
    BY LenProperties
  <2>2. Frame("connected", Len(l)) \in Frames /\ Frame("connected", Len(l)).kind = "connected"
    BY <2>1 DEF Frame, Frames
  <2>3. QED
    BY <2>2
<1> HIDE DEF hello
<1>3. Chain(l, hello, s) /\ End(hello, s) = s
  BY <1>2 DEF Chain, End, Noted
<1>4. /\ frames \in Seq(Frames) /\ Len(frames) >= 1
      /\ Chain(l, frames, s) /\ End(frames, s) = CursorAfter(l, s)
  <2>1. Len(f) \in Nat
    BY <1>1, LenProperties
  <2>2. frames \in Seq(Frames) /\ Len(frames) = 1 + Len(f)
    <3>1. hello \in Seq(Frames) /\ f \in Seq(Frames)
      BY <1>1, <1>2
    <3>2. hello \o f \in Seq(Frames) /\ Len(hello \o f) = Len(hello) + Len(f)
      BY <3>1, ConcatProperties
    <3>3. QED
      BY <1>2, <3>2
  <2>3. Chain(l, frames, s) /\ End(frames, s) = CursorAfter(l, s)
    BY <1>1, <1>2, <1>3, ChainGoesOn
  <2>4. QED
    BY <1>1, <2>1, <2>2, <2>3
<1> HIDE DEF frames
<1>5. <<>> \in Seq(Frames) /\ <<>> \o frames = frames
  BY <1>4, ConcatEmptySeq
<1>6. /\ Written(<<>>, frames) \in Seq(Frames) /\ Chain(l, Written(<<>>, frames), s)
      /\ ~Overflows(<<>>, frames) => Written(<<>>, frames) = frames
  <2> DEFINE w == <<>>
  <2>1. w \in Seq(Frames) /\ w \o frames = frames
    BY <1>5
  <2> HIDE DEF w
  <2>2. Chain(l, w \o frames, s)
    BY <1>4, <2>1
  <2>3. /\ Written(w, frames) \in Seq(Frames) /\ Chain(l, Written(w, frames), s)
        /\ ~Overflows(w, frames) => Written(w, frames) = w \o frames
    BY <1>4, <2>1, <2>2, WrittenChain
  <2>4. QED
    BY <2>1, <2>3 DEF w
<1>7. /\ e \in Entries /\ e.cursor = CursorAfter(l, s)
      /\ e.at # "none" => ~Overflows(<<>>, frames)
  BY <1>1 DEF EntryAfter, Entries
<1> HIDE DEF e
<1>8. QED
  BY <1>1, <1>4, <1>6, <1>7 DEF e, frames, hello, f

-----------------------------------------------------------------------------
(***************************************************************************)
(* Every action keeps the invariant.                                       *)
(***************************************************************************)
LEMMA StreamBegins == StreamInit => LineInv
<1> SUFFICES ASSUME StreamInit PROVE LineInv
  OBVIOUS
<1>1. log = <<>> /\ Len(log) = 0 /\ DOMAIN log = {} /\ DOMAIN seen = {}
  BY DEF StreamInit
<1>2. StreamTypes
  BY DEF StreamInit, StreamTypes, Entries, Responses, NoEntry
<1>3. BrowserKnows
  BY <1>1 DEF StreamInit, BrowserKnows, Between
<1>4. \A c \in Connections : entry[c].cursor <= Len(log) /\ LineKnows(c)
  BY <1>1, StreamAssumption DEF StreamInit, NoEntry, LineKnows
<1>5. QED
  BY <1>2, <1>3, <1>4 DEF LineInv

LEMMA TurnKeeps ==
  ASSUME LineInv, NEW c \in Connections, Turn(c)
  PROVE  LineInv' /\ UNCHANGED <<log, seen>>
<1> DEFINE s == entry[c].cursor
           f == FramesOf(log, s)
<1>1. /\ log \in Seq(BOOLEAN) /\ wire[c] \in Seq(Frames) /\ s \in Nat /\ s <= Len(log)
      /\ entry[c].at = "replaying"
  BY DEF LineInv, StreamTypes, Entries, Turn
<1>2. /\ wire' = [wire EXCEPT ![c] = Written(wire[c], f)]
      /\ entry' = [entry EXCEPT ![c] = EntryAfter(log, s, wire[c], f)]
      /\ response' = [response EXCEPT ![c] = ResponseOf(entry'[c])]
      /\ UNCHANGED <<log, serving, reader, lastSeq, seen, cuts>>
  BY DEF Turn
<1>0. ResponseOf(entry'[c]) \in {"ended", "open"}
  BY DEF ResponseOf
<1>3. /\ Written(wire[c], f) \in Seq(Frames) /\ EntryAfter(log, s, wire[c], f) \in Entries
      /\ EntryAfter(log, s, wire[c], f).cursor <= Len(log)
      /\ \A n : (Chain(log, wire[c], n) /\ s = End(wire[c], n)) =>
           /\ Chain(log, Written(wire[c], f), n)
           /\ EntryAfter(log, s, wire[c], f).at # "none" =>
                EntryAfter(log, s, wire[c], f).cursor = End(Written(wire[c], f), n)
  BY <1>1, TurnChain
<1> HIDE DEF f
<1>4. StreamTypes'
  BY <1>2, <1>3, <1>0 DEF LineInv, StreamTypes, Responses
<1>5. BrowserKnows'
  BY <1>2 DEF LineInv, BrowserKnows
<1>6. ASSUME NEW d \in Connections
      PROVE  (entry[d].cursor <= Len(log) /\ LineKnows(d))'
  <2>1. entry[d].cursor <= Len(log) /\ LineKnows(d)
    BY DEF LineInv
  <2>2. CASE d = c
    <3>1. /\ entry'[c] = EntryAfter(log, s, wire[c], f) /\ wire'[c] = Written(wire[c], f)
          /\ response'[c] # "requested"
      BY <1>2, <1>0 DEF LineInv, StreamTypes
    <3>2. reader = c => Chain(log, wire[c], lastSeq) /\ s = End(wire[c], lastSeq)
      BY <1>1, <2>1, <2>2 DEF LineKnows, GoesOn, Subscribed
    <3>3. reader = c =>
            /\ Chain(log, wire'[c], lastSeq)
            /\ entry'[c].at # "none" => entry'[c].cursor = End(wire'[c], lastSeq)
      BY <1>3, <3>1, <3>2
    <3>4. QED
      BY <1>2, <1>3, <2>2, <3>1, <3>3 DEF LineKnows, GoesOn, Subscribed
  <2>3. CASE d # c
    <3>1. entry'[d] = entry[d] /\ wire'[d] = wire[d] /\ response'[d] = response[d]
      BY <1>2, <2>3 DEF LineInv, StreamTypes
    <3>2. QED
      BY <1>2, <2>1, <3>1 DEF LineKnows, GoesOn, Subscribed
  <2>4. QED
    BY <2>2, <2>3
<1>7. QED
  BY <1>2, <1>4, <1>5, <1>6 DEF LineInv

LEMMA CommitEventsKeeps ==
  ASSUME LineInv, NEW batch \in Batches, CommitEvents(batch)
  PROVE  LineInv' /\ Feed!Commit
<1> DEFINE live == {c \in Connections : entry[c].at = "live"}
           newer == log \o batch
           f(c) == FramesOf(newer, entry[c].cursor)
<1>1. /\ log' = newer /\ UNCHANGED <<reader, lastSeq, seen>>
      /\ wire' = [c \in Connections |-> IF c \in live THEN Written(wire[c], f(c)) ELSE wire[c]]
      /\ entry' = [c \in Connections |->
           IF c \in live THEN EntryAfter(newer, entry[c].cursor, wire[c], f(c)) ELSE entry[c]]
      /\ response' = [c \in Connections |-> IF c \in live THEN ResponseOf(entry'[c]) ELSE response[c]]
  BY DEF CommitEvents
<1>0. \A e : ResponseOf(e) \in {"ended", "open"}
  BY DEF ResponseOf
<1>2. /\ log \in Seq(BOOLEAN) /\ Len(log) \in Nat
      /\ lastSeq \in Nat /\ lastSeq <= Len(log)
  BY DEF LineInv, StreamTypes, BrowserKnows
<1>3. batch \in Seq(BOOLEAN) /\ Len(batch) \in Nat /\ Len(batch) >= 1
  <2>1. CASE \E a \in BOOLEAN : batch = <<a>>
    BY <2>1
  <2>2. CASE \E a, b \in BOOLEAN : batch = <<a, b>>
    BY <2>2
  <2>3. QED
    BY <2>1, <2>2 DEF Batches
<1>4. /\ newer \in Seq(BOOLEAN) /\ Len(newer) = Len(log) + Len(batch)
      /\ DOMAIN log = 1..Len(log) /\ DOMAIN newer = 1..Len(log) + Len(batch)
      /\ \A i \in 1..Len(log) : newer[i] = log[i]
  BY <1>2, <1>3, ConcatProperties
<1> HIDE DEF f
<1>5. ASSUME NEW c \in Connections
      PROVE  /\ wire'[c] \in Seq(Frames) /\ entry'[c] \in Entries /\ entry'[c].cursor <= Len(newer)
             /\ LineKnows(c)'
  <2>1. /\ wire[c] \in Seq(Frames) /\ entry[c] \in Entries /\ entry[c].cursor \in Nat
        /\ entry[c].cursor <= Len(log) /\ entry[c].cursor <= Len(newer) /\ LineKnows(c)
    BY <1>2, <1>3, <1>4 DEF LineInv, StreamTypes, Entries
  <2>2. Chain(log, wire[c], lastSeq) => Chain(newer, wire[c], lastSeq)
    BY <1>2, <1>3, <2>1, ChainStays
  <2>3. CASE c \in live
    <3>1. /\ wire'[c] = Written(wire[c], f(c))
          /\ entry'[c] = EntryAfter(newer, entry[c].cursor, wire[c], f(c))
          /\ Subscribed(c) /\ response'[c] # "requested"
      BY <1>1, <1>0, <2>3 DEF Subscribed
    <3>2. /\ wire'[c] \in Seq(Frames) /\ entry'[c] \in Entries /\ entry'[c].cursor <= Len(newer)
          /\ (Chain(newer, wire[c], lastSeq) /\ entry[c].cursor = End(wire[c], lastSeq)) =>
               /\ Chain(newer, wire'[c], lastSeq)
               /\ entry'[c].at # "none" => entry'[c].cursor = End(wire'[c], lastSeq)
      <4> DEFINE s == entry[c].cursor
                 w == wire[c]
      <4>1. s \in Nat /\ s <= Len(newer) /\ w \in Seq(Frames) /\ newer \in Seq(BOOLEAN)
        BY <1>4, <2>1
      <4>2. f(c) = FramesOf(newer, s)
        BY DEF f
      <4> HIDE DEF s, w, newer
      <4>3. /\ Written(w, f(c)) \in Seq(Frames) /\ EntryAfter(newer, s, w, f(c)) \in Entries
            /\ EntryAfter(newer, s, w, f(c)).cursor <= Len(newer)
            /\ (Chain(newer, w, lastSeq) /\ s = End(w, lastSeq)) =>
                 /\ Chain(newer, Written(w, f(c)), lastSeq)
                 /\ EntryAfter(newer, s, w, f(c)).at # "none" =>
                      EntryAfter(newer, s, w, f(c)).cursor = End(Written(w, f(c)), lastSeq)
        BY <4>1, <4>2, TurnChain
      <4>4. QED
        BY <3>1, <4>3 DEF s, w
    <3>3. QED
      BY <1>1, <2>1, <2>2, <3>1, <3>2 DEF LineKnows, GoesOn, Subscribed
  <2>4. CASE c \notin live
    <3>1. wire'[c] = wire[c] /\ entry'[c] = entry[c] /\ response'[c] = response[c]
      BY <1>1, <2>4
    <3>2. QED
      BY <1>1, <2>1, <2>2, <3>1 DEF LineKnows, GoesOn, Subscribed
  <2>5. QED
    BY <2>3, <2>4
<1> HIDE DEF newer, live
<1>6. /\ wire' \in [Connections -> Seq(Frames)] /\ entry' \in [Connections -> Entries]
      /\ response' \in [Connections -> Responses]
  BY <1>1, <1>5, <1>0 DEF LineInv, StreamTypes, Responses
<1>7. StreamTypes'
  BY <1>1, <1>4, <1>6 DEF LineInv, StreamTypes
<1>8. BrowserKnows'
  <2>1. \A n : n \in DOMAIN newer /\ n <= lastSeq <=> n \in DOMAIN log /\ n <= lastSeq
    BY <1>2, <1>3, <1>4
  <2>2. Between(newer, 0, lastSeq) = Between(log, 0, lastSeq)
    BY <1>4, <2>1 DEF Between
  <2>3. lastSeq <= Len(newer)
    BY <1>2, <1>3, <1>4
  <2>4. QED
    BY <1>1, <2>2, <2>3 DEF LineInv, BrowserKnows
<1>9. LineInv'
  BY <1>1, <1>5, <1>7, <1>8 DEF LineInv
<1>10. Feed!Commit
  <2>1. Len(log) <= Len(newer) /\ Len(newer) > Len(log)
    BY <1>2, <1>3, <1>4
  <2>2. SubSeq(newer, 1, Len(log)) = log
    <3>1. \A i \in 1..Len(log) : newer[i] \in BOOLEAN
      BY <1>2, <1>4
    <3>2. /\ SubSeq(newer, 1, Len(log)) \in Seq(BOOLEAN) /\ Len(SubSeq(newer, 1, Len(log))) = Len(log)
          /\ \A i \in 1..Len(log) : SubSeq(newer, 1, Len(log))[i] = newer[i]
      BY <1>2, <3>1, SubSeqProperties
    <3>3. QED
      BY <1>2, <1>4, <3>2, SeqEqual
  <2>3. SubSeq(log, 1, Len(log)) = log
    BY <1>2, SubSeqFull
  <2>4. QED
    BY <1>1, <2>1, <2>2, <2>3 DEF Feed!Commit, Feed!IsPrefix
<1>11. QED
  BY <1>9, <1>10

LEMMA ConnectKeeps ==
  ASSUME StreamInv, NEW c \in Connections, Connect(c)
  PROVE  LineInv' /\ UNCHANGED <<log, seen>>
<1> DEFINE asked == [at |-> "none", cursor |-> lastSeq]
<1>1. /\ reader = NoConnection /\ response[c] = "none"
      /\ reader' = c /\ UNCHANGED <<log, wire, lastSeq, seen>>
      /\ entry' = [entry EXCEPT ![c] = asked]
      /\ response' = [response EXCEPT ![c] = "requested"]
  BY DEF Connect
<1>2. LineInv /\ log \in Seq(BOOLEAN) /\ lastSeq \in Nat /\ lastSeq <= Len(log)
  BY DEF StreamInv, LineInv, StreamTypes, BrowserKnows
<1>3. wire[c] = <<>>
  BY <1>1 DEF StreamInv, ReleasedTogether
<1>4. Chain(log, <<>>, lastSeq) /\ End(<<>>, lastSeq) = lastSeq
  BY DEF Chain, End, Noted
<1>5. asked \in Entries /\ asked.cursor = lastSeq
  BY <1>2 DEF Entries
<1> HIDE DEF asked
<1>6. StreamTypes'
  BY <1>1, <1>2, <1>5 DEF LineInv, StreamTypes, Responses
<1>7. BrowserKnows'
  BY <1>1, <1>2 DEF LineInv, BrowserKnows
<1>8. ASSUME NEW d \in Connections
      PROVE  (entry[d].cursor <= Len(log) /\ LineKnows(d))'
  <2>1. CASE d = c
    <3>1. entry'[c] = asked /\ wire'[c] = <<>>
      BY <1>1, <1>2, <1>3 DEF LineInv, StreamTypes
    <3>2. QED
      BY <1>1, <1>2, <1>4, <1>5, <2>1, <3>1 DEF LineKnows
  <2>2. CASE d # c
    <3>1. entry'[d] = entry[d] /\ reader' # d
      BY <1>1, <1>2, <2>2 DEF LineInv, StreamTypes
    <3>2. QED
      BY <1>1, <1>2, <3>1 DEF LineInv, LineKnows
  <2>3. QED
    BY <2>1, <2>2
<1>9. QED
  BY <1>1, <1>6, <1>7, <1>8 DEF LineInv

\* The first turn goes on from the sequence asked after; a peer that has gone has no line.
LEMMA AttachKeeps ==
  ASSUME StreamInv, NEW c \in Connections, Attach(c)
  PROVE  LineInv' /\ UNCHANGED <<log, seen>>
<1> DEFINE s == entry[c].cursor
           frames == <<Frame("connected", Len(log))>> \o FramesOf(log, s)
           fresh == EntryAfter(log, s, <<>>, frames)
<1>1. /\ response[c] = "requested" /\ UNCHANGED <<log, reader, lastSeq, seen>>
      /\ \/ /\ entry' = [entry EXCEPT ![c] = fresh]
            /\ response' = [response EXCEPT ![c] = ResponseOf(fresh)]
            /\ wire' = [wire EXCEPT ![c] = Written(<<>>, frames)]
         \/ /\ reader # c
            /\ \E left \in {NoEntry, fresh} : entry' = [entry EXCEPT ![c] = Ended(left)]
            /\ response' = [response EXCEPT ![c] = "none"]
            /\ UNCHANGED wire
  BY DEF Attach, HandleClosed
<1>2. LineInv /\ log \in Seq(BOOLEAN) /\ Len(log) \in Nat
  BY DEF StreamInv, LineInv, StreamTypes
<1>3. s \in Nat /\ s <= Len(log) /\ LineKnows(c)
  BY <1>2 DEF LineInv, StreamTypes, Entries
<1>4. /\ Written(<<>>, frames) \in Seq(Frames) /\ Chain(log, Written(<<>>, frames), s)
      /\ fresh \in Entries /\ fresh.cursor <= Len(log)
      /\ fresh.at # "none" => fresh.cursor = End(Written(<<>>, frames), s)
  BY <1>2, <1>3, FirstTurnChain
<1>5. reader = c => s = lastSeq
  <2>1. wire[c] = <<>>
    BY <1>1 DEF StreamInv, ReleasedTogether
  <2>2. reader = c => s = End(wire[c], lastSeq)
    BY <1>1, <1>3 DEF LineKnows, GoesOn
  <2>3. End(<<>>, lastSeq) = lastSeq
    BY DEF End, Noted
  <2>4. QED
    BY <2>1, <2>2, <2>3
<1> HIDE DEF frames, fresh, s
<1>6. ResponseOf(fresh) \in {"ended", "open"}
  BY DEF ResponseOf
<1>7. BrowserKnows'
  BY <1>1, <1>2 DEF LineInv, BrowserKnows
<1>8. CASE entry' = [entry EXCEPT ![c] = fresh] /\ response' = [response EXCEPT ![c] = ResponseOf(fresh)]
           /\ wire' = [wire EXCEPT ![c] = Written(<<>>, frames)]
  <2>1. StreamTypes'
    BY <1>1, <1>2, <1>4, <1>6, <1>8 DEF LineInv, StreamTypes, Responses
  <2>2. ASSUME NEW d \in Connections
        PROVE  (entry[d].cursor <= Len(log) /\ LineKnows(d))'
    <3>1. CASE d = c
      <4>1. entry'[c] = fresh /\ wire'[c] = Written(<<>>, frames) /\ response'[c] # "requested"
        BY <1>2, <1>6, <1>8 DEF LineInv, StreamTypes
      <4>2. QED
        BY <1>1, <1>4, <1>5, <3>1, <4>1 DEF LineKnows, GoesOn, Subscribed
    <3>2. CASE d # c
      <4>1. entry'[d] = entry[d] /\ wire'[d] = wire[d] /\ response'[d] = response[d]
        BY <1>2, <1>8, <3>2 DEF LineInv, StreamTypes
      <4>2. QED
        BY <1>1, <1>2, <4>1 DEF LineInv, LineKnows, GoesOn, Subscribed
    <3>3. QED
      BY <3>1, <3>2
  <2>3. QED
    BY <1>1, <1>7, <2>1, <2>2 DEF LineInv
<1>9. CASE /\ reader # c
           /\ \E left \in {NoEntry, fresh} : entry' = [entry EXCEPT ![c] = Ended(left)]
           /\ response' = [response EXCEPT ![c] = "none"]
           /\ UNCHANGED wire
  <2>1. PICK left \in {NoEntry, fresh} : entry' = [entry EXCEPT ![c] = Ended(left)]
    BY <1>9
  <2>2. Ended(left) \in Entries /\ Ended(left).cursor <= Len(log)
    <3>1. NoEntry \in Entries /\ NoEntry.cursor <= Len(log)
      BY <1>2 DEF NoEntry, Entries
    <3>2. left \in Entries /\ left.cursor <= Len(log)
      BY <1>4, <2>1, <3>1
    <3>3. QED
      BY <3>2 DEF Ended, Entries
  <2>3. StreamTypes'
    BY <1>1, <1>2, <1>9, <2>1, <2>2 DEF LineInv, StreamTypes, Responses
  <2>4. ASSUME NEW d \in Connections
        PROVE  (entry[d].cursor <= Len(log) /\ LineKnows(d))'
    <3>1. CASE d = c
      BY <1>1, <1>2, <1>9, <2>1, <2>2, <3>1 DEF LineInv, StreamTypes, LineKnows
    <3>2. CASE d # c
      <4>1. entry'[d] = entry[d] /\ wire'[d] = wire[d] /\ response'[d] = response[d]
        BY <1>2, <1>9, <2>1, <3>2 DEF LineInv, StreamTypes
      <4>2. QED
        BY <1>1, <1>2, <4>1 DEF LineInv, LineKnows, GoesOn, Subscribed
    <3>3. QED
      BY <3>1, <3>2
  <2>5. QED
    BY <1>1, <1>7, <2>3, <2>4 DEF LineInv
<1>10. QED
  BY <1>1, <1>8, <1>9

LEMMA ReadKeeps ==
  ASSUME LineInv, NEW c \in Connections, Read(c)
  PROVE  LineInv' /\ (Feed!See \/ UNCHANGED <<log, seen>>)
<1> DEFINE w == wire[c]
           frame == w[1]
<1>1. /\ reader = c /\ w # <<>> /\ wire' = [wire EXCEPT ![c] = Tail(w)]
      /\ UNCHANGED <<log, entry, response, reader>>
  BY DEF Read
<1>2. /\ w \in Seq(Frames) /\ log \in Seq(BOOLEAN) /\ lastSeq \in Nat /\ lastSeq <= Len(log)
      /\ seen \in Seq(Nat) /\ {seen[i] : i \in DOMAIN seen} = Between(log, 0, lastSeq)
      /\ Chain(log, w, lastSeq)
  BY <1>1 DEF LineInv, StreamTypes, BrowserKnows, LineKnows
<1>3. /\ Head(w) = frame /\ Tail(w) \in Seq(Frames)
      /\ frame.kind # "connected" => Link(log, lastSeq, frame)
      /\ Chain(log, Tail(w), Noted(w, 1, lastSeq))
      /\ End(Tail(w), Noted(w, 1, lastSeq)) = End(w, lastSeq)
  BY <1>1, <1>2, ChainIsRead
<1>4. frame \in Frames
  BY <1>1, <1>2, EmptySeq, ElementOfSeq
<1>5. /\ frame.kind = "event" => seen' = Append(seen, frame.seq) /\ Notes(frame.seq)
      /\ frame.kind = "caught_up" => Notes(frame.seq) /\ UNCHANGED seen
      /\ frame.kind = "connected" => UNCHANGED <<lastSeq, seen>>
  BY <1>3 DEF Read
<1>6. Noted(w, 1, lastSeq) = IF frame.kind = "connected" THEN lastSeq ELSE frame.seq
  BY DEF Noted
<1> HIDE DEF w, frame
<1>7. frame.kind \in {"connected", "event", "caught_up"} /\ frame.seq \in Nat
  BY <1>4 DEF Frames
<1>8. Len(log) \in Nat /\ DOMAIN log = 1..Len(log)
  BY <1>2, LenProperties
<1>9. CASE frame.kind = "connected"
  <2>1. lastSeq' = lastSeq /\ seen' = seen /\ Noted(w, 1, lastSeq) = lastSeq
    BY <1>5, <1>6, <1>9
  <2>2. QED
    BY <1>1, <1>2, <1>3, <2>1 DEF LineInv, StreamTypes, BrowserKnows, LineKnows, GoesOn, Subscribed, w
<1>10. CASE frame.kind # "connected"
  <2>1. /\ lastSeq <= frame.seq /\ frame.seq <= Len(log)
        /\ Between(log, lastSeq, frame.seq) = Said(frame)
    BY <1>3, <1>10 DEF Link
  <2>2. Notes(frame.seq) /\ Noted(w, 1, lastSeq) = frame.seq
    BY <1>5, <1>6, <1>7, <1>10
  <2>3. lastSeq' = frame.seq
    BY <1>2, <1>7, <2>1, <2>2 DEF Notes
  <2>4. Between(log, 0, frame.seq) = Between(log, 0, lastSeq) \cup Said(frame)
    <3>1. \A n \in DOMAIN log :
            0 < n /\ n <= frame.seq <=> (0 < n /\ n <= lastSeq) \/ (lastSeq < n /\ n <= frame.seq)
      BY <1>2, <1>7, <1>8, <2>1
    <3>2. QED
      BY <2>1, <3>1 DEF Between
  <2>5. /\ seen' \in Seq(Nat)
        /\ {seen'[i] : i \in DOMAIN seen'} = {seen[i] : i \in DOMAIN seen} \cup Said(frame)
        /\ Feed!See \/ UNCHANGED <<log, seen>>
    <3>1. CASE frame.kind = "event"
      <4>1. seen' = Append(seen, frame.seq) /\ Said(frame) = {frame.seq}
        BY <1>5, <3>1 DEF Said
      <4>2. /\ seen' \in Seq(Nat) /\ Len(seen) \in Nat /\ Len(seen') = Len(seen) + 1
            /\ DOMAIN seen = 1..Len(seen) /\ DOMAIN seen' = 1..Len(seen) + 1
            /\ \A i \in 1..Len(seen) : seen'[i] = seen[i]
            /\ seen'[Len(seen) + 1] = frame.seq
        BY <1>2, <1>7, <4>1, AppendProperties, LenProperties
      <4>3. {seen'[i] : i \in DOMAIN seen'} = {seen[i] : i \in DOMAIN seen} \cup {frame.seq}
        <5>1. 1..Len(seen) + 1 = 1..Len(seen) \cup {Len(seen) + 1}
          BY <4>2
        <5>2. QED
          BY <4>2, <5>1
      <4>4. frame.seq \in DOMAIN log /\ log[frame.seq] /\ lastSeq < frame.seq
        BY <2>1, <4>1 DEF Between
      <4>5. ~Feed!Handled(frame.seq)
        <5>1. frame.seq \notin Between(log, 0, lastSeq)
          BY <1>2, <1>7, <4>4 DEF Between
        <5>2. QED
          BY <1>2, <5>1 DEF Feed!Handled, Feed!ToSet
      <4>6. ASSUME NEW m \in 1..frame.seq - 1, log[m]
            PROVE  Feed!Handled(m)
        <5>1. m \in DOMAIN log /\ 0 < m /\ m <= frame.seq /\ m # frame.seq
          BY <1>7, <1>8, <2>1
        <5>2. m \in Between(log, 0, lastSeq)
          BY <2>4, <4>1, <4>6, <5>1 DEF Between
        <5>3. QED
          BY <1>2, <5>2 DEF Feed!Handled, Feed!ToSet
      <4>7. Feed!See
        BY <1>1, <4>1, <4>4, <4>5, <4>6 DEF Feed!See
      <4>8. QED
        BY <4>1, <4>2, <4>3, <4>7
    <3>2. CASE frame.kind # "event"
      <4>1. seen' = seen /\ Said(frame) = {}
        BY <1>5, <1>7, <1>10, <3>2 DEF Said
      <4>2. QED
        BY <1>1, <1>2, <4>1
    <3>3. QED
      BY <3>1, <3>2
  <2>6. StreamTypes'
    BY <1>1, <1>3, <1>7, <2>3, <2>5 DEF LineInv, StreamTypes, w
  <2>7. BrowserKnows'
    BY <1>1, <1>2, <2>1, <2>3, <2>4, <2>5 DEF BrowserKnows
  <2>8. \A d \in Connections : (entry[d].cursor <= Len(log) /\ LineKnows(d))'
    <3>1. wire'[c] = Tail(w)
      BY <1>1 DEF LineInv, StreamTypes
    <3>2. Chain(log, wire'[c], lastSeq') /\ End(wire'[c], lastSeq') = End(w, lastSeq)
      BY <1>3, <2>2, <2>3, <3>1
    <3>3. GoesOn(c) => entry[c].cursor = End(w, lastSeq)
      BY <1>1 DEF LineInv, LineKnows, w
    <3>4. QED
      BY <1>1, <3>2, <3>3 DEF LineInv, LineKnows, GoesOn, Subscribed
  <2>9. QED
    BY <2>5, <2>6, <2>7, <2>8 DEF LineInv
<1>11. QED
  BY <1>9, <1>10

\* What ends a subscription, or a connection, takes nothing from what was written.
LEMMA ReleaseKeeps ==
  ASSUME LineInv, NEW c \in Connections, ReadEnd(c) \/ Cut(c) \/ Refuse(c) \/ Closed(c)
  PROVE  LineInv' /\ UNCHANGED <<log, seen>>
<1>1. log \in Seq(BOOLEAN) /\ Len(log) \in Nat /\ 0 <= Len(log)
  BY DEF LineInv, StreamTypes
<1>2. NoEntry \in Entries /\ NoEntry.cursor = 0 /\ <<>> \in Seq(Frames)
  BY DEF NoEntry, Entries
<1>3. CASE ReadEnd(c) \/ Cut(c)
  <2>1. /\ reader' = NoConnection /\ UNCHANGED <<log, wire, lastSeq, seen>>
        /\ entry' \in {entry, [entry EXCEPT ![c] = NoEntry]}
        /\ response' \in {response, [response EXCEPT ![c] = "none"]}
    BY <1>3 DEF ReadEnd, Cut
  <2>2. StreamTypes'
    BY <1>2, <2>1 DEF LineInv, StreamTypes, Responses
  <2>3. BrowserKnows'
    BY <2>1 DEF LineInv, BrowserKnows
  <2>4. \A d \in Connections : entry'[d].cursor <= Len(log)
    BY <1>1, <1>2, <2>1 DEF LineInv, StreamTypes
  <2>5. \A d \in Connections : LineKnows(d)'
    BY <2>1, StreamAssumption DEF LineKnows
  <2>6. QED
    BY <2>1, <2>2, <2>3, <2>4, <2>5 DEF LineInv
<1>4. CASE Closed(c)
  <2>1. /\ reader # c /\ UNCHANGED <<log, reader, lastSeq, seen>>
        /\ entry' = [entry EXCEPT ![c] = NoEntry] /\ wire' = [wire EXCEPT ![c] = <<>>]
        /\ response' = [response EXCEPT ![c] = "none"]
    BY <1>4 DEF Closed
  <2>2. StreamTypes'
    BY <1>2, <2>1 DEF LineInv, StreamTypes, Responses
  <2>3. BrowserKnows'
    BY <2>1 DEF LineInv, BrowserKnows
  <2>4. ASSUME NEW d \in Connections
        PROVE  (entry[d].cursor <= Len(log) /\ LineKnows(d))'
    <3>1. CASE d = c
      BY <1>1, <1>2, <2>1, <3>1 DEF LineInv, StreamTypes, LineKnows
    <3>2. CASE d # c
      <4>1. entry'[d] = entry[d] /\ wire'[d] = wire[d] /\ response'[d] = response[d]
        BY <2>1, <3>2 DEF LineInv, StreamTypes
      <4>2. QED
        BY <2>1, <4>1 DEF LineInv, LineKnows, GoesOn, Subscribed
    <3>3. QED
      BY <3>1, <3>2
  <2>5. QED
    BY <2>1, <2>2, <2>3, <2>4 DEF LineInv
<1>5. CASE Refuse(c)
  <2>1. /\ UNCHANGED <<log, entry, wire, reader, lastSeq, seen>>
        /\ response' = [response EXCEPT ![c] = "ended"]
    BY <1>5 DEF Refuse
  <2>2. StreamTypes' /\ BrowserKnows'
    BY <2>1 DEF LineInv, StreamTypes, Responses, BrowserKnows
  <2>3. \A d \in Connections : response'[d] \in {response[d], "ended"}
    BY <2>1 DEF LineInv, StreamTypes
  <2>4. QED
    BY <2>1, <2>2, <2>3 DEF LineInv, LineKnows, GoesOn, Subscribed
<1>6. QED
  BY <1>3, <1>4, <1>5

LEMMA ServerKeeps ==
  ASSUME LineInv, DisconnectAll \/ Stop \/ Down \/ StartServer
  PROVE  LineInv' /\ UNCHANGED <<log, seen>>
<1>1. /\ UNCHANGED <<log, wire, reader, lastSeq, seen>>
      /\ entry' = [c \in Connections |-> Ended(entry[c])] \/ UNCHANGED entry
      /\ \/ response' = [c \in Connections |-> IF Subscribed(c) THEN "ended" ELSE response[c]]
         \/ response' = [c \in Connections |-> IF response[c] = "none" THEN "none" ELSE "ended"]
         \/ UNCHANGED response
  BY DEF DisconnectAll, Stop, Down, StartServer, EndAll
<1>2. ASSUME NEW c \in Connections
      PROVE  /\ entry'[c] \in Entries /\ entry'[c].cursor = entry[c].cursor
             /\ response'[c] \in Responses /\ (GoesOn(c)' => GoesOn(c))
  <2>1. entry[c] \in Entries /\ response[c] \in Responses
    BY DEF LineInv, StreamTypes
  <2>2. Ended(entry[c]) \in Entries /\ Ended(entry[c]).cursor = entry[c].cursor
        /\ Ended(entry[c]).at = "none"
    BY <2>1 DEF Entries, Ended
  <2>3. entry'[c] \in {entry[c], Ended(entry[c])}
    BY <1>1
  <2>4. response'[c] \in {response[c], "none", "ended"}
    BY <1>1
  <2>5. entry'[c] \in Entries /\ entry'[c].cursor = entry[c].cursor /\ response'[c] \in Responses
    BY <2>1, <2>2, <2>3, <2>4 DEF Responses
  <2>6. GoesOn(c)' => GoesOn(c)
    BY <2>2, <2>3, <2>4 DEF GoesOn, Subscribed
  <2>7. QED
    BY <2>5, <2>6
<1>3. entry' \in [Connections -> Entries] /\ response' \in [Connections -> Responses]
  <2>1. entry \in [Connections -> Entries] /\ response \in [Connections -> Responses]
    BY DEF LineInv, StreamTypes
  <2>2. \A c \in Connections : entry'[c] \in Entries /\ response'[c] \in Responses
    BY <1>2
  <2>3. entry' \in [Connections -> Entries]
    BY <1>1, <2>1, <2>2
  <2>4. response' \in [Connections -> Responses]
    BY <1>1, <2>1, <2>2
  <2>5. QED
    BY <2>3, <2>4
<1>4. StreamTypes'
  BY <1>1, <1>3 DEF LineInv, StreamTypes
<1>5. BrowserKnows'
  BY <1>1 DEF LineInv, BrowserKnows
<1>6. ASSUME NEW c \in Connections
      PROVE  (entry[c].cursor <= Len(log) /\ LineKnows(c))'
  <2>1. entry[c].cursor <= Len(log) /\ LineKnows(c)
    BY DEF LineInv
  <2>2. entry'[c].cursor = entry[c].cursor /\ (GoesOn(c)' => GoesOn(c))
    BY <1>2 DEF GoesOn, Subscribed
  <2>3. QED
    BY <1>1, <2>1, <2>2 DEF LineKnows
<1>7. QED
  BY <1>1, <1>4, <1>5, <1>6 DEF LineInv

\* A write leaves a connection within its buffer, or over it by the frame that ends it.
LEMMA WrittenLength ==
  ASSUME NEW w \in Seq(Frames), NEW f \in Seq(Frames), Len(w) <= Buffer
  PROVE  /\ Len(Written(w, f)) <= Buffer + 1
         /\ ~Overflows(w, f) => Len(Written(w, f)) <= Buffer
<1>1. Len(w) \in Nat /\ Len(f) \in Nat /\ Buffer \in Nat
  BY StreamAssumption, LenProperties
<1>2. CASE Overflows(w, f)
  <2> DEFINE n == Buffer + 1 - Len(w)
  <2>1. n \in Nat /\ 1 <= n /\ n <= Len(f)
    BY <1>1, <1>2 DEF Overflows
  <2>2. \A i \in 1..n : f[i] \in Frames
    BY <1>1, <2>1, ElementOfSeq
  <2>3. SubSeq(f, 1, n) \in Seq(Frames) /\ Len(SubSeq(f, 1, n)) = n
    BY <2>1, <2>2, SubSeqProperties
  <2>4. Written(w, f) = w \o SubSeq(f, 1, n)
    BY <1>1, <1>2 DEF Written
  <2> HIDE DEF n
  <2>5. Len(Written(w, f)) = Len(w) + n
    BY <2>3, <2>4, ConcatProperties
  <2>6. QED
    BY <1>1, <1>2, <2>1, <2>5 DEF n
<1>3. CASE ~Overflows(w, f)
  <2>1. Written(w, f) = w \o f /\ Len(w \o f) = Len(w) + Len(f)
    BY <1>3, ConcatProperties DEF Written
  <2>2. QED
    BY <1>1, <1>3, <2>1 DEF Overflows
<1>4. QED
  BY <1>2, <1>3

\* An entry and its response after a turn.
LEMMA TurnReleases ==
  ASSUME NEW l, NEW s, NEW w \in Seq(Frames), NEW f \in Seq(Frames), Len(w) <= Buffer
  PROVE  LET e == EntryAfter(l, s, w, f)
         IN  /\ e.at \in {"replaying", "live"} <=> ResponseOf(e) = "open"
             /\ ResponseOf(e) \in {"open", "ended"}
             /\ Len(Written(w, f)) <= IF e.at \in {"replaying", "live"} THEN Buffer ELSE Buffer + 1
  BY WrittenLength DEF EntryAfter, ResponseOf

LEMMA ReleasedKeeps ==
  ASSUME StreamInv, [StreamNext]_streamVars
  PROVE  ReleasedTogether'
<1>1. /\ log \in Seq(BOOLEAN) /\ entry \in [Connections -> Entries]
      /\ response \in [Connections -> Responses] /\ wire \in [Connections -> Seq(Frames)]
      /\ \A c \in Connections : entry[c].cursor \in Nat /\ entry[c].cursor <= Len(log)
  BY DEF StreamInv, LineInv, StreamTypes, Entries
<1>2. ReleasedTogether /\ Buffer \in Nat /\ StreamTypes
  BY StreamAssumption DEF StreamInv, LineInv
<1>3. ASSUME NEW c \in Connections, entry'[c] = entry[c], wire'[c] = wire[c], response'[c] = response[c]
      PROVE  /\ Subscribed(c)' <=> response'[c] = "open"
             /\ response'[c] \in {"none", "requested"} => wire'[c] = <<>>
             /\ Len(wire'[c]) <= IF Subscribed(c)' THEN Buffer ELSE Buffer + 1
  BY <1>2, <1>3 DEF ReleasedTogether, Subscribed
<1>4. ASSUME NEW c \in Connections, entry'[c].at = "none", wire'[c] = wire[c],
             \/ response'[c] = "ended"
             \/ response'[c] = response[c] /\ response[c] # "open"
      PROVE  /\ Subscribed(c)' <=> response'[c] = "open"
             /\ response'[c] \in {"none", "requested"} => wire'[c] = <<>>
             /\ Len(wire'[c]) <= IF Subscribed(c)' THEN Buffer ELSE Buffer + 1
  <2>1. Len(wire[c]) \in Nat /\ Len(wire[c]) <= Buffer + 1
    BY <1>1, <1>2, LenProperties DEF ReleasedTogether
  <2>2. QED
    BY <1>2, <1>4, <2>1 DEF ReleasedTogether, Subscribed
<1>5. ASSUME NEW c \in Connections, entry'[c].at = "none", wire'[c] = <<>>, response'[c] # "open"
      PROVE  /\ Subscribed(c)' <=> response'[c] = "open"
             /\ response'[c] \in {"none", "requested"} => wire'[c] = <<>>
             /\ Len(wire'[c]) <= IF Subscribed(c)' THEN Buffer ELSE Buffer + 1
  BY <1>2, <1>5 DEF Subscribed
<1>6. ASSUME NEW c \in Connections, NEW l, NEW s, NEW w \in Seq(Frames), NEW f \in Seq(Frames),
             Len(w) <= Buffer, entry'[c] = EntryAfter(l, s, w, f), wire'[c] = Written(w, f),
             response'[c] = ResponseOf(entry'[c])
      PROVE  /\ Subscribed(c)' <=> response'[c] = "open"
             /\ response'[c] \in {"none", "requested"} => wire'[c] = <<>>
             /\ Len(wire'[c]) <= IF Subscribed(c)' THEN Buffer ELSE Buffer + 1
  BY <1>6, TurnReleases DEF Subscribed
<1>7. \A c \in Connections : Subscribed(c) => Len(wire[c]) <= Buffer
  BY <1>2 DEF ReleasedTogether
<1>8. ASSUME NEW c \in Connections, Turn(c)
      PROVE  ReleasedTogether'
  <2> DEFINE f == FramesOf(log, entry[c].cursor)
  <2>1. /\ wire' = [wire EXCEPT ![c] = Written(wire[c], f)]
        /\ entry' = [entry EXCEPT ![c] = EntryAfter(log, entry[c].cursor, wire[c], f)]
        /\ response' = [response EXCEPT ![c] = ResponseOf(entry'[c])]
        /\ Subscribed(c)
    BY <1>8 DEF Turn, Subscribed
  <2>2. f \in Seq(Frames)
    BY <1>1, FramesOfChain
  <2> HIDE DEF f
  <2>3. /\ wire'[c] = Written(wire[c], f) /\ response'[c] = ResponseOf(entry'[c])
        /\ entry'[c] = EntryAfter(log, entry[c].cursor, wire[c], f)
        /\ wire[c] \in Seq(Frames) /\ Len(wire[c]) <= Buffer
    BY <1>1, <1>7, <2>1
  <2>4. \A d \in Connections \ {c} :
          entry'[d] = entry[d] /\ wire'[d] = wire[d] /\ response'[d] = response[d]
    BY <1>1, <2>1
  <2>5. QED
    BY <1>3, <1>6, <2>2, <2>3, <2>4 DEF ReleasedTogether
<1>9. ASSUME NEW batch \in Batches, CommitEvents(batch)
      PROVE  ReleasedTogether'
  <2> DEFINE newer == log \o batch
             f(c) == FramesOf(newer, entry[c].cursor)
  <2>1. \A c \in Connections :
          IF entry[c].at = "live"
          THEN /\ wire'[c] = Written(wire[c], f(c)) /\ response'[c] = ResponseOf(entry'[c])
               /\ entry'[c] = EntryAfter(newer, entry[c].cursor, wire[c], f(c))
          ELSE entry'[c] = entry[c] /\ wire'[c] = wire[c] /\ response'[c] = response[c]
    BY <1>9 DEF CommitEvents
  <2>2. newer \in Seq(BOOLEAN) /\ Len(newer) \in Nat /\ Len(log) <= Len(newer) /\ Len(log) \in Nat
    <3>1. batch \in Seq(BOOLEAN) /\ Len(batch) \in Nat
      <4>1. CASE \E a \in BOOLEAN : batch = <<a>>
        BY <4>1
      <4>2. CASE \E a, b \in BOOLEAN : batch = <<a, b>>
        BY <4>2
      <4>3. QED
        BY <4>1, <4>2 DEF Batches
    <3>2. QED
      BY <1>1, <3>1, ConcatProperties
  <2> HIDE DEF newer
  <2>3. \A c \in Connections : f(c) \in Seq(Frames)
    <3>1. \A c \in Connections : entry[c].cursor \in Nat /\ entry[c].cursor <= Len(newer)
      BY <1>1, <2>2
    <3>2. QED
      BY <2>2, <3>1, FramesOfChain
  <2> HIDE DEF f
  <2>4. ASSUME NEW c \in Connections
        PROVE  /\ Subscribed(c)' <=> response'[c] = "open"
               /\ response'[c] \in {"none", "requested"} => wire'[c] = <<>>
               /\ Len(wire'[c]) <= IF Subscribed(c)' THEN Buffer ELSE Buffer + 1
    <3>1. CASE entry[c].at = "live"
      <4>1. Len(wire[c]) <= Buffer /\ wire[c] \in Seq(Frames)
        BY <1>1, <1>7, <3>1 DEF Subscribed
      <4>2. QED
        BY <1>6, <2>1, <2>3, <3>1, <4>1
    <3>2. CASE entry[c].at # "live"
      BY <1>3, <2>1, <3>2
    <3>3. QED
      BY <3>1, <3>2
  <2>5. QED
    BY <2>4 DEF ReleasedTogether
<1>10. ASSUME NEW c \in Connections, Attach(c)
       PROVE  ReleasedTogether'
  <2> DEFINE s == entry[c].cursor
             hello == <<Frame("connected", Len(log))>>
             frames == hello \o FramesOf(log, s)
             fresh == EntryAfter(log, s, <<>>, frames)
  <2>1. /\ response[c] = "requested"
        /\ \/ /\ entry' = [entry EXCEPT ![c] = fresh]
              /\ response' = [response EXCEPT ![c] = ResponseOf(fresh)]
              /\ wire' = [wire EXCEPT ![c] = Written(<<>>, frames)]
           \/ /\ \E left \in {NoEntry, fresh} : entry' = [entry EXCEPT ![c] = Ended(left)]
              /\ response' = [response EXCEPT ![c] = "none"]
              /\ UNCHANGED wire
    BY <1>10 DEF Attach, HandleClosed
  <2>2. frames \in Seq(Frames)
    <3>1. FramesOf(log, s) \in Seq(Frames)
      BY <1>1, FramesOfChain
    <3>2. hello \in Seq(Frames)
      BY <1>1, LenProperties DEF Frame, Frames
    <3> HIDE DEF hello
    <3>3. QED
      BY <3>1, <3>2, ConcatProperties
  <2>3. fresh \in Entries
    <3>1. \A e \in {fresh} : e.at \in {"none", "replaying", "live"}
      BY DEF EntryAfter
    <3>2. CursorAfter(log, s) \in Nat
      BY <1>1, FramesOfChain
    <3>3. QED
      BY <3>1, <3>2 DEF EntryAfter, Entries
  <2> HIDE DEF frames
  <2>4. CASE /\ entry' = [entry EXCEPT ![c] = fresh]
             /\ response' = [response EXCEPT ![c] = ResponseOf(fresh)]
             /\ wire' = [wire EXCEPT ![c] = Written(<<>>, frames)]
    <3>1. /\ entry'[c] = EntryAfter(log, s, <<>>, frames) /\ wire'[c] = Written(<<>>, frames)
          /\ response'[c] = ResponseOf(entry'[c])
      BY <1>1, <2>4
    <3>2. \A d \in Connections \ {c} :
            entry'[d] = entry[d] /\ wire'[d] = wire[d] /\ response'[d] = response[d]
      BY <1>1, <2>4
    <3> DEFINE w == <<>>
    <3>3. w \in Seq(Frames) /\ Len(w) <= Buffer
      BY <1>2
    <3>4. entry'[c] = EntryAfter(log, s, w, frames) /\ wire'[c] = Written(w, frames)
      BY <3>1
    <3> HIDE DEF w, s
    <3>5. /\ Subscribed(c)' <=> response'[c] = "open"
          /\ response'[c] \in {"none", "requested"} => wire'[c] = <<>>
          /\ Len(wire'[c]) <= IF Subscribed(c)' THEN Buffer ELSE Buffer + 1
      BY <1>6, <2>2, <3>1, <3>3, <3>4
    <3>6. QED
      BY <1>3, <3>2, <3>5 DEF ReleasedTogether
  <2>5. CASE /\ \E left \in {NoEntry, fresh} : entry' = [entry EXCEPT ![c] = Ended(left)]
             /\ response' = [response EXCEPT ![c] = "none"]
             /\ UNCHANGED wire
    <3>1. PICK left \in {NoEntry, fresh} : entry' = [entry EXCEPT ![c] = Ended(left)]
      BY <2>5
    <3>2. Ended(left).at = "none"
      BY <2>3, <3>1 DEF Ended, NoEntry, Entries
    <3>3. entry'[c].at = "none" /\ wire'[c] = <<>> /\ response'[c] # "open"
      BY <1>1, <1>2, <2>1, <2>5, <3>1, <3>2 DEF ReleasedTogether
    <3>4. \A d \in Connections \ {c} :
            entry'[d] = entry[d] /\ wire'[d] = wire[d] /\ response'[d] = response[d]
      BY <1>1, <2>5, <3>1
    <3>5. QED
      BY <1>3, <1>5, <3>3, <3>4 DEF ReleasedTogether
  <2>6. QED
    BY <2>1, <2>4, <2>5
<1>11. ASSUME NEW c \in Connections, Connect(c) \/ ReadEnd(c) \/ Closed(c)
       PROVE  ReleasedTogether'
  <2>1. /\ entry'[c].at = "none" /\ wire'[c] = <<>> /\ response'[c] # "open"
        /\ \A d \in Connections \ {c} :
             entry'[d] = entry[d] /\ wire'[d] = wire[d] /\ response'[d] = response[d]
    BY <1>1, <1>2, <1>11 DEF Connect, ReadEnd, Closed, NoEntry, ReleasedTogether
  <2>2. QED
    BY <1>3, <1>5, <2>1 DEF ReleasedTogether
<1>12. ASSUME NEW c \in Connections, Read(c)
       PROVE  ReleasedTogether'
  <2>1. /\ wire' = [wire EXCEPT ![c] = Tail(wire[c])] /\ wire[c] # <<>>
        /\ UNCHANGED <<entry, response>>
    BY <1>12 DEF Read
  <2>2. wire[c] \in Seq(Frames) /\ wire'[c] = Tail(wire[c])
    BY <1>1, <2>1
  <2>3. Len(wire[c]) \in Nat /\ Len(wire'[c]) = Len(wire[c]) - 1
    BY <2>1, <2>2, LenProperties, HeadTailProperties
  <2>4. response[c] \notin {"none", "requested"}
    BY <1>2, <2>1 DEF ReleasedTogether
  <2>5. \A d \in Connections \ {c} :
          entry'[d] = entry[d] /\ wire'[d] = wire[d] /\ response'[d] = response[d]
    BY <1>1, <2>1
  <2>6. /\ Subscribed(c)' <=> response'[c] = "open"
        /\ response'[c] \in {"none", "requested"} => wire'[c] = <<>>
        /\ Len(wire'[c]) <= IF Subscribed(c)' THEN Buffer ELSE Buffer + 1
    BY <1>2, <2>1, <2>3, <2>4 DEF ReleasedTogether, Subscribed
  <2>7. QED
    BY <1>3, <2>5, <2>6 DEF ReleasedTogether
<1>13. ASSUME NEW c \in Connections, Refuse(c)
       PROVE  ReleasedTogether'
  <2>1. /\ UNCHANGED <<entry, wire>> /\ response[c] = "requested"
        /\ response' = [response EXCEPT ![c] = "ended"]
    BY <1>13 DEF Refuse
  <2>2. entry'[c].at = "none" /\ response'[c] = "ended"
    BY <1>1, <1>2, <2>1 DEF ReleasedTogether, Subscribed, Entries
  <2>3. \A d \in Connections \ {c} : response'[d] = response[d]
    BY <1>1, <2>1
  <2>4. QED
    BY <1>3, <1>4, <2>1, <2>2, <2>3 DEF ReleasedTogether
<1>14. ASSUME DisconnectAll \/ Down
       PROVE  ReleasedTogether'
  <2>1. /\ UNCHANGED wire /\ entry' = [c \in Connections |-> Ended(entry[c])]
        /\ \/ response' = [c \in Connections |-> IF Subscribed(c) THEN "ended" ELSE response[c]]
           \/ response' = [c \in Connections |-> IF response[c] = "none" THEN "none" ELSE "ended"]
    BY <1>14 DEF DisconnectAll, Down, EndAll
  <2>2. ASSUME NEW c \in Connections
        PROVE  /\ entry'[c].at = "none" /\ wire'[c] = wire[c]
               /\ \/ response'[c] = "ended"
                  \/ response'[c] = response[c] /\ response[c] # "open"
    <3>1. entry'[c].at = "none"
      BY <1>1, <2>1 DEF Ended, Entries
    <3>2. response[c] = "open" => Subscribed(c)
      BY <1>2 DEF ReleasedTogether
    <3>3. QED
      BY <2>1, <3>1, <3>2
  <2>3. QED
    BY <1>4, <2>2 DEF ReleasedTogether
<1>15. CASE UNCHANGED <<entry, response, wire>>
  BY <1>2, <1>15 DEF ReleasedTogether, Subscribed
<1>16. QED
  BY <1>8, <1>9, <1>10, <1>11, <1>12, <1>13, <1>14, <1>15
     DEF StreamNext, Cut, Stop, StartServer, streamVars

-----------------------------------------------------------------------------
LEMMA StreamStep ==
  ASSUME StreamInv, [StreamNext]_streamVars
  PROVE  LineInv' /\ [Feed!Commit \/ Feed!See]_<<log, seen>>
<1>1. CASE \E batch \in Batches : CommitEvents(batch)
  BY <1>1, CommitEventsKeeps DEF StreamInv
<1>2. CASE \E c \in Connections : Turn(c) \/ Connect(c) \/ Read(c) \/ ReadEnd(c) \/ Cut(c)
                                  \/ Attach(c) \/ Refuse(c) \/ Closed(c)
  BY <1>2, TurnKeeps, ConnectKeeps, AttachKeeps, ReadKeeps, ReleaseKeeps DEF StreamInv
<1>3. CASE DisconnectAll \/ Stop \/ Down \/ StartServer
  BY <1>3, ServerKeeps DEF StreamInv
<1>4. CASE UNCHANGED streamVars
  BY <1>4 DEF streamVars, StreamInv, LineInv, StreamTypes, BrowserKnows, LineKnows, GoesOn, Subscribed
<1>5. QED
  BY <1>1, <1>2, <1>3, <1>4 DEF StreamNext

\* The browser has handled exactly the Events in its scope up to the sequence it noted, and
\* what is written to it goes on from there, over pages, cuts, cut-offs and restarts
\* (events/stream.ts, stores/connection.ts).
THEOREM StreamIsConnected == StreamSpec => []StreamInv
<1>1. StreamInit => StreamInv
  <2>1. StreamInit => ReleasedTogether
    BY StreamAssumption DEF StreamInit, ReleasedTogether, Subscribed, NoEntry
  <2>2. QED
    BY <2>1, StreamBegins DEF StreamInv
<1>2. StreamInv /\ [StreamNext]_streamVars => StreamInv'
  BY StreamStep, ReleasedKeeps DEF StreamInv
<1>3. QED
  BY <1>1, <1>2, PTL DEF StreamSpec

\* Entry and response of every connection end together, also inside subscribe, for every
\* number of connections and every size of pages and buffers (api/events.ts).
THEOREM ReleasedTogetherHolds == StreamSpec => []ReleasedTogether
<1>1. StreamInv => ReleasedTogether
  BY DEF StreamInv
<1>2. QED
  BY <1>1, StreamIsConnected, PTL

\* The stream implements the safety half of its promise (FeedKept): every committed Event in
\* scope is handled once and in order, whatever the sizes of pages and buffers and however
\* often the line is cut or the server restarted.
THEOREM FeedIsInOrder == StreamSpec => Feed!InOrder
<1>1. StreamInit => Feed!Init
  BY DEF StreamInit, Feed!Init
<1>2. StreamInv /\ [StreamNext]_streamVars => [Feed!Commit \/ Feed!See]_<<log, seen>>
  BY StreamStep
<1>3. QED
  BY <1>1, <1>2, StreamIsConnected, PTL DEF StreamSpec, Feed!InOrder

-----------------------------------------------------------------------------
(***************************************************************************)
(* Sums over finite sets.                                                  *)
(***************************************************************************)
\* A property of finite sets that fails, fails of a set with the fewest elements.
LEMMA SmallestExists ==
  ASSUME NEW B, B # {}, \A T \in B : IsFiniteSet(T)
  PROVE  \E T \in B : \A U \in B : Cardinality(U) \in Nat /\ Cardinality(T) <= Cardinality(U)
<1> DEFINE sizes == {Cardinality(T) : T \in B}
<1>1. \A T \in B : Cardinality(T) \in Nat
  BY FS_CardinalityType
<1>2. sizes \subseteq Nat /\ sizes # {}
  BY <1>1
<1>3. PICK n \in sizes : \A m \in sizes : n <= m
  BY <1>2, LeastExists
<1>4. PICK T \in B : Cardinality(T) = n
  BY <1>3
<1>5. QED
  BY <1>1, <1>3, <1>4

-----------------------------------------------------------------------------
(***************************************************************************)
(* The sum as the community module computes it, one element at a time.     *)
(***************************************************************************)
Chosen(T) == CHOOSE x \in T : TRUE
StepOf(f, sum, T) == IF T = {} THEN 0 ELSE f[Chosen(T)] + sum[T \ {Chosen(T)}]
Summing(f, S) == CHOOSE sum : sum = [T \in SUBSET S |-> StepOf(f, sum, T)]

LEMMA SumIsSumming ==
  ASSUME NEW f, NEW S
  PROVE  SumOver(f, S) = Summing(f, S)[S]
BY DEF SumOver, MapThenSumSet, MapThenFoldSet, Summing, StepOf, Chosen

LEMMA ChosenIs ==
  ASSUME NEW S, IsFiniteSet(S), NEW T \in SUBSET S, T # {}
  PROVE  /\ Chosen(T) \in T /\ T \ {Chosen(T)} \in SUBSET S
         /\ Cardinality(T) \in Nat /\ Cardinality(T \ {Chosen(T)}) = Cardinality(T) - 1
<1>1. Chosen(T) \in T
  BY DEF Chosen
<1>2. IsFiniteSet(T)
  BY FS_Subset
<1>3. QED
  BY <1>1, <1>2, FS_RemoveElement, FS_CardinalityType

Sums(f, S, n) ==
  \E sum \in [SUBSET S -> Int] : \A T \in SUBSET S : Cardinality(T) <= n => sum[T] = StepOf(f, sum, T)

LEMMA SumsExist ==
  ASSUME NEW S, IsFiniteSet(S), NEW f, \A x \in S : f[x] \in Int
  PROVE  \A n \in Nat : Sums(f, S, n)
<1> DEFINE bad == {n \in Nat : ~Sums(f, S, n)}
<1>1. SUFFICES ASSUME bad # {} PROVE FALSE
  OBVIOUS
<1>2. bad \subseteq Nat
  OBVIOUS
<1>3. PICK n \in bad : \A m \in bad : n <= m
  BY <1>1, <1>2, LeastExists
<1>4. n \in Nat /\ ~Sums(f, S, n)
  BY <1>3
<1>5. \A T \in SUBSET S : IsFiniteSet(T) /\ Cardinality(T) \in Nat /\ (Cardinality(T) = 0 <=> T = {})
  BY FS_Subset, FS_CardinalityType, FS_EmptySet
<1>6. CASE n = 0
  <2> DEFINE zero == [T \in SUBSET S |-> 0]
  <2>1. zero \in [SUBSET S -> Int]
    OBVIOUS
  <2>2. ASSUME NEW T \in SUBSET S, Cardinality(T) <= 0
        PROVE  zero[T] = StepOf(f, zero, T)
    <3>1. T = {}
      BY <1>5, <2>2
    <3>2. QED
      BY <3>1 DEF StepOf
  <2>3. QED
    BY <1>4, <1>6, <2>1, <2>2 DEF Sums
<1>7. CASE n # 0
  <2>1. n - 1 \in Nat /\ n - 1 \notin bad
    BY <1>3, <1>4, <1>7
  <2>2. PICK sum \in [SUBSET S -> Int] :
          \A T \in SUBSET S : Cardinality(T) <= n - 1 => sum[T] = StepOf(f, sum, T)
    BY <2>1 DEF Sums
  <2> DEFINE more == [T \in SUBSET S |-> StepOf(f, sum, T)]
  <2>3. ASSUME NEW T \in SUBSET S
        PROVE  StepOf(f, sum, T) \in Int
    <3>1. CASE T = {}
      BY <3>1 DEF StepOf
    <3>2. CASE T # {}
      <4>1. Chosen(T) \in S /\ T \ {Chosen(T)} \in SUBSET S
        BY <3>2, ChosenIs
      <4>2. f[Chosen(T)] \in Int /\ sum[T \ {Chosen(T)}] \in Int
        BY <2>2, <4>1
      <4>3. QED
        BY <3>2, <4>2 DEF StepOf
    <3>3. QED
      BY <3>1, <3>2
  <2>4. more \in [SUBSET S -> Int]
    BY <2>3
  <2>5. ASSUME NEW T \in SUBSET S, Cardinality(T) <= n
        PROVE  more[T] = StepOf(f, more, T)
    <3>1. CASE T = {}
      BY <3>1 DEF StepOf
    <3>2. CASE T # {}
      <4> DEFINE U == T \ {Chosen(T)}
      <4>1. U \in SUBSET S /\ Cardinality(U) = Cardinality(T) - 1 /\ Cardinality(T) \in Nat
        BY <3>2, ChosenIs
      <4>2. Cardinality(U) <= n - 1
        BY <1>4, <2>5, <4>1
      <4>3. more[U] = sum[U]
        BY <2>2, <4>1, <4>2
      <4>4. QED
        BY <3>2, <4>3 DEF StepOf
    <3>3. QED
      BY <3>1, <3>2
  <2>6. Sums(f, S, n)
    BY <2>4, <2>5 DEF Sums
  <2>7. QED
    BY <1>4, <2>6
<1>8. QED
  BY <1>6, <1>7

LEMMA SummingSteps ==
  ASSUME NEW S, IsFiniteSet(S), NEW f, \A x \in S : f[x] \in Int
  PROVE  \A T \in SUBSET S : Summing(f, S)[T] = StepOf(f, Summing(f, S), T)
<1>1. \A T \in SUBSET S : Cardinality(T) <= Cardinality(S) /\ Cardinality(S) \in Nat
  BY FS_Subset, FS_CardinalityType
<1>2. PICK sum \in [SUBSET S -> Int] : \A T \in SUBSET S : sum[T] = StepOf(f, sum, T)
  <2>1. Cardinality(S) \in Nat
    BY <1>1
  <2>2. Sums(f, S, Cardinality(S))
    BY <2>1, SumsExist
  <2>3. QED
    BY <1>1, <2>2 DEF Sums
<1>3. sum = [T \in SUBSET S |-> StepOf(f, sum, T)]
  BY <1>2
<1>4. Summing(f, S) = [T \in SUBSET S |-> StepOf(f, Summing(f, S), T)]
  BY <1>3 DEF Summing
<1> DEFINE g == Summing(f, S)
<1> HIDE DEF g
<1>5. g = [T \in SUBSET S |-> StepOf(f, g, T)]
  BY <1>4 DEF g
<1>6. \A T \in SUBSET S : g[T] = StepOf(f, g, T)
  BY <1>5
<1>7. QED
  BY <1>6 DEF g

\* The sum over a part does not depend on the whole it is a part of.
LEMMA SummingIsSum ==
  ASSUME NEW S, IsFiniteSet(S), NEW f, \A x \in S : f[x] \in Int,
         NEW W \in SUBSET S, NEW T \in SUBSET W
  PROVE  Summing(f, W)[T] = SumOver(f, T) /\ SumOver(f, T) \in Int
<1> DEFINE Wrong(U) == ~(SumOver(f, U) \in Int /\ \A V \in SUBSET S : U \in SUBSET V => Summing(f, V)[U] = SumOver(f, U))
           bad == {U \in SUBSET S : Wrong(U)}
<1>1. SUFFICES ASSUME bad # {} PROVE FALSE
  OBVIOUS
<1>2. \A U \in SUBSET S : IsFiniteSet(U)
  BY FS_Subset
<1>3. PICK U \in bad : \A V \in bad : Cardinality(V) \in Nat /\ Cardinality(U) <= Cardinality(V)
  BY <1>1, <1>2, SmallestExists
<1>4. U \in SUBSET S /\ Wrong(U)
  BY <1>3
<1> HIDE DEF bad, Wrong
<1>5. \A V \in SUBSET S : U \in SUBSET V => Summing(f, V)[U] = StepOf(f, Summing(f, V), U)
  <2>1. ASSUME NEW V \in SUBSET S, U \in SUBSET V
        PROVE  Summing(f, V)[U] = StepOf(f, Summing(f, V), U)
    <3>1. IsFiniteSet(V) /\ \A x \in V : f[x] \in Int
      BY <1>2
    <3>2. QED
      BY <2>1, <3>1, SummingSteps
  <2>2. QED
    BY <2>1
<1>6. SumOver(f, U) = Summing(f, U)[U] /\ U \in SUBSET U
  BY SumIsSumming
<1>7. CASE U = {}
  <2>1. \A V \in SUBSET S : Summing(f, V)[U] = 0
    BY <1>5, <1>7 DEF StepOf
  <2>2. SumOver(f, U) = 0
    BY <1>4, <1>6, <2>1
  <2>3. QED
    BY <1>4, <2>1, <2>2 DEF Wrong
<1>8. CASE U # {}
  <2> DEFINE c == Chosen(U)
             R == U \ {c}
  <2>1. c \in U /\ R \in SUBSET S /\ Cardinality(U) \in Nat /\ Cardinality(R) = Cardinality(U) - 1
    BY <1>4, <1>8, ChosenIs
  <2>2. R \notin bad
    BY <1>3, <2>1
  <2>3. SumOver(f, R) \in Int /\ \A V \in SUBSET S : R \in SUBSET V => Summing(f, V)[R] = SumOver(f, R)
    BY <2>1, <2>2 DEF bad, Wrong
  <2>4. ASSUME NEW V \in SUBSET S, U \in SUBSET V
        PROVE  Summing(f, V)[U] = f[c] + SumOver(f, R)
    <3>1. Summing(f, V)[U] = f[c] + Summing(f, V)[R]
      BY <1>5, <1>8, <2>4 DEF StepOf
    <3>2. R \in SUBSET V
      BY <2>4
    <3>3. QED
      BY <2>3, <3>1, <3>2
  <2>5. SumOver(f, U) = f[c] + SumOver(f, R)
    BY <1>4, <1>6, <2>4
  <2>6. f[c] \in Int
    BY <1>4, <2>1
  <2>7. SumOver(f, U) \in Int
    BY <2>3, <2>5, <2>6
  <2>8. QED
    BY <1>4, <2>4, <2>5, <2>7 DEF Wrong
<1>9. QED
  BY <1>7, <1>8

LEMMA SumChosen ==
  ASSUME NEW S, IsFiniteSet(S), NEW f, \A x \in S : f[x] \in Int
  PROVE  /\ SumOver(f, S) \in Int
         /\ S = {} => SumOver(f, S) = 0
         /\ S # {} => SumOver(f, S) = f[Chosen(S)] + SumOver(f, S \ {Chosen(S)})
<1>1. S \in SUBSET S /\ SumOver(f, S) \in Int
  BY SummingIsSum
<1>2. SumOver(f, S) = StepOf(f, Summing(f, S), S)
  BY <1>1, SumIsSumming, SummingSteps
<1>3. S \ {Chosen(S)} \in SUBSET S
  OBVIOUS
<1>4. Summing(f, S)[S \ {Chosen(S)}] = SumOver(f, S \ {Chosen(S)})
  BY <1>1, <1>3, SummingIsSum
<1>5. QED
  BY <1>1, <1>2, <1>4 DEF StepOf

\* The order of the elements does not matter.
LEMMA SumRemove ==
  ASSUME NEW S, IsFiniteSet(S), NEW f, \A x \in S : f[x] \in Int, NEW x \in S
  PROVE  SumOver(f, S) = f[x] + SumOver(f, S \ {x})
<1> DEFINE Wrong(T) == \E y \in T : SumOver(f, T) # f[y] + SumOver(f, T \ {y})
           bad == {T \in SUBSET S : Wrong(T)}
<1>1. SUFFICES ASSUME bad # {} PROVE FALSE
  OBVIOUS
<1>2. \A T \in SUBSET S : IsFiniteSet(T) /\ Cardinality(T) \in Nat /\ SumOver(f, T) \in Int
  <2>1. \A T \in SUBSET S : IsFiniteSet(T)
    BY FS_Subset
  <2>2. \A T \in SUBSET S : \A y \in T : f[y] \in Int
    OBVIOUS
  <2>3. QED
    BY <2>1, <2>2, FS_CardinalityType, SumChosen
<1>3. PICK T \in bad : \A U \in bad : Cardinality(U) \in Nat /\ Cardinality(T) <= Cardinality(U)
  <2>1. \A U \in bad : IsFiniteSet(U)
    BY <1>2
  <2>2. QED
    BY <1>1, <2>1, SmallestExists
<1>4. T \in SUBSET S /\ Wrong(T)
  BY <1>3
<1>5. PICK y \in T : SumOver(f, T) # f[y] + SumOver(f, T \ {y})
  BY <1>4
<1> DEFINE c == Chosen(T)
<1>6. /\ c \in T /\ SumOver(f, T) = f[c] + SumOver(f, T \ {c})
      /\ IsFiniteSet(T) /\ \A z \in T : f[z] \in Int
  <2>1. IsFiniteSet(T) /\ T # {} /\ \A z \in T : f[z] \in Int
    BY <1>2, <1>4, <1>5
  <2>2. QED
    BY <2>1, SumChosen, ChosenIs, <1>4
<1>7. y # c
  BY <1>5, <1>6
<1> HIDE DEF c, bad, Wrong
<1>8. ASSUME NEW z \in T
      PROVE  ~Wrong(T \ {z})
  <2>1. T \ {z} \in SUBSET S /\ Cardinality(T \ {z}) = Cardinality(T) - 1 /\ Cardinality(T) \in Nat
    BY <1>2, <1>4, FS_RemoveElement
  <2>2. T \ {z} \notin bad
    BY <1>3, <2>1
  <2>3. QED
    BY <2>1, <2>2 DEF bad
<1>9. SumOver(f, T \ {c}) = f[y] + SumOver(f, (T \ {c}) \ {y})
  BY <1>6, <1>7, <1>8 DEF Wrong
<1>10. SumOver(f, T \ {y}) = f[c] + SumOver(f, (T \ {y}) \ {c})
  BY <1>6, <1>7, <1>8 DEF Wrong
<1>11. (T \ {c}) \ {y} = (T \ {y}) \ {c} /\ SumOver(f, (T \ {y}) \ {c}) \in Int
  BY <1>2, <1>4
<1>12. f[c] \in Int /\ f[y] \in Int
  BY <1>6
<1>13. SumOver(f, T) = f[c] + (f[y] + SumOver(f, (T \ {y}) \ {c}))
  BY <1>6, <1>9, <1>11
<1>14. SumOver(f, T) # f[y] + (f[c] + SumOver(f, (T \ {y}) \ {c}))
  BY <1>5, <1>10
<1>15. QED
  BY <1>11, <1>12, <1>13, <1>14

\* What is added to the values of some elements is added to the sum.
LEMMA SumGrows ==
  ASSUME NEW S, IsFiniteSet(S), NEW M \in SUBSET S, NEW f, NEW g, NEW d,
         \A x \in S : f[x] \in Int /\ g[x] \in Int, \A x \in M : d[x] \in Int,
         \A x \in S : g[x] = IF x \in M THEN f[x] + d[x] ELSE f[x]
  PROVE  SumOver(g, S) = SumOver(f, S) + SumOver(d, M)
<1> DEFINE Wrong(T) == SumOver(g, T) # SumOver(f, T) + SumOver(d, T \cap M)
           bad == {T \in SUBSET S : Wrong(T)}
<1>1. SUFFICES ASSUME bad # {} PROVE FALSE
  <2>1. S \in SUBSET S /\ S \cap M = M
    OBVIOUS
  <2>2. QED
    BY <2>1
<1>2. \A T \in SUBSET S : IsFiniteSet(T) /\ IsFiniteSet(T \cap M) /\ Cardinality(T) \in Nat
  BY FS_Subset, FS_CardinalityType
<1>3. PICK T \in bad : \A U \in bad : Cardinality(U) \in Nat /\ Cardinality(T) <= Cardinality(U)
  <2>1. \A U \in bad : IsFiniteSet(U)
    BY <1>2
  <2>2. QED
    BY <1>1, <2>1, SmallestExists
<1>4. T \in SUBSET S /\ Wrong(T)
  BY <1>3
<1> HIDE DEF bad, Wrong
<1>5. /\ IsFiniteSet(T) /\ IsFiniteSet(T \cap M)
      /\ \A x \in T : f[x] \in Int /\ g[x] \in Int
      /\ \A x \in T \cap M : d[x] \in Int
  BY <1>2, <1>4
<1>6. CASE T = {}
  <2>1. T \cap M = {}
    BY <1>6
  <2>2. SumOver(g, T) = 0 /\ SumOver(f, T) = 0 /\ SumOver(d, T \cap M) = 0
    BY <1>5, <1>6, <2>1, SumChosen
  <2>3. QED
    BY <1>4, <2>2 DEF Wrong
<1>7. CASE T # {}
  <2>1. PICK c \in T : TRUE
    BY <1>7
  <2> DEFINE R == T \ {c}
  <2>2. R \in SUBSET S /\ Cardinality(R) = Cardinality(T) - 1 /\ Cardinality(T) \in Nat
    BY <1>2, <1>4, FS_RemoveElement
  <2>3. SumOver(g, R) = SumOver(f, R) + SumOver(d, R \cap M)
    <3>1. R \notin bad
      BY <1>3, <2>2
    <3>2. QED
      BY <2>2, <3>1 DEF bad, Wrong
  <2>4. SumOver(g, T) = g[c] + SumOver(g, R) /\ SumOver(f, T) = f[c] + SumOver(f, R)
    BY <1>5, SumRemove
  <2>5. IsFiniteSet(R) /\ IsFiniteSet(R \cap M)
    BY <1>2, <2>2
  <2>6. SumOver(f, R) \in Int /\ SumOver(d, R \cap M) \in Int
    <3>1. (\A x \in R : f[x] \in Int) /\ (\A x \in R \cap M : d[x] \in Int)
      BY <1>5
    <3>2. QED
      BY <2>5, <3>1, SumChosen
  <2>7. f[c] \in Int /\ g[c] \in Int /\ c \in S
    BY <1>4, <1>5
  <2>8. CASE c \in M
    <3>1. c \in T \cap M /\ (T \cap M) \ {c} = R \cap M
      BY <2>8
    <3>2. SumOver(d, T \cap M) = d[c] + SumOver(d, R \cap M)
      BY <1>5, <3>1, SumRemove
    <3>3. g[c] = f[c] + d[c] /\ d[c] \in Int
      BY <2>7, <2>8
    <3> HIDE DEF R
    <3>4. SumOver(g, T) = (f[c] + d[c]) + (SumOver(f, R) + SumOver(d, R \cap M))
      BY <2>3, <2>4, <3>3
    <3>5. SumOver(f, T) = f[c] + SumOver(f, R) /\ SumOver(d, T \cap M) = d[c] + SumOver(d, R \cap M)
      BY <2>4, <3>2
    <3>6. SumOver(g, T) = SumOver(f, T) + SumOver(d, T \cap M)
      BY <2>6, <2>7, <3>3, <3>4, <3>5
    <3>7. QED
      BY <1>4, <3>6 DEF Wrong
  <2>9. CASE c \notin M
    <3>1. T \cap M = R \cap M /\ g[c] = f[c]
      BY <2>7, <2>9
    <3> HIDE DEF R
    <3>2. SumOver(g, T) = f[c] + (SumOver(f, R) + SumOver(d, R \cap M))
      BY <2>3, <2>4, <3>1
    <3>3. SumOver(f, T) = f[c] + SumOver(f, R) /\ SumOver(d, T \cap M) = SumOver(d, R \cap M)
      BY <2>4, <3>1
    <3>4. SumOver(g, T) = SumOver(f, T) + SumOver(d, T \cap M)
      BY <2>6, <2>7, <3>2, <3>3
    <3>5. QED
      BY <1>4, <3>4 DEF Wrong
  <2>10. QED
    BY <2>8, <2>9
<1>8. QED
  BY <1>6, <1>7

LEMMA SumSame ==
  ASSUME NEW S, IsFiniteSet(S), NEW f, NEW g, \A x \in S : f[x] \in Int /\ g[x] = f[x]
  PROVE  SumOver(g, S) = SumOver(f, S)
<1> DEFINE d == [x \in {} |-> 0]
<1>1. {} \in SUBSET S /\ (\A x \in {} : d[x] \in Int) /\ IsFiniteSet({})
  BY FS_EmptySet
<1>2. SumOver(g, S) = SumOver(f, S) + SumOver(d, {})
  BY <1>1, SumGrows
<1>3. SumOver(d, {}) = 0 /\ SumOver(f, S) \in Int
  BY <1>1, SumChosen
<1>4. QED
  BY <1>2, <1>3

LEMMA SumOfOne ==
  ASSUME NEW f, NEW x, f[x] \in Int
  PROVE  SumOver(f, {x}) = f[x]
<1>1. IsFiniteSet({x}) /\ IsFiniteSet({}) /\ {x} \ {x} = {}
  BY FS_Singleton, FS_EmptySet
<1>2. SumOver(f, {x}) = f[x] + SumOver(f, {})
  BY <1>1, SumRemove
<1>3. SumOver(f, {}) = 0
  BY <1>1, SumChosen
<1>4. QED
  BY <1>2, <1>3

\* One element's value changes by v.
LEMMA SumChangesAt ==
  ASSUME NEW S, IsFiniteSet(S), NEW f, NEW g, NEW x \in S, NEW v \in Int,
         \A y \in S : f[y] \in Int /\ g[y] = IF y = x THEN f[y] + v ELSE f[y]
  PROVE  SumOver(g, S) = SumOver(f, S) + v
<1> DEFINE d == [y \in {x} |-> v]
<1>1. SumOver(g, S) = SumOver(f, S) + SumOver(d, {x})
  <2>1. {x} \in SUBSET S /\ \A y \in {x} : d[y] \in Int
    OBVIOUS
  <2>2. \A y \in S : f[y] \in Int /\ g[y] \in Int
    OBVIOUS
  <2>3. \A y \in S : g[y] = IF y \in {x} THEN f[y] + d[y] ELSE f[y]
    OBVIOUS
  <2> HIDE DEF d
  <2>4. QED
    BY <2>1, <2>2, <2>3, SumGrows
<1>2. SumOver(d, {x}) = v
  BY SumOfOne
<1>3. QED
  BY <1>1, <1>2

LEMMA SumOfZeros ==
  ASSUME NEW S, IsFiniteSet(S), NEW f, \A x \in S : f[x] = 0
  PROVE  SumOver(f, S) = 0
<1>1. \A x \in S : f[x] \in Int /\ f[x] = IF x \in S THEN f[x] + f[x] ELSE f[x]
  OBVIOUS
<1>2. SumOver(f, S) \in Int
  BY <1>1, SumChosen
<1>3. SumOver(f, S) = SumOver(f, S) + SumOver(f, S)
  BY <1>1, SumGrows
<1>4. \A n \in Int : n = n + n => n = 0
  OBVIOUS
<1>5. QED
  BY <1>2, <1>3, <1>4

\* A sum of what is never negative is not negative.
LEMMA SumOfNats ==
  ASSUME NEW S, IsFiniteSet(S), NEW f, \A x \in S : f[x] \in Nat
  PROVE  SumOver(f, S) \in Nat
<1> DEFINE bad == {T \in SUBSET S : SumOver(f, T) \notin Nat}
<1>1. SUFFICES ASSUME bad # {} PROVE FALSE
  <2>1. S \in SUBSET S
    OBVIOUS
  <2>2. QED
    BY <2>1
<1>2. \A T \in SUBSET S : IsFiniteSet(T)
  BY FS_Subset
<1>3. PICK T \in bad : \A U \in bad : Cardinality(U) \in Nat /\ Cardinality(T) <= Cardinality(U)
  BY <1>1, <1>2, SmallestExists
<1>4. T \in SUBSET S /\ SumOver(f, T) \notin Nat
  BY <1>3
<1>5. IsFiniteSet(T) /\ \A x \in T : f[x] \in Int /\ f[x] \in Nat
  BY <1>2, <1>4
<1>6. T # {} /\ SumOver(f, T) = f[Chosen(T)] + SumOver(f, T \ {Chosen(T)})
  <2>1. /\ T = {} => SumOver(f, T) = 0
        /\ T # {} => SumOver(f, T) = f[Chosen(T)] + SumOver(f, T \ {Chosen(T)})
    BY <1>5, SumChosen
  <2>2. QED
    BY <1>4, <2>1
<1>7. Chosen(T) \in T /\ T \ {Chosen(T)} \in SUBSET S /\ Cardinality(T) \in Nat
      /\ Cardinality(T \ {Chosen(T)}) = Cardinality(T) - 1
  <2>1. T \in SUBSET T
    OBVIOUS
  <2>2. QED
    BY <1>4, <1>5, <1>6, <2>1, ChosenIs
<1> HIDE DEF bad
<1>8. T \ {Chosen(T)} \notin bad
  BY <1>3, <1>7
<1>9. SumOver(f, T \ {Chosen(T)}) \in Nat
  BY <1>7, <1>8 DEF bad
<1>10. QED
  BY <1>4, <1>5, <1>6, <1>7, <1>9

-----------------------------------------------------------------------------
(***************************************************************************)
(* Budgets                                                                 *)
(***************************************************************************)
LEMMA RowsFinite == IsFiniteSet(Owners) /\ IsFiniteSet(Rows)
<1> DEFINE O == Owners \cup {Final}
           placesOf(o) == {o} \X (1 .. Items[o])
<1>1. IsFiniteSet(Owners) /\ IsFiniteSet(O)
  BY BudgetBounds, FS_AddElement DEF Owners
<1>2. \A o \in O : IsFiniteSet(placesOf(o))
  <2>1. ASSUME NEW o \in O
        PROVE  IsFiniteSet(placesOf(o))
    <3>1. Items[o] \in Int
      BY BudgetBounds
    <3>2. IsFiniteSet(1 .. Items[o])
      BY <3>1, FS_Interval
    <3>3. QED
      BY <3>2, FS_Singleton, FS_Product
  <2>2. QED
    BY <2>1
<1>3. IsFiniteSet({placesOf(o) : o \in O})
  <2> DEFINE f == [o \in O |-> placesOf(o)]
  <2>1. f \in Surjection(O, {placesOf(o) : o \in O})
    BY DEF Surjection
  <2>2. QED
    BY <1>1, <2>1, FS_Surjection
<1>4. IsFiniteSet(UNION {placesOf(o) : o \in O})
  <2> HIDE DEF placesOf
  <2>1. \A T \in {placesOf(o) : o \in O} : IsFiniteSet(T)
    BY <1>2
  <2>2. QED
    BY <1>3, <2>1, FS_UNION
<1>5. QED
  BY <1>1, <1>4 DEF Rows

LEMMA RowIs ==
  /\ \A k \in Rows : /\ Owner(k) \in Owners \cup {Final}
                     /\ k[2] \in 1 .. Items[Owner(k)] /\ k = <<Owner(k), k[2]>>
                     /\ k \notin Owners /\ k \in RowsOf[Owner(k)]
  /\ \A o \in Owners \cup {Final} : \A i \in 1 .. Items[o] : <<o, i>> \in Rows /\ Owner(<<o, i>>) = o
  /\ \A o \in Owners \cup {Final} : RowsOf[o] = {k \in Rows : Owner(k) = o} /\ IsFiniteSet(RowsOf[o])
  /\ FinalRows = {k \in Rows : Owner(k) = Final} /\ IsFiniteSet(FinalRows) /\ IsFiniteSet(Accounts)
  /\ Owners \subseteq Accounts /\ FinalRows \subseteq Accounts
<1>1. \A k \in Rows : /\ Owner(k) \in Owners \cup {Final}
                      /\ k[2] \in 1 .. Items[Owner(k)] /\ k = <<Owner(k), k[2]>>
                      /\ k \notin Owners
  BY BudgetBounds DEF Rows, Owner
<1>2. \A o \in Owners \cup {Final} : \A i \in 1 .. Items[o] : <<o, i>> \in Rows /\ Owner(<<o, i>>) = o
  BY DEF Rows, Owner
<1>3. \A o \in Owners \cup {Final} : RowsOf[o] = {k \in Rows : Owner(k) = o} /\ IsFiniteSet(RowsOf[o])
  <2>1. \A o \in Owners \cup {Final} : RowsOf[o] = {k \in Rows : Owner(k) = o}
    BY DEF RowsOf
  <2>2. \A T \in SUBSET Rows : IsFiniteSet(T)
    BY RowsFinite, FS_Subset
  <2>3. QED
    BY <2>1, <2>2
<1>4. FinalRows = {k \in Rows : Owner(k) = Final} /\ IsFiniteSet(FinalRows)
  BY <1>3 DEF FinalRows
<1>5. IsFiniteSet(Accounts)
  BY <1>4, RowsFinite, FS_Union DEF Accounts
<1>6. QED
  BY <1>1, <1>2, <1>3, <1>4, <1>5 DEF Accounts

LEMMA MaxOfTwo ==
  ASSUME NEW x \in Int, NEW y \in Int
  PROVE  Max({x, y}) = IF x >= y THEN x ELSE y
<1>1. \E z \in {x, y} : \A w \in {x, y} : z >= w
  <2>1. CASE x >= y
    BY <2>1
  <2>2. CASE y >= x
    BY <2>2
  <2>3. QED
    BY <2>1, <2>2
<1>2. Max({x, y}) \in {x, y} /\ \A w \in {x, y} : Max({x, y}) >= w
  BY <1>1 DEF Max
<1>3. QED
  BY <1>2

LEMMA MinOfTwo ==
  ASSUME NEW x \in Int, NEW y \in Int
  PROVE  Min({x, y}) = IF x <= y THEN x ELSE y
<1>1. \E z \in {x, y} : \A w \in {x, y} : z <= w
  <2>1. CASE x >= y
    BY <2>1
  <2>2. CASE y >= x
    BY <2>2
  <2>3. QED
    BY <2>1, <2>2
<1>2. Min({x, y}) \in {x, y} /\ \A w \in {x, y} : Min({x, y}) <= w
  BY <1>1 DEF Min
<1>3. QED
  BY <1>2

-----------------------------------------------------------------------------
(***************************************************************************)
(* The inductive invariant: what is reserved, of which statuses.           *)
(***************************************************************************)
NodeStatuses == Open \cup {"unplanned", "succeeded", "failed", "cancelled"}
RowStatuses == Live \cup {"none", "succeeded", "failed", "cancelled"}
Holdings == [status : {"none", "active", "released"}, consumed : Nat]

BudgetTypes ==
  /\ run \in {"running", "verifying", "awaiting", "completed", "failed", "cancelled"}
  /\ rev \in 0 .. Len(Drafts)
  /\ node \in [Owners -> NodeStatuses]
  /\ row \in [Rows -> RowStatuses]
  /\ used \in [Rows -> Nat]
  /\ held \in [Owners \cup Rows -> Holdings]
  /\ ext \in [Owners -> Nat]
  /\ added \in [Partitions -> Nat]
  /\ ask \in Partitions \cup {"none"}
  /\ since \in Nat

\* An Invocation that is not prepared has spent nothing and holds nothing; one that may still
\* execute holds its reservation.
RowsReserve ==
  \A k \in Rows : /\ row[k] = "none" => used[k] = 0 /\ held[k] = None
                  /\ row[k] \in Live => held[k].status = "active"

\* A node holds its reservation exactly while it is open, and no Invocation of a node outlives it
\* unless the node failed.
NodesReserve ==
  \A n \in Owners :
    /\ node[n] = "unplanned" => held[n] = None /\ ext[n] = 0
    /\ node[n] \in Open <=> held[n].status = "active"
    /\ \A k \in RowsOf[n] : /\ node[n] \in {"unplanned", "ready"} => row[k] = "none"
                            /\ row[k] \in Live => node[n] \in {"running", "waiting", "failed"}

\* The root runs until the Run ends, and a verification has the positions it needs.
RootReserves ==
  /\ node[Root] # "unplanned"
  /\ run \in {"running", "verifying", "awaiting"} => node[Root] = "running"
  /\ run = "verifying" => since + PerCycle <= Items[Final]

BudgetInv == BudgetTypes /\ RowsReserve /\ NodesReserve /\ RootReserves

LEMMA Spent ==
  ASSUME NEW u \in [Rows -> Nat], NEW c \in Owners \cup Rows
  PROVE  Actual(u, c) \in Nat
<1>1. CASE c \in Owners
  <2>1. RowsOf[c] \subseteq Rows /\ IsFiniteSet(RowsOf[c])
    BY <1>1, RowIs
  <2>2. \A k \in RowsOf[c] : u[k] \in Nat
    BY <2>1
  <2>3. SumOver(u, RowsOf[c]) \in Nat
    BY <2>1, <2>2, SumOfNats
  <2>4. QED
    BY <1>1, <2>3 DEF Actual, Used
<1>2. CASE c \notin Owners
  BY <1>2 DEF Actual
<1>3. QED
  BY <1>1, <1>2

LEMMA ReleasedIs ==
  ASSUME NEW h \in [Owners \cup Rows -> Holdings], NEW u \in [Rows -> Nat], NEW S
  PROVE  /\ Released(h, u, S) \in [Owners \cup Rows -> Holdings]
         /\ \A c \in Owners \cup Rows :
              Released(h, u, S)[c] = IF c \in S /\ h[c].status = "active"
                                     THEN [status |-> "released", consumed |-> Actual(u, c)] ELSE h[c]
<1> DEFINE R == Released(h, u, S)
<1>1. R = [c \in Owners \cup Rows |-> IF c \in S /\ h[c].status = "active"
                                     THEN [status |-> "released", consumed |-> Actual(u, c)] ELSE h[c]]
  BY DEF Released
<1>2. \A c \in Owners \cup Rows : [status |-> "released", consumed |-> Actual(u, c)] \in Holdings
  BY Spent DEF Holdings
<1>3. QED
  BY <1>1, <1>2

LEMMA Charged ==
  ASSUME BudgetTypes, NEW h \in [Owners \cup Rows -> Holdings], NEW c \in Owners \cup Rows
  PROVE  /\ Reserved(c) \in Nat /\ Actual(used, c) \in Nat /\ Charge(h, c) \in Nat
         /\ h[c].status = "none" => Charge(h, c) = 0
         /\ h[c].status = "released" => Charge(h, c) = h[c].consumed
         /\ h[c].status = "active" =>
              Charge(h, c) = IF Reserved(c) >= Actual(used, c) THEN Reserved(c) ELSE Actual(used, c)
<1>1. Actual(used, c) \in Nat
  BY Spent DEF BudgetTypes
<1>2. Reserved(c) \in Nat
  BY BudgetBounds, RowIs DEF Reserved, BudgetTypes
<1>3. h[c].status \in {"none", "active", "released"} /\ h[c].consumed \in Nat
  BY DEF Holdings
<1>4. Max({Reserved(c), Actual(used, c)})
        = IF Reserved(c) >= Actual(used, c) THEN Reserved(c) ELSE Actual(used, c)
  BY <1>1, <1>2, MaxOfTwo
<1>5. QED
  BY <1>1, <1>2, <1>3, <1>4 DEF Charge

LEMMA CommittedIs ==
  ASSUME BudgetTypes, NEW h \in [Owners \cup Rows -> Holdings],
         NEW S \in SUBSET (Owners \cup Rows), IsFiniteSet(S)
  PROVE  Committed(h, S) \in Nat
<1>1. \A c \in S : [b \in S |-> Charge(h, b)][c] \in Nat
  BY Charged
<1>2. QED
  BY <1>1, SumOfNats DEF Committed

LEMMA AccountsAre ==
  ASSUME BudgetTypes, NEW h \in [Owners \cup Rows -> Holdings]
  PROVE  /\ OrdinaryCommitted(h) \in Nat /\ FinalCommitted(h) \in Nat
         /\ OrdinaryLimit \in Int /\ FinalLimit \in Int /\ GlobalAvailable(h) \in Int
         /\ OrdinaryAvailable(h) \in Int /\ OrdinaryAvailable(h) <= OrdinaryLimit - OrdinaryCommitted(h)
         /\ OrdinaryAvailable(h) <= GlobalAvailable(h)
         /\ FinalAvailable(h) \in Int /\ FinalAvailable(h) <= FinalLimit - FinalCommitted(h)
         /\ FinalAvailable(h) <= GlobalAvailable(h)
<1>1. OrdinaryCommitted(h) \in Nat /\ FinalCommitted(h) \in Nat
  <2>1. Owners \in SUBSET (Owners \cup Rows) /\ FinalRows \in SUBSET (Owners \cup Rows)
    BY RowIs
  <2>2. QED
    BY <2>1, RowIs, RowsFinite, CommittedIs DEF OrdinaryCommitted, FinalCommitted
<1>2. OrdinaryLimit \in Int /\ FinalLimit \in Int /\ RunLimit \in Int
  BY BudgetBounds DEF BudgetTypes, OrdinaryLimit, FinalLimit, RunLimit, Partitions
<1>3. GlobalAvailable(h) \in Int
  BY <1>1, <1>2 DEF GlobalAvailable
<1>4. /\ OrdinaryAvailable(h) = IF OrdinaryLimit - OrdinaryCommitted(h) <= GlobalAvailable(h)
                               THEN OrdinaryLimit - OrdinaryCommitted(h) ELSE GlobalAvailable(h)
      /\ FinalAvailable(h) = IF FinalLimit - FinalCommitted(h) <= GlobalAvailable(h)
                            THEN FinalLimit - FinalCommitted(h) ELSE GlobalAvailable(h)
  <2>1. OrdinaryLimit - OrdinaryCommitted(h) \in Int /\ FinalLimit - FinalCommitted(h) \in Int
    BY <1>1, <1>2
  <2>2. QED
    BY <1>3, <2>1, MinOfTwo DEF OrdinaryAvailable, FinalAvailable
<1>5. QED
  BY <1>1, <1>2, <1>3, <1>4

LEMMA NodeAccount ==
  ASSUME BudgetTypes, NEW n \in Owners
  PROVE  /\ NodeAvailable(n) \in Int /\ Shortfall(n) \in Nat
         /\ Shortfall(n) >= Need[n] - NodeAvailable(n)
<1>1. Committed(held, RowsOf[n]) \in Nat
  <2>1. RowsOf[n] \in SUBSET (Owners \cup Rows) /\ IsFiniteSet(RowsOf[n])
    BY RowIs
  <2>2. QED
    BY <2>1, CommittedIs DEF BudgetTypes
<1>2. Grant[n] \in Nat /\ ext[n] \in Nat /\ Need[n] \in Nat
  BY BudgetBounds DEF BudgetTypes
<1>3. NodeAvailable(n) \in Int
  BY <1>1, <1>2 DEF NodeAvailable, NodeLimit
<1>4. Shortfall(n) = IF 0 >= Need[n] - NodeAvailable(n) THEN 0 ELSE Need[n] - NodeAvailable(n)
  BY <1>2, <1>3, MaxOfTwo DEF Shortfall
<1>5. QED
  BY <1>2, <1>3, <1>4

LEMMA FirstUnstarted ==
  ASSUME NEW n \in Owners \cup {Final}, Unstarted(n) # {}
  PROVE  Next1(n) \in RowsOf[n] /\ row[Next1(n)] = "none"
<1> DEFINE positions == {k[2] : k \in Unstarted(n)}
<1>1. Unstarted(n) \subseteq RowsOf[n] /\ RowsOf[n] \subseteq Rows
  BY RowIs DEF Unstarted
<1>2. \A k \in Unstarted(n) : k[2] \in Nat
  <2>1. \A k \in Rows : k[2] \in 1 .. Items[Owner(k)] /\ Owner(k) \in Owners \cup {Final}
    BY RowIs
  <2>2. QED
    BY <1>1, <2>1, BudgetBounds
<1>3. positions \subseteq Nat /\ positions # {}
  BY <1>2
<1>4. PICK i \in positions : \A j \in positions : i <= j
  BY <1>3, LeastExists
<1>5. \E k \in Unstarted(n) : \A l \in Unstarted(n) : k[2] <= l[2]
  BY <1>4
<1>6. Next1(n) \in Unstarted(n)
  BY <1>5 DEF Next1
<1>7. QED
  BY <1>1, <1>6 DEF Unstarted

-----------------------------------------------------------------------------
(***************************************************************************)
(* What the parts of the actions keep.                                     *)
(***************************************************************************)
Ledger == /\ node \in [Owners -> NodeStatuses] /\ row \in [Rows -> RowStatuses]
          /\ used \in [Rows -> Nat] /\ held \in [Owners \cup Rows -> Holdings]
          /\ ext \in [Owners -> Nat] /\ RowsReserve /\ NodesReserve

LEMMA FundedKeeps ==
  ASSUME BudgetInv, NEW n \in Owners, node[n] \in Open, Unstarted(n) # {}, Funded(n),
         node' = [node EXCEPT ![n] = "running"], UNCHANGED used
  PROVE  Ledger'
<1> DEFINE k == Next1(n)
<1>1. k \in Rows /\ Owner(k) = n /\ k \notin Owners /\ row[k] = "none"
  BY FirstUnstarted, RowIs
<1>2. /\ ext' = [ext EXCEPT ![n] = @ + Shortfall(n)]
      /\ row' = [row EXCEPT ![k] = "prepared"]
      /\ held' = [held EXCEPT ![k] = Taken]
      /\ Shortfall(n) \in Nat
  BY NodeAccount DEF Funded, BudgetInv
<1> HIDE DEF k
<1>3. /\ node' \in [Owners -> NodeStatuses] /\ row' \in [Rows -> RowStatuses]
      /\ used' \in [Rows -> Nat] /\ held' \in [Owners \cup Rows -> Holdings]
      /\ ext' \in [Owners -> Nat]
  BY <1>1, <1>2 DEF BudgetInv, BudgetTypes, NodeStatuses, RowStatuses, Open, Live, Idle, Holdings, Taken
<1>4. RowsReserve'
  BY <1>1, <1>2 DEF BudgetInv, BudgetTypes, RowsReserve, Taken, Live, Idle
<1>5. NodesReserve'
  <2>1. ASSUME NEW m \in Owners
        PROVE  /\ (node[m] = "unplanned" => held[m] = None /\ ext[m] = 0)'
               /\ (node[m] \in Open <=> held[m].status = "active")'
    BY <1>1, <1>2 DEF BudgetInv, BudgetTypes, NodesReserve, Open
  <2>2. ASSUME NEW m \in Owners, NEW l \in RowsOf[m]
        PROVE  /\ (node[m] \in {"unplanned", "ready"} => row[l] = "none")'
               /\ (row[l] \in Live => node[m] \in {"running", "waiting", "failed"})'
    <3>1. l \in Rows /\ Owner(l) = m
      BY RowIs
    <3>2. QED
      BY <1>1, <1>2, <3>1 DEF BudgetInv, BudgetTypes, NodesReserve, Open
  <2>3. QED
    BY <2>1, <2>2 DEF NodesReserve
<1>6. QED
  BY <1>3, <1>4, <1>5 DEF Ledger

\* A node ends with nothing of it left to execute, or fails.
LEMMA NodeEndsKeeps ==
  ASSUME BudgetInv, NEW n \in Owners, NEW status \in {"succeeded", "failed"}, NodeEnds(n, status),
         node[n] \in Open,
         status = "succeeded" => \A k \in RowsOf[n] : row[k] \notin Live,
         UNCHANGED <<row, used, ext>>
  PROVE  Ledger'
<1>1. /\ node' = [node EXCEPT ![n] = status]
      /\ held' \in [Owners \cup Rows -> Holdings]
      /\ \A c \in Owners \cup Rows :
           held'[c] = IF c \in {n} /\ held[c].status = "active"
                      THEN [status |-> "released", consumed |-> Actual(used, c)] ELSE held[c]
  <2>1. /\ held \in [Owners \cup Rows -> Holdings] /\ used \in [Rows -> Nat]
        /\ node' = [node EXCEPT ![n] = status] /\ held' = Released(held, used, {n})
    BY DEF NodeEnds, BudgetInv, BudgetTypes
  <2>2. QED
    BY <2>1, ReleasedIs
<1>2. \A k \in Rows : held'[k] = held[k]
  BY <1>1, RowIs
<1>3. RowsReserve'
  BY <1>2 DEF BudgetInv, RowsReserve
<1>4. NodesReserve'
  <2>1. ASSUME NEW m \in Owners
        PROVE  /\ (node[m] = "unplanned" => held[m] = None /\ ext[m] = 0)'
               /\ (node[m] \in Open <=> held[m].status = "active")'
    <3>1. CASE m = n
      <4>1. held[n].status = "active"
        BY DEF BudgetInv, NodesReserve
      <4>2. held'[n] = [status |-> "released", consumed |-> Actual(used, n)]
        BY <1>1, <4>1
      <4>3. node'[n] = status /\ status \notin Open /\ status # "unplanned"
        BY <1>1 DEF BudgetInv, BudgetTypes, Open
      <4>4. QED
        BY <3>1, <4>2, <4>3
    <3>2. CASE m # n
      <4>1. held'[m] = held[m] /\ node'[m] = node[m] /\ ext' = ext
        BY <1>1, <3>2 DEF BudgetInv, BudgetTypes
      <4>2. QED
        BY <4>1 DEF BudgetInv, NodesReserve
    <3>3. QED
      BY <3>1, <3>2
  <2>2. ASSUME NEW m \in Owners, NEW l \in RowsOf[m]
        PROVE  /\ (node[m] \in {"unplanned", "ready"} => row[l] = "none")'
               /\ (row[l] \in Live => node[m] \in {"running", "waiting", "failed"})'
    BY <1>1 DEF BudgetInv, BudgetTypes, NodesReserve, Open
  <2>3. QED
    BY <2>1, <2>2 DEF NodesReserve
<1>5. QED
  BY <1>1, <1>3, <1>4 DEF Ledger, BudgetInv, BudgetTypes, NodeStatuses

\* What an Invocation becomes when an Attempt begins or ends; it is released unless it lives on.
LEMMA RowMovesKeeps ==
  ASSUME BudgetInv, NEW k \in Rows, row[k] \in Live,
         NEW status \in Live \cup {"succeeded", "failed"}, NEW u \in [Rows -> Nat],
         \A l \in Rows \ {k} : u[l] = used[l],
         row' = [row EXCEPT ![k] = status], used' = u,
         held' = IF status \in Live THEN held ELSE Released(held, u, {k}),
         UNCHANGED <<node, ext>>
  PROVE  Ledger'
<1>1. /\ held' \in [Owners \cup Rows -> Holdings]
      /\ \A c \in Owners \cup Rows : c # k => held'[c] = held[c]
      /\ status \in Live => held' = held
  <2>1. held \in [Owners \cup Rows -> Holdings]
    BY DEF BudgetInv, BudgetTypes
  <2>2. CASE status \in Live
    BY <2>1, <2>2
  <2>3. CASE status \notin Live
    <3>1. held' = Released(held, u, {k})
      BY <2>3
    <3>2. /\ Released(held, u, {k}) \in [Owners \cup Rows -> Holdings]
          /\ \A c \in Owners \cup Rows :
               Released(held, u, {k})[c] = IF c \in {k} /\ held[c].status = "active"
                                           THEN [status |-> "released", consumed |-> Actual(u, c)] ELSE held[c]
      BY <2>1, ReleasedIs
    <3>3. QED
      BY <2>3, <3>1, <3>2
  <2>4. QED
    BY <2>2, <2>3
<1>2. k \notin Owners /\ k \in RowsOf[Owner(k)]
  BY RowIs
<1>3. RowsReserve'
  <2>1. ASSUME NEW l \in Rows
        PROVE  /\ (row[l] = "none" => used[l] = 0 /\ held[l] = None)'
               /\ (row[l] \in Live => held[l].status = "active")'
    BY <1>1 DEF BudgetInv, BudgetTypes, RowsReserve, Live, Idle
  <2>2. QED
    BY <2>1 DEF RowsReserve
<1>4. NodesReserve'
  <2>1. ASSUME NEW m \in Owners
        PROVE  /\ (node[m] = "unplanned" => held[m] = None /\ ext[m] = 0)'
               /\ (node[m] \in Open <=> held[m].status = "active")'
    BY <1>1, <1>2 DEF BudgetInv, NodesReserve
  <2>2. ASSUME NEW m \in Owners, NEW l \in RowsOf[m]
        PROVE  /\ (node[m] \in {"unplanned", "ready"} => row[l] = "none")'
               /\ (row[l] \in Live => node[m] \in {"running", "waiting", "failed"})'
    <3>1. l \in Rows
      BY RowIs
    <3>2. QED
      BY <3>1 DEF BudgetInv, BudgetTypes, NodesReserve, Live, Idle
  <2>3. QED
    BY <2>1, <2>2 DEF NodesReserve
<1>5. QED
  BY <1>1, <1>3, <1>4 DEF Ledger, BudgetInv, BudgetTypes, RowStatuses

\* A cancelled Run lets what executes go on, and cancels every node without it.
LEMMA ConvergeKeeps ==
  ASSUME BudgetInv, NEW moved \in [Rows -> RowStatuses], NEW u \in [Rows -> Nat],
         \A k \in Rows : row[k] \notin Live => moved[k] = row[k] /\ u[k] = used[k],
         \A k \in Rows : moved[k] # row[k] => moved[k] = "cancelled",
         Converge(moved, u), used' = u, UNCHANGED ext
  PROVE  Ledger'
<1> DEFINE after == [k \in Rows |-> IF moved[k] \in Idle THEN "cancelled" ELSE moved[k]]
           ended == {n \in Owners : node[n] \in Open /\ LiveOf(after, n) = {}}
           freed == {k \in Rows : after[k] \notin Live} \cup ended
<1>1. /\ row' = after
      /\ node' = [n \in Owners |-> IF n \in ended THEN "cancelled" ELSE node[n]]
      /\ held' = Released(held, u, freed)
  BY DEF Converge
<1>2. /\ held' \in [Owners \cup Rows -> Holdings]
      /\ \A c \in Owners \cup Rows :
           held'[c] = IF c \in freed /\ held[c].status = "active"
                      THEN [status |-> "released", consumed |-> Actual(u, c)] ELSE held[c]
  <2> HIDE DEF freed
  <2>1. held \in [Owners \cup Rows -> Holdings]
    BY DEF BudgetInv, BudgetTypes
  <2>2. QED
    BY <1>1, <2>1, ReleasedIs
<1>3. \A k \in Rows : /\ after[k] = "none" => row[k] = "none"
                      /\ row[k] = "none" => after[k] = "none" /\ u[k] = 0
                      /\ after[k] \in Live => row[k] \in Live /\ after[k] = row[k]
  BY DEF BudgetInv, BudgetTypes, RowsReserve, RowStatuses, Live, Idle
<1>4. \A m \in Owners : \A k \in RowsOf[m] : after[k] \in Live => m \notin ended
  <2>1. ASSUME NEW m \in Owners, NEW k \in RowsOf[m], after[k] \in Live
        PROVE  m \notin ended
    <3>1. k \in Rows /\ Owner(k) = m
      BY RowIs
    <3>2. k \in LiveOf(after, m)
      BY <2>1, <3>1 DEF LiveOf
    <3>3. QED
      BY <3>2
  <2>2. QED
    BY <2>1
<1>5. \A k \in Rows : k \in freed <=> after[k] \notin Live
  BY RowIs
<1>6. \A m \in Owners : m \in freed <=> m \in ended
  BY RowIs
<1>7. ended \subseteq Owners /\ \A m \in ended : node[m] \in Open /\ held[m].status = "active"
  BY DEF BudgetInv, NodesReserve
<1> HIDE DEF freed, ended
<1>8. RowsReserve'
  <2>1. ASSUME NEW k \in Rows
        PROVE  /\ (row[k] = "none" => used[k] = 0 /\ held[k] = None)'
               /\ (row[k] \in Live => held[k].status = "active")'
    <3>1. CASE after[k] = "none"
      <4>1. row[k] = "none" /\ held[k] = None /\ held[k].status # "active"
        BY <1>3, <3>1 DEF BudgetInv, RowsReserve, None
      <4>2. held'[k] = None
        BY <1>2, <4>1
      <4>3. QED
        BY <1>1, <1>3, <3>1, <4>1, <4>2 DEF Live, Idle
    <3>2. CASE after[k] \in Live
      <4>1. held[k].status = "active" /\ held'[k] = held[k]
        BY <1>2, <1>3, <1>5, <3>2 DEF BudgetInv, RowsReserve
      <4>2. QED
        BY <1>1, <3>2, <4>1 DEF Live, Idle
    <3>3. QED
      BY <1>1, <3>1, <3>2
  <2>2. QED
    BY <2>1 DEF RowsReserve
<1>9. NodesReserve'
  <2>1. ASSUME NEW m \in Owners
        PROVE  /\ (node[m] = "unplanned" => held[m] = None /\ ext[m] = 0)'
               /\ (node[m] \in Open <=> held[m].status = "active")'
    <3>1. CASE m \in ended
      <4>1. held'[m] = [status |-> "released", consumed |-> Actual(u, m)] /\ node'[m] = "cancelled"
        BY <1>1, <1>2, <1>6, <1>7, <3>1
      <4>2. QED
        BY <4>1 DEF Open
    <3>2. CASE m \notin ended
      <4>1. held'[m] = held[m] /\ node'[m] = node[m]
        BY <1>1, <1>2, <1>6, <3>2
      <4>2. QED
        BY <4>1 DEF BudgetInv, NodesReserve
    <3>3. QED
      BY <3>1, <3>2
  <2>2. ASSUME NEW m \in Owners, NEW l \in RowsOf[m]
        PROVE  /\ (node[m] \in {"unplanned", "ready"} => row[l] = "none")'
               /\ (row[l] \in Live => node[m] \in {"running", "waiting", "failed"})'
    <3>1. l \in Rows
      BY RowIs
    <3>2. CASE m \in ended
      <4>1. node'[m] = "cancelled" /\ row'[l] \notin Live
        BY <1>1, <1>4, <3>2
      <4>2. QED
        BY <4>1
    <3>3. CASE m \notin ended
      <4>1. node'[m] = node[m] /\ row'[l] = after[l]
        BY <1>1, <3>3
      <4>2. QED
        BY <1>3, <3>1, <4>1 DEF BudgetInv, NodesReserve
    <3>4. QED
      BY <3>2, <3>3
  <2>3. QED
    BY <2>1, <2>2 DEF NodesReserve
<1>10. /\ node' \in [Owners -> NodeStatuses] /\ row' \in [Rows -> RowStatuses]
       /\ used' \in [Rows -> Nat] /\ ext' \in [Owners -> Nat]
  BY <1>1 DEF BudgetInv, BudgetTypes, NodeStatuses, RowStatuses
<1>11. QED
  BY <1>2, <1>8, <1>9, <1>10 DEF Ledger

LEMMA FinalPositions ==
  /\ Cardinality(FinalRows) = Items[Final]
  /\ \A T \in SUBSET Rows : IsFiniteSet(T) /\ Cardinality(T) \in Nat
<1>1. FinalRows = {Final} \X (1 .. Items[Final])
  BY BudgetBounds, RowIs DEF Owner
<1>2. IsFiniteSet(1 .. Items[Final]) /\ Cardinality(1 .. Items[Final]) = Items[Final] /\ Items[Final] \in Nat
  <2>1. Items[Final] \in Nat \ {0}
    BY BudgetBounds
  <2>2. 1 \in Int /\ Items[Final] \in Int
    BY <2>1
  <2>3. /\ IsFiniteSet(1 .. Items[Final])
        /\ Cardinality(1 .. Items[Final]) = IF 1 > Items[Final] THEN 0 ELSE Items[Final] - 1 + 1
    BY <2>2, FS_Interval
  <2>4. QED
    BY <2>1, <2>3
<1>3. IsFiniteSet({Final}) /\ Cardinality({Final}) = 1
  BY FS_Singleton
<1>4. Cardinality({Final} \X (1 .. Items[Final])) = 1 * Items[Final]
  <2>1. Cardinality({Final} \X (1 .. Items[Final])) = Cardinality({Final}) * Cardinality(1 .. Items[Final])
    <3>1. IsFiniteSet({Final}) /\ IsFiniteSet(1 .. Items[Final])
      BY <1>2, <1>3
    <3>2. QED
      BY <3>1, FS_Product
  <2>2. QED
    BY <1>2, <1>3, <2>1
<1>5. \A T \in SUBSET Rows : IsFiniteSet(T) /\ Cardinality(T) \in Nat
  BY RowsFinite, FS_Subset, FS_CardinalityType
<1>6. QED
  BY <1>1, <1>2, <1>4, <1>5

\* A verification under way has a position left while its Cycle is incomplete.
LEMMA PositionLeft ==
  ASSUME BudgetInv, run = "verifying", Cardinality(Cycle) < PerCycle
  PROVE  Unstarted(Final) # {}
<1> SUFFICES ASSUME Unstarted(Final) = {} PROVE FALSE
  OBVIOUS
<1> DEFINE I == (since + 1) .. Items[Final]
           f == [i \in I |-> <<Final, i>>]
<1>1. since \in Nat /\ since + PerCycle <= Items[Final] /\ PerCycle \in Nat /\ Items[Final] \in Nat
  BY BudgetBounds DEF BudgetInv, BudgetTypes, RootReserves
<1>2. IsFiniteSet(I) /\ Cardinality(I) >= PerCycle
  <2>1. since + 1 \in Int /\ Items[Final] \in Int
    BY <1>1
  <2>2. /\ IsFiniteSet(I)
        /\ Cardinality(I) = IF since + 1 > Items[Final] THEN 0 ELSE Items[Final] - (since + 1) + 1
    BY <2>1, FS_Interval
  <2>3. QED
    BY <1>1, <2>2
<1>3. \A i \in I : <<Final, i>> \in Cycle
  <2>1. \A i \in I : i \in 1 .. Items[Final] /\ i > since
    BY <1>1
  <2>2. \A i \in I : <<Final, i>> \in FinalRows
    BY <2>1, RowIs
  <2>3. \A k \in FinalRows : row[k] # "none"
    BY DEF Unstarted, FinalRows
  <2>4. QED
    BY <2>1, <2>2, <2>3 DEF Cycle
<1>4. f \in Injection(I, Cycle)
  BY <1>3 DEF Injection, IsInjective
<1>5. IsFiniteSet(Cycle) /\ Cardinality(Cycle) \in Nat
  BY FinalPositions, RowIs DEF Cycle
<1>6. Cardinality(I) <= Cardinality(Cycle) /\ Cardinality(I) \in Nat
  BY <1>2, <1>4, <1>5, FS_Injection, FS_CardinalityType
<1>7. QED
  BY <1>1, <1>2, <1>5, <1>6

\* The root takes a position of the final reserve while it verifies.
LEMMA FinalTakes ==
  ASSUME BudgetInv, Unstarted(Final) # {},
         row' = [row EXCEPT ![Next1(Final)] = "prepared"],
         held' = [held EXCEPT ![Next1(Final)] = Taken],
         UNCHANGED <<node, used, ext>>
  PROVE  Ledger'
<1> DEFINE k == Next1(Final)
<1>1. k \in Rows /\ Owner(k) = Final /\ k \notin Owners /\ row[k] = "none"
  BY FirstUnstarted, RowIs
<1>2. row' = [row EXCEPT ![k] = "prepared"] /\ held' = [held EXCEPT ![k] = Taken]
  OBVIOUS
<1> HIDE DEF k
<1>3. row' \in [Rows -> RowStatuses] /\ held' \in [Owners \cup Rows -> Holdings]
  BY <1>1, <1>2 DEF BudgetInv, BudgetTypes, RowStatuses, Live, Idle, Holdings, Taken
<1>4. RowsReserve'
  BY <1>1, <1>2 DEF BudgetInv, BudgetTypes, RowsReserve, Taken, Live, Idle
<1>5. NodesReserve'
  <2>1. \A m \in Owners : held'[m] = held[m]
    BY <1>1, <1>2 DEF BudgetInv, BudgetTypes
  <2>2. \A m \in Owners : \A l \in RowsOf[m] : row'[l] = row[l]
    <3>1. \A m \in Owners : \A l \in RowsOf[m] : l \in Rows /\ Owner(l) = m /\ m # Final
      BY RowIs, BudgetBounds
    <3>2. QED
      BY <1>1, <1>2, <3>1 DEF BudgetInv, BudgetTypes
  <2>3. QED
    BY <2>1, <2>2 DEF BudgetInv, NodesReserve
<1>6. QED
  BY <1>3, <1>4, <1>5 DEF Ledger, BudgetInv, BudgetTypes

LEMMA RevisionIs ==
  ASSUME BudgetInv, Revise
  PROVE  \E joins \in SUBSET Nodes, gone \in SUBSET Nodes :
           /\ \A n \in joins : node[n] = "unplanned"
           /\ \A n \in gone : node[n] = "ready"
           /\ node' = [n \in Owners |-> IF n \in joins THEN "ready" ELSE IF n \in gone THEN "cancelled" ELSE node[n]]
           /\ Released(held, used, gone) \in [Owners \cup Rows -> Holdings]
           /\ held' \in [Owners \cup Rows -> Holdings]
           /\ \A c \in Owners \cup Rows :
                /\ held'[c] = IF c \in joins THEN Taken ELSE Released(held, used, gone)[c]
                /\ Released(held, used, gone)[c]
                     = IF c \in gone /\ held[c].status = "active"
                       THEN [status |-> "released", consumed |-> Actual(used, c)] ELSE held[c]
           /\ SumOver(Grant, joins) <= OrdinaryAvailable(Released(held, used, gone))
<1> DEFINE draft == Drafts[rev + 1]
           joins == {n \in draft : node[n] = "unplanned"}
           gone == {n \in Members \ draft : node[n] = "ready"}
           freed == Released(held, used, gone)
<1>1. /\ rev + 1 \in DOMAIN Drafts
      /\ SumOver(Grant, joins) <= OrdinaryAvailable(freed)
      /\ node' = [n \in Owners |-> IF n \in joins THEN "ready" ELSE IF n \in gone THEN "cancelled" ELSE node[n]]
      /\ held' = [c \in DOMAIN held |-> IF c \in joins THEN Taken ELSE freed[c]]
  BY DEF Revise
<1>2. draft \in SUBSET Nodes /\ Members \in SUBSET Nodes
  <2>1. Drafts \in Seq(SUBSET Nodes) /\ rev \in 0 .. Len(Drafts)
    BY BudgetBounds DEF BudgetInv, BudgetTypes
  <2>2. QED
    BY <1>1, <2>1 DEF Members
<1>3. joins \in SUBSET Nodes /\ gone \in SUBSET Nodes
      /\ (\A n \in joins : node[n] = "unplanned") /\ \A n \in gone : node[n] = "ready"
  BY <1>2
<1>4. held \in [Owners \cup Rows -> Holdings] /\ used \in [Rows -> Nat]
  BY DEF BudgetInv, BudgetTypes
<1> HIDE DEF joins, gone
<1>5. /\ freed \in [Owners \cup Rows -> Holdings]
      /\ \A c \in Owners \cup Rows :
           freed[c] = IF c \in gone /\ held[c].status = "active"
                      THEN [status |-> "released", consumed |-> Actual(used, c)] ELSE held[c]
  BY <1>4, ReleasedIs
<1> HIDE DEF freed
<1>6. /\ held' \in [Owners \cup Rows -> Holdings]
      /\ \A c \in Owners \cup Rows : held'[c] = IF c \in joins THEN Taken ELSE freed[c]
  BY <1>1, <1>4, <1>5 DEF Taken, Holdings
<1>7. QED
  BY <1>1, <1>3, <1>5, <1>6 DEF freed

LEMMA ReviseKeepsLedger ==
  ASSUME BudgetInv, Revise
  PROVE  Ledger' /\ node'[Root] = node[Root]
<1>1. PICK joins \in SUBSET Nodes, gone \in SUBSET Nodes :
           /\ \A n \in joins : node[n] = "unplanned"
           /\ \A n \in gone : node[n] = "ready"
           /\ node' = [n \in Owners |-> IF n \in joins THEN "ready" ELSE IF n \in gone THEN "cancelled" ELSE node[n]]
           /\ held' \in [Owners \cup Rows -> Holdings]
           /\ \A c \in Owners \cup Rows :
                /\ held'[c] = IF c \in joins THEN Taken ELSE Released(held, used, gone)[c]
                /\ Released(held, used, gone)[c]
                     = IF c \in gone /\ held[c].status = "active"
                       THEN [status |-> "released", consumed |-> Actual(used, c)] ELSE held[c]
  BY RevisionIs
<1>2. row' = row /\ used' = used /\ ext' = ext
  BY DEF Revise
<1>3. joins \subseteq Owners /\ gone \subseteq Owners /\ Root \notin joins /\ Root \notin gone
  BY BudgetBounds DEF Owners
<1>4. RowsReserve'
  <2>1. \A k \in Rows : held'[k] = held[k]
    BY <1>1, <1>3, RowIs
  <2>2. QED
    BY <1>2, <2>1 DEF BudgetInv, RowsReserve
<1>5. NodesReserve'
  <2>1. ASSUME NEW m \in Owners
        PROVE  /\ (node[m] = "unplanned" => held[m] = None /\ ext[m] = 0)'
               /\ (node[m] \in Open <=> held[m].status = "active")'
    <3>1. CASE m \in joins
      <4>1. held'[m] = Taken /\ node'[m] = "ready"
        BY <1>1, <3>1
      <4>2. QED
        BY <4>1 DEF Taken, Open
    <3>2. CASE m \notin joins /\ m \in gone
      <4>1. node[m] = "ready" /\ node'[m] = "cancelled" /\ held[m].status = "active"
        BY <1>1, <3>2 DEF BudgetInv, NodesReserve, Open
      <4>2. held'[m] = [status |-> "released", consumed |-> Actual(used, m)]
        BY <1>1, <3>2, <4>1
      <4>3. QED
        BY <4>1, <4>2 DEF Open
    <3>3. CASE m \notin joins /\ m \notin gone
      <4>1. held'[m] = held[m] /\ node'[m] = node[m] /\ ext' = ext
        BY <1>1, <1>2, <3>3
      <4>2. QED
        BY <4>1 DEF BudgetInv, NodesReserve
    <3>4. QED
      BY <3>1, <3>2, <3>3
  <2>2. ASSUME NEW m \in Owners, NEW l \in RowsOf[m]
        PROVE  /\ (node[m] \in {"unplanned", "ready"} => row[l] = "none")'
               /\ (row[l] \in Live => node[m] \in {"running", "waiting", "failed"})'
    <3>1. row[l] = "none" => row[l] \notin Live
      BY DEF Live, Idle
    <3>2. CASE m \in joins \/ m \in gone
      <4>1. row'[l] = "none"
        BY <1>1, <1>2, <3>2 DEF BudgetInv, NodesReserve
      <4>2. QED
        BY <1>2, <3>1, <4>1
    <3>3. CASE m \notin joins /\ m \notin gone
      <4>1. node'[m] = node[m]
        BY <1>1, <3>3
      <4>2. QED
        BY <1>2, <4>1 DEF BudgetInv, NodesReserve
    <3>4. QED
      BY <3>2, <3>3
  <2>3. QED
    BY <2>1, <2>2 DEF NodesReserve
<1>6. node' \in [Owners -> NodeStatuses] /\ node'[Root] = node[Root]
  BY <1>1, <1>3 DEF BudgetInv, BudgetTypes, NodeStatuses, Open, Owners
<1>7. QED
  BY <1>1, <1>2, <1>4, <1>5, <1>6 DEF Ledger, BudgetInv, BudgetTypes

-----------------------------------------------------------------------------
(***************************************************************************)
(* Every action keeps the invariant.                                       *)
(***************************************************************************)
LEMMA RestKeeps ==
  ASSUME BudgetInv, Ledger', node'[Root] = node[Root], UNCHANGED <<run, rev, added, ask, since>>
  PROVE  BudgetInv'
<1>1. BudgetTypes'
  BY DEF BudgetInv, BudgetTypes, Ledger
<1>2. RootReserves'
  BY DEF BudgetInv, RootReserves
<1>3. QED
  BY <1>1, <1>2 DEF BudgetInv, Ledger

LEMMA LedgerStays ==
  ASSUME BudgetInv, UNCHANGED <<node, row, used, held, ext>>
  PROVE  Ledger'
BY DEF BudgetInv, BudgetTypes, Ledger, RowsReserve, NodesReserve

LEMMA PrepareNextKeeps ==
  ASSUME BudgetInv, NEW n \in Nodes, node[n] \in Open, Unstarted(n) # {}, PrepareNext(n), UNCHANGED used
  PROVE  Ledger' /\ node'[Root] = node[Root]
<1>1. n \in Owners /\ n # Root /\ Root \in Owners
  BY BudgetBounds DEF Owners
<1>2. node \in [Owners -> NodeStatuses]
  BY DEF BudgetInv, BudgetTypes
<1>3. CASE Funded(n) /\ node' = [node EXCEPT ![n] = "running"]
  <2>1. Ledger'
    BY <1>1, <1>3, FundedKeeps
  <2>2. QED
    BY <1>1, <1>2, <1>3, <2>1
<1>4. CASE NodeEnds(n, "failed") /\ UNCHANGED <<row, ext>>
  <2>1. node' = [node EXCEPT ![n] = "failed"]
    BY <1>4 DEF NodeEnds
  <2>2. Ledger'
    BY <1>1, <1>4, NodeEndsKeeps
  <2>3. QED
    BY <1>1, <1>2, <2>1, <2>2
<1>5. CASE node' = [node EXCEPT ![n] = "waiting"] /\ UNCHANGED <<row, held, ext>>
  <2>1. NodesReserve'
    BY <1>1, <1>2, <1>5 DEF BudgetInv, NodesReserve, Open
  <2>2. QED
    BY <1>1, <1>2, <1>5, <2>1 DEF Ledger, BudgetInv, BudgetTypes, RowsReserve, NodeStatuses, Open
<1>6. QED
  BY <1>3, <1>4, <1>5 DEF PrepareNext

LEMMA ReadyIsUnstarted ==
  ASSUME BudgetInv, NEW n \in Nodes, StartNode(n)
  PROVE  Unstarted(n) # {}
<1>1. n \in Owners /\ node[n] = "ready"
  BY DEF StartNode, Owners
<1>2. 1 \in 1 .. Items[n]
  BY <1>1, BudgetBounds
<1>3. <<n, 1>> \in RowsOf[n]
  BY <1>1, <1>2, RowIs
<1>4. row[<<n, 1>>] = "none"
  BY <1>1, <1>3 DEF BudgetInv, NodesReserve
<1>5. QED
  BY <1>3, <1>4 DEF Unstarted

LEMMA StartNodeKeeps ==
  ASSUME BudgetInv, NEW n \in Nodes, StartNode(n)
  PROVE  BudgetInv'
<1>1. n \in Owners /\ node[n] = "ready"
  BY DEF StartNode, Owners
<1>2. Unstarted(n) # {}
  BY ReadyIsUnstarted
<1>3. Ledger' /\ node'[Root] = node[Root]
  BY <1>1, <1>2, PrepareNextKeeps DEF StartNode, Open
<1>4. QED
  BY <1>3, RestKeeps DEF StartNode

LEMMA StartPositionKeeps ==
  ASSUME BudgetInv, NEW n \in Nodes, StartPosition(n)
  PROVE  BudgetInv'
<1>1. Ledger' /\ node'[Root] = node[Root]
  BY PrepareNextKeeps DEF StartPosition, Open
<1>2. QED
  BY <1>1, RestKeeps DEF StartPosition

LEMMA ResumeBudgetKeeps ==
  ASSUME BudgetInv, NEW n \in Nodes, ResumeBudget(n)
  PROVE  BudgetInv'
<1>1. n \in Owners /\ n # Root
  BY BudgetBounds DEF Owners
<1>2. node \in [Owners -> NodeStatuses] /\ node' = [node EXCEPT ![n] = "running"] /\ node[n] = "waiting"
      /\ UNCHANGED <<row, used, held, ext>>
  BY DEF ResumeBudget, BudgetInv, BudgetTypes
<1>3. NodesReserve'
  BY <1>1, <1>2 DEF BudgetInv, NodesReserve, Open
<1>4. Ledger' /\ node'[Root] = node[Root]
  BY <1>1, <1>2, <1>3 DEF Ledger, BudgetInv, BudgetTypes, RowsReserve, NodeStatuses, Open
<1>5. QED
  BY <1>4, RestKeeps DEF ResumeBudget

LEMMA SettleNodeKeeps ==
  ASSUME BudgetInv, NEW n \in Nodes, SettleNode(n)
  PROVE  BudgetInv'
<1>1. n \in Owners /\ n # Root
  BY BudgetBounds DEF Owners
<1>2. PICK status \in {"succeeded", "failed"} : NodeEnds(n, status)
  BY DEF SettleNode
<1>3. \A k \in RowsOf[n] : row[k] \notin Live
  BY DEF SettleNode, Live, Idle
<1>4. Ledger'
  BY <1>1, <1>2, <1>3, NodeEndsKeeps DEF SettleNode, Open
<1>5. node'[Root] = node[Root]
  BY <1>1, <1>2 DEF NodeEnds, BudgetInv, BudgetTypes, Owners
<1>6. QED
  BY <1>4, <1>5, RestKeeps DEF SettleNode

LEMMA ExecuteKeeps ==
  ASSUME BudgetInv, NEW k \in Rows, Execute(k)
  PROVE  BudgetInv'
<1>1. row[k] \in Live /\ "executing" \in Live /\ used \in [Rows -> Nat]
  BY DEF Execute, Executable, Live, BudgetInv, BudgetTypes
<1>2. Ledger'
  BY <1>1, RowMovesKeeps DEF Execute
<1>3. QED
  BY <1>2, RestKeeps DEF Execute

LEMMA ExhaustedKeeps ==
  ASSUME BudgetInv, NEW k \in Rows, Exhausted(k)
  PROVE  BudgetInv'
<1>1. row[k] \in Live /\ "failed" \notin Live /\ used \in [Rows -> Nat]
  BY DEF Exhausted, Executable, Live, Idle, BudgetInv, BudgetTypes
<1>2. Ledger'
  BY <1>1, RowMovesKeeps DEF Exhausted
<1>3. QED
  BY <1>2, RestKeeps DEF Exhausted

\* What the Usage of one Attempt changes.
LEMMA SpendIs ==
  ASSUME BudgetInv, NEW k \in Rows, NEW spent \in Nat, Spend(k, spent)
  PROVE  /\ used' \in [Rows -> Nat] /\ used'[k] = used[k] + spent /\ row[k] = "executing"
         /\ \A l \in Rows \ {k} : used'[l] = used[l]
BY DEF Spend, BudgetInv, BudgetTypes

LEMMA EndAttemptKeeps ==
  ASSUME BudgetInv, NEW k \in Rows, NEW status \in {"backoff", "succeeded", "failed"},
         NEW spent \in Nat, EndAttempt(k, status, spent)
  PROVE  BudgetInv'
<1>1. /\ used' \in [Rows -> Nat] /\ row[k] = "executing"
      /\ \A l \in Rows \ {k} : used'[l] = used[l]
  BY SpendIs DEF EndAttempt
<1>2. row[k] \in Live /\ status \in Live \cup {"succeeded", "failed"}
  BY <1>1 DEF Live, Idle
<1>3. Ledger'
  <2> DEFINE u == used'
  <2>1. /\ u \in [Rows -> Nat] /\ \A l \in Rows \ {k} : u[l] = used[l]
    BY <1>1
  <2>2. /\ row' = [row EXCEPT ![k] = status] /\ used' = u
        /\ held' = IF status \in Live THEN held ELSE Released(held, u, {k})
        /\ UNCHANGED <<node, ext>>
    BY DEF EndAttempt
  <2> HIDE DEF u
  <2>3. QED
    BY <1>2, <2>1, <2>2, RowMovesKeeps
<1>4. QED
  BY <1>3, RestKeeps DEF EndAttempt

LEMMA EndCancelledKeeps ==
  ASSUME BudgetInv, NEW k \in Rows, NEW spent \in Nat, EndCancelled(k, spent)
  PROVE  BudgetInv'
<1>1. /\ used' \in [Rows -> Nat] /\ row[k] = "executing"
      /\ \A l \in Rows \ {k} : used'[l] = used[l]
  BY SpendIs DEF EndCancelled
<1>2. Ledger'
  <2> DEFINE u == used'
             moved == [row EXCEPT ![k] = "cancelled"]
  <2>1. moved \in [Rows -> RowStatuses] /\ \A l \in Rows : moved[l] # row[l] => moved[l] = "cancelled"
    BY DEF BudgetInv, BudgetTypes, RowStatuses
  <2>2. \A l \in Rows : row[l] \notin Live => moved[l] = row[l] /\ u[l] = used[l]
    BY <1>1 DEF BudgetInv, BudgetTypes, Live
  <2>3. Converge(moved, u) /\ used' = u /\ u \in [Rows -> Nat] /\ ext' = ext
    BY <1>1 DEF EndCancelled
  <2> HIDE DEF u, moved
  <2>4. QED
    BY <2>1, <2>2, <2>3, ConvergeKeeps
<1>3. run = "cancelled" /\ UNCHANGED <<run, rev, added, ask, since>>
  BY DEF EndCancelled
<1>4. node'[Root] # "unplanned"
  BY BudgetBounds DEF EndCancelled, Converge, BudgetInv, RootReserves, Owners
<1>5. BudgetTypes'
  BY <1>2, <1>3 DEF BudgetInv, BudgetTypes, Ledger
<1>6. RootReserves'
  BY <1>3, <1>4 DEF RootReserves
<1>7. QED
  BY <1>2, <1>5, <1>6 DEF BudgetInv, Ledger

LEMMA RootTurnKeeps ==
  ASSUME BudgetInv, RootTurn
  PROVE  BudgetInv'
<1>1. node \in [Owners -> NodeStatuses] /\ Root \in Owners /\ node[Root] = "running"
  BY DEF RootTurn, BudgetInv, BudgetTypes, RootReserves, Owners
<1>2. node' = [node EXCEPT ![Root] = "running"] /\ node[Root] \in Open
  BY <1>1 DEF RootTurn, Open
<1>3. Ledger'
  BY <1>1, <1>2, FundedKeeps DEF RootTurn
<1>4. QED
  BY <1>3, RestKeeps DEF RootTurn

LEMMA FailRunKeeps ==
  ASSUME BudgetInv, FailRun
  PROVE  BudgetInv'
<1>1. Root \in Owners /\ node[Root] \in Open
  BY DEF FailRun, Open, Owners
<1>2. Ledger'
  BY <1>1, NodeEndsKeeps DEF FailRun
<1>3. node'[Root] = "failed" /\ run' = "failed" /\ UNCHANGED <<rev, added, ask, since>>
  BY <1>1 DEF FailRun, NodeEnds, BudgetInv, BudgetTypes
<1>4. BudgetTypes'
  BY <1>2, <1>3 DEF BudgetInv, BudgetTypes, Ledger
<1>5. QED
  BY <1>2, <1>3, <1>4 DEF BudgetInv, Ledger, RootReserves

LEMMA ReviseKeeps ==
  ASSUME BudgetInv, Revise
  PROVE  BudgetInv'
<1>1. Ledger' /\ node'[Root] = node[Root]
  BY ReviseKeepsLedger
<1>2. rev' \in 0 .. Len(Drafts)
  <2>1. Drafts \in Seq(SUBSET Nodes) /\ rev \in 0 .. Len(Drafts) /\ rev + 1 \in DOMAIN Drafts /\ rev' = rev + 1
    BY BudgetBounds DEF Revise, BudgetInv, BudgetTypes
  <2>2. QED
    BY <2>1
<1>3. UNCHANGED <<run, added, ask, since>>
  BY DEF Revise
<1>4. BudgetTypes'
  BY <1>1, <1>2, <1>3 DEF BudgetInv, BudgetTypes, Ledger
<1>5. QED
  BY <1>1, <1>3, <1>4 DEF BudgetInv, Ledger, RootReserves

\* What only the Run, its Budget or its Decision changes.
LEMMA RunMovesKeeps ==
  ASSUME BudgetInv, UNCHANGED <<rev, node, row, used, held, ext>>,
         run' \in {"running", "verifying", "awaiting", "completed"},
         run \in {"running", "verifying", "awaiting"} \/ run' = run,
         added' \in [Partitions -> Nat], ask' \in Partitions \cup {"none"}, since' \in Nat,
         run' = "verifying" => since' + PerCycle <= Items[Final]
  PROVE  BudgetInv'
<1>1. Ledger'
  BY LedgerStays
<1>2. BudgetTypes'
  BY <1>1 DEF BudgetInv, BudgetTypes, Ledger
<1>3. RootReserves'
  BY DEF BudgetInv, RootReserves
<1>4. QED
  BY <1>1, <1>2, <1>3 DEF BudgetInv, Ledger

LEMMA IncreaseKeeps ==
  ASSUME BudgetInv, (\E p \in Partitions : Request(p)) \/ Approve \/ Deny
  PROVE  BudgetInv'
<1>1. UNCHANGED <<run, rev, node, row, used, held, ext, since>>
  BY DEF Request, Approve, Deny
<1>2. added' \in [Partitions -> Nat] /\ ask' \in Partitions \cup {"none"}
  BY BudgetBounds DEF BudgetInv, BudgetTypes, Request, Approve, Deny, Partitions
<1>3. Ledger'
  BY <1>1, LedgerStays
<1>4. BudgetTypes'
  BY <1>1, <1>2, <1>3 DEF BudgetInv, BudgetTypes, Ledger
<1>5. QED
  BY <1>1, <1>3, <1>4 DEF BudgetInv, Ledger, RootReserves

LEMMA BeginCompletionKeeps ==
  ASSUME BudgetInv, BeginCompletion
  PROVE  BudgetInv'
<1>1. since' \in Nat /\ since' + PerCycle <= Items[Final]
  <2>1. Unstarted(Final) \subseteq FinalRows /\ FinalRows \subseteq Rows /\ FinalRows \cap Unstarted(Final) = Unstarted(Final)
    BY RowIs DEF Unstarted, FinalRows
  <2>2. Cardinality(FinalRows \ Unstarted(Final)) = Cardinality(FinalRows) - Cardinality(Unstarted(Final))
    <3>1. IsFiniteSet(FinalRows)
      BY <2>1, FinalPositions
    <3>2. Cardinality(FinalRows \ Unstarted(Final))
            = Cardinality(FinalRows) - Cardinality(FinalRows \cap Unstarted(Final))
      BY <3>1, FS_Difference
    <3>3. QED
      BY <2>1, <3>2
  <2>3. Cardinality(FinalRows \ Unstarted(Final)) \in Nat /\ Cardinality(Unstarted(Final)) \in Nat
    BY <2>1, FinalPositions
  <2>4. Cardinality(Unstarted(Final)) >= PerCycle /\ since' = Cardinality(FinalRows \ Unstarted(Final))
    BY DEF BeginCompletion
  <2>5. PerCycle \in Nat /\ Items[Final] \in Nat
    BY BudgetBounds
  <2>6. QED
    BY <2>2, <2>3, <2>4, <2>5, FinalPositions
<1>2. QED
  BY <1>1, RunMovesKeeps DEF BeginCompletion, BudgetInv, BudgetTypes

LEMMA PrepareFinalKeeps ==
  ASSUME BudgetInv, PrepareFinal
  PROVE  BudgetInv'
<1>1. run = "verifying" /\ Unstarted(Final) # {} /\ UNCHANGED <<rev, node, used, ext, added, ask, since>>
  BY PositionLeft DEF PrepareFinal
<1>2. CASE /\ row' = [row EXCEPT ![Next1(Final)] = "prepared"]
           /\ held' = [held EXCEPT ![Next1(Final)] = Taken] /\ UNCHANGED run
  <2>1. Ledger'
    BY <1>1, <1>2, FinalTakes
  <2>2. QED
    BY <1>1, <1>2, <2>1, RestKeeps
<1>3. CASE run' = "running" /\ UNCHANGED <<row, held>>
  BY <1>1, <1>3, RunMovesKeeps DEF BudgetInv, BudgetTypes
<1>4. QED
  BY <1>2, <1>3 DEF PrepareFinal

LEMMA VerdictKeeps ==
  ASSUME BudgetInv, VerificationFails \/ AwaitSignoff \/ Accept
  PROVE  BudgetInv'
<1>1. /\ run \in {"running", "verifying", "awaiting"} /\ run' \in {"running", "awaiting", "completed"}
      /\ UNCHANGED <<rev, node, row, used, held, ext, added, ask, since>>
  BY DEF VerificationFails, AwaitSignoff, Accept
<1>2. QED
  BY <1>1, RunMovesKeeps DEF BudgetInv, BudgetTypes

LEMMA RequestChangesKeeps ==
  ASSUME BudgetInv, RequestChanges
  PROVE  BudgetInv'
<1>1. node \in [Owners -> NodeStatuses] /\ Root \in Owners /\ node[Root] = "running"
  BY DEF RequestChanges, BudgetInv, BudgetTypes, RootReserves, Owners
<1>2. node' = [node EXCEPT ![Root] = "running"] /\ node[Root] \in Open
  BY <1>1 DEF RequestChanges, Open
<1>3. Ledger'
  BY <1>1, <1>2, FundedKeeps DEF RequestChanges
<1>4. run' = "running" /\ node'[Root] = "running" /\ UNCHANGED <<rev, added, ask, since>>
  BY <1>1 DEF RequestChanges
<1>5. BudgetTypes'
  BY <1>3, <1>4 DEF BudgetInv, BudgetTypes, Ledger
<1>6. QED
  BY <1>3, <1>4, <1>5 DEF BudgetInv, Ledger, RootReserves

LEMMA CancelKeeps ==
  ASSUME BudgetInv, Cancel
  PROVE  BudgetInv'
<1>1. row \in [Rows -> RowStatuses] /\ used \in [Rows -> Nat]
  BY DEF BudgetInv, BudgetTypes
<1>2. Converge(row, used) /\ run' = "cancelled" /\ UNCHANGED <<rev, used, ext, added, ask, since>>
  BY DEF Cancel
<1>3. Ledger'
  BY <1>1, <1>2, ConvergeKeeps
<1>4. node'[Root] # "unplanned"
  BY BudgetBounds DEF Cancel, Converge, BudgetInv, RootReserves, Owners
<1>5. BudgetTypes'
  BY <1>2, <1>3 DEF BudgetInv, BudgetTypes, Ledger
<1>6. QED
  BY <1>2, <1>3, <1>4, <1>5 DEF BudgetInv, Ledger, RootReserves

LEMMA BudgetBegins == BudgetInit => BudgetInv
<1> SUFFICES ASSUME BudgetInit PROVE BudgetInv
  OBVIOUS
<1>1. <<Root, 1>> \in Rows /\ Root \in Owners /\ <<Root, 1>> \notin Owners /\ Owner(<<Root, 1>>) = Root
  <2>1. Root \in Owners /\ 1 \in 1 .. Items[Root]
    BY BudgetBounds DEF Owners
  <2>2. QED
    BY <2>1, RowIs
<1>2. BudgetTypes
  <2>1. rev = 0 /\ Len(Drafts) \in Nat
    BY BudgetBounds DEF BudgetInit
  <2>2. QED
    BY <2>1 DEF BudgetInit, BudgetTypes, NodeStatuses, RowStatuses, Open, Live, Idle, Holdings, Taken, None, Partitions
<1>3. RowsReserve
  BY <1>1, RowIs DEF BudgetInit, RowsReserve, Live, Idle, Taken, None
<1>4. NodesReserve
  <2>1. ASSUME NEW m \in Owners
        PROVE  /\ node[m] = "unplanned" => held[m] = None /\ ext[m] = 0
               /\ node[m] \in Open <=> held[m].status = "active"
    BY <1>1 DEF BudgetInit, Open, Taken, None
  <2>2. ASSUME NEW m \in Owners, NEW l \in RowsOf[m]
        PROVE  /\ node[m] \in {"unplanned", "ready"} => row[l] = "none"
               /\ row[l] \in Live => node[m] \in {"running", "waiting", "failed"}
    <3>1. l \in Rows /\ Owner(l) = m
      BY RowIs
    <3>2. QED
      BY <1>1, <3>1 DEF BudgetInit, Live, Idle
  <2>3. QED
    BY <2>1, <2>2 DEF NodesReserve
<1>5. RootReserves
  BY <1>1 DEF BudgetInit, RootReserves
<1>6. QED
  BY <1>2, <1>3, <1>4, <1>5 DEF BudgetInv

LEMMA BudgetStep == BudgetInv /\ [BudgetNext]_budgetVars => BudgetInv'
<1> SUFFICES ASSUME BudgetInv, [BudgetNext]_budgetVars PROVE BudgetInv'
  OBVIOUS
<1>1. 0 .. MaxSpent \subseteq Nat
  BY BudgetBounds
<1>2. CASE \E n \in Nodes : StartNode(n) \/ StartPosition(n) \/ ResumeBudget(n) \/ SettleNode(n)
  BY <1>2, StartNodeKeeps, StartPositionKeeps, ResumeBudgetKeeps, SettleNodeKeeps
<1>3. CASE \E k \in Rows : Execute(k) \/ Exhausted(k)
  BY <1>3, ExecuteKeeps, ExhaustedKeeps
<1>4. CASE \E k \in Rows, status \in {"backoff", "succeeded", "failed"}, spent \in 0 .. MaxSpent :
             EndAttempt(k, status, spent)
  BY <1>1, <1>4, EndAttemptKeeps
<1>5. CASE \E k \in Rows, spent \in 0 .. MaxSpent : EndCancelled(k, spent)
  BY <1>1, <1>5, EndCancelledKeeps
<1>6. CASE RootTurn \/ FailRun \/ Revise
  BY <1>6, RootTurnKeeps, FailRunKeeps, ReviseKeeps
<1>7. CASE (\E p \in Partitions : Request(p)) \/ Approve \/ Deny
  BY <1>7, IncreaseKeeps
<1>8. CASE BeginCompletion \/ PrepareFinal \/ VerificationFails \/ AwaitSignoff \/ Accept
  BY <1>8, BeginCompletionKeeps, PrepareFinalKeeps, VerdictKeeps
<1>9. CASE RequestChanges \/ Cancel
  BY <1>9, RequestChangesKeeps, CancelKeeps
<1>10. CASE UNCHANGED budgetVars
  BY <1>10, LedgerStays, RestKeeps DEF budgetVars
<1>11. QED
  BY <1>2, <1>3, <1>4, <1>5, <1>6, <1>7, <1>8, <1>9, <1>10 DEF BudgetNext

\* Reservations follow the statuses: a node holds its allocation exactly while it is open, an
\* Invocation that may still execute holds its own, one not prepared has spent nothing, and the root
\* holds until the Run ends (stores/budgets.ts, plans.ts transitionNode, run-cancellation.ts).
THEOREM ReservationsFollowStatuses == BudgetSpec => []BudgetInv
<1>1. QED
  BY BudgetBegins, BudgetStep, PTL DEF BudgetSpec

-----------------------------------------------------------------------------
(***************************************************************************)
(* A step that reserves leaves its accounts covering what they committed.  *)
(***************************************************************************)
LEMMA CommitsTheSame ==
  ASSUME BudgetTypes, NEW h \in [Owners \cup Rows -> Holdings], NEW S \in SUBSET (Owners \cup Rows), IsFiniteSet(S),
         \A c \in S : Charge(held, c)' = Charge(h, c)
  PROVE  Committed(held, S)' = Committed(h, S)
<1> DEFINE f == [c \in S |-> Charge(h, c)]
           g == [c \in S |-> Charge(held, c)']
<1>1. \A c \in S : f[c] \in Int /\ g[c] = f[c]
  BY Charged
<1>2. SumOver(g, S) = SumOver(f, S)
  <2> HIDE DEF f, g
  <2>1. QED
    BY <1>1, SumSame
<1>3. QED
  BY <1>2 DEF Committed

LEMMA CommitsMoreAt ==
  ASSUME BudgetTypes, NEW h \in [Owners \cup Rows -> Holdings], NEW S \in SUBSET (Owners \cup Rows), IsFiniteSet(S),
         NEW x \in S, NEW v \in Int,
         \A c \in S : c # x => Charge(held, c)' = Charge(h, c),
         Charge(held, x)' = Charge(h, x) + v
  PROVE  Committed(held, S)' = Committed(h, S) + v
<1> DEFINE f == [c \in S |-> Charge(h, c)]
           g == [c \in S |-> Charge(held, c)']
<1>1. \A c \in S : f[c] \in Int /\ g[c] = IF c = x THEN f[c] + v ELSE f[c]
  <2>1. ASSUME NEW c \in S
        PROVE  Charge(h, c) \in Int
    <3>1. c \in Owners \cup Rows
      OBVIOUS
    <3>2. Charge(h, c) \in Nat
      BY <3>1, Charged
    <3>3. QED
      BY <3>2
  <2>2. QED
    BY <2>1
<1>2. SumOver(g, S) = SumOver(f, S) + v
  <2> HIDE DEF f, g
  <2>1. QED
    BY <1>1, SumChangesAt
<1>3. QED
  BY <1>2 DEF Committed

LEMMA CommitsMore ==
  ASSUME BudgetTypes, NEW h \in [Owners \cup Rows -> Holdings], NEW S \in SUBSET (Owners \cup Rows), IsFiniteSet(S),
         NEW M \in SUBSET S, NEW d, \A c \in M : d[c] \in Nat,
         \A c \in S : Charge(held, c)' = IF c \in M THEN Charge(h, c) + d[c] ELSE Charge(h, c)
  PROVE  Committed(held, S)' = Committed(h, S) + SumOver(d, M)
<1> DEFINE f == [c \in S |-> Charge(h, c)]
           g == [c \in S |-> Charge(held, c)']
<1>1. (\A c \in S : f[c] \in Int /\ g[c] = IF c \in M THEN f[c] + d[c] ELSE f[c]) /\ \A c \in M : d[c] \in Int
  BY Charged
<1>2. \A c \in S : f[c] \in Int /\ g[c] \in Int
  BY <1>1
<1>3. SumOver(g, S) = SumOver(f, S) + SumOver(d, M)
  <2> HIDE DEF f, g
  <2>1. QED
    BY <1>1, <1>2, SumGrows
<1>4. QED
  BY <1>3 DEF Committed

LEMMA ChargedTheSame ==
  ASSUME NEW h \in [Owners \cup Rows -> Holdings], NEW c \in Owners \cup Rows, held'[c] = h[c], used' = used,
         c \in Owners => ext'[c] = ext[c]
  PROVE  Charge(held, c)' = Charge(h, c)
<1>1. Reserved(c)' = Reserved(c) /\ Actual(used, c)' = Actual(used, c)
  BY DEF Reserved, Actual, Used
<1>2. QED
  BY <1>1 DEF Charge

\* A fresh Invocation is charged its whole allocation.
LEMMA FreshCharge ==
  ASSUME BudgetInv, NEW k \in Rows, row[k] = "none", held'[k] = Taken, used' = used
  PROVE  Charge(held, k) = 0 /\ Charge(held, k)' = Need[Owner(k)]
<1>1. k \notin Owners /\ Need[Owner(k)] \in Nat /\ used[k] = 0 /\ held[k] = None
  BY RowIs, BudgetBounds DEF BudgetInv, RowsReserve
<1>2. Reserved(k)' = Need[Owner(k)] /\ Actual(used, k)' = 0
  BY <1>1 DEF Reserved, Actual
<1>3. Max({Need[Owner(k)], 0}) = Need[Owner(k)]
  BY <1>1, MaxOfTwo
<1>4. QED
  BY <1>1, <1>2, <1>3 DEF Charge, Taken, None

LEMMA FundedFits ==
  ASSUME BudgetInv, NEW n \in Owners, node[n] \in Open, Unstarted(n) # {}, Funded(n),
         UNCHANGED <<used, added>>
  PROVE  ReservesWhatFits
<1> DEFINE short == Shortfall(n)
<1>0. PICK k : k = Next1(n)
  OBVIOUS
<1>1. /\ k \in Rows /\ Owner(k) = n /\ k \notin Owners /\ row[k] = "none" /\ k \in RowsOf[n]
      /\ k \notin FinalRows
  BY <1>0, FirstUnstarted, RowIs, BudgetBounds
<1>2. /\ BudgetTypes /\ held \in [Owners \cup Rows -> Holdings] /\ ext \in [Owners -> Nat] /\ used \in [Rows -> Nat]
      /\ held[k] = None /\ held[n].status = "active"
  BY <1>1 DEF BudgetInv, BudgetTypes, RowsReserve, NodesReserve
<1>3. /\ short \in Nat /\ NodeAvailable(n) \in Int /\ short >= Need[n] - NodeAvailable(n)
      /\ Need[n] \in Nat
  BY <1>2, NodeAccount, BudgetBounds
<1>4. /\ ext' = [ext EXCEPT ![n] = @ + short] /\ held' = [held EXCEPT ![k] = Taken]
      /\ short = 0 \/ short <= OrdinaryAvailable(held)
  BY <1>0 DEF Funded, Fits
<1> HIDE DEF short
<1>5. \A c \in Owners \cup Rows : c # k => held'[c] = held[c]
  BY <1>2, <1>4
<1>6. \A c \in Owners : c # n => ext'[c] = ext[c]
  BY <1>2, <1>4
<1>7. \A c \in Owners \cup Rows : c # k /\ c # n => Charge(held, c)' = Charge(held, c)
  BY <1>2, <1>5, <1>6, ChargedTheSame
<1>8. n \in Owners \cup Rows /\ Owners \in SUBSET (Owners \cup Rows) /\ FinalRows \in SUBSET (Owners \cup Rows) /\ RowsOf[n] \in SUBSET (Owners \cup Rows)
      /\ IsFiniteSet(Owners) /\ IsFiniteSet(FinalRows) /\ IsFiniteSet(RowsOf[n])
      /\ n \notin RowsOf[n] /\ n \notin FinalRows
  BY RowIs, RowsFinite
<1>9. PICK v \in Nat : v <= short /\ Charge(held, n)' = Charge(held, n) + v
  <2>1. /\ Reserved(n) \in Nat /\ Actual(used, n) \in Nat
        /\ Charge(held, n) = IF Reserved(n) >= Actual(used, n) THEN Reserved(n) ELSE Actual(used, n)
    BY <1>2, Charged
  <2>2. held'[n] = held[n] /\ Actual(used, n)' = Actual(used, n)
    BY <1>1, <1>5, <1>8 DEF Actual, Used
  <2>3. Reserved(n)' = Reserved(n) + short
    BY <1>2, <1>3, <1>4, BudgetBounds DEF Reserved
  <2>4. Charge(held, n)' = Max({Reserved(n) + short, Actual(used, n)})
    BY <1>2, <2>2, <2>3 DEF Charge
  <2>5. Charge(held, n)' = IF Reserved(n) + short >= Actual(used, n) THEN Reserved(n) + short ELSE Actual(used, n)
    <3>1. Reserved(n) + short \in Int /\ Actual(used, n) \in Int
      BY <1>3, <2>1
    <3>2. QED
      BY <2>4, <3>1, MaxOfTwo
  <2> DEFINE v == Charge(held, n)' - Charge(held, n)
  <2>6. v \in Nat /\ v <= short /\ Charge(held, n)' = Charge(held, n) + v
    BY <1>3, <2>1, <2>5
  <2>7. QED
    BY <2>6
<1>10. OrdinaryCommitted(held)' = OrdinaryCommitted(held) + v
  <2>1. \A c \in Owners : c # n => Charge(held, c)' = Charge(held, c)
    BY <1>1, <1>7, <1>8
  <2>2. Committed(held, Owners)' = Committed(held, Owners) + v
    BY <1>2, <1>8, <1>9, <2>1, CommitsMoreAt
  <2>3. QED
    BY <2>2 DEF OrdinaryCommitted
<1>11. FinalCommitted(held)' = FinalCommitted(held)
  <2>1. \A c \in FinalRows : Charge(held, c)' = Charge(held, c)
    BY <1>1, <1>7, <1>8
  <2>2. Committed(held, FinalRows)' = Committed(held, FinalRows)
    BY <1>2, <1>8, <2>1, CommitsTheSame
  <2>3. QED
    BY <2>2 DEF FinalCommitted
<1>12. NodeAvailable(n)' = NodeAvailable(n) + short - Need[n]
  <2>1. \A c \in RowsOf[n] : c # k => Charge(held, c)' = Charge(held, c)
    BY <1>7, <1>8
  <2>2. Charge(held, k) = 0 /\ Charge(held, k)' = Need[n]
    <3>1. held'[k] = Taken /\ used' = used
      BY <1>1, <1>2, <1>4
    <3>2. Charge(held, k) = 0 /\ Charge(held, k)' = Need[Owner(k)]
      BY <1>1, <3>1, FreshCharge
    <3>3. QED
      BY <1>1, <3>2
  <2>3. Committed(held, RowsOf[n])' = Committed(held, RowsOf[n]) + Need[n]
    <3>1. Charge(held, k)' = Charge(held, k) + Need[n] /\ Need[n] \in Int
      BY <1>3, <2>2
    <3>2. QED
      BY <1>1, <1>2, <1>8, <2>1, <3>1, CommitsMoreAt
  <2>4. Committed(held, RowsOf[n]) \in Nat
    BY <1>2, <1>8, CommittedIs
  <2>5. NodeLimit(n)' = NodeLimit(n) + short /\ NodeLimit(n) \in Nat
    BY <1>2, <1>3, <1>4, BudgetBounds DEF NodeLimit
  <2>6. QED
    BY <1>3, <2>3, <2>4, <2>5 DEF NodeAvailable
<1>13. OrdinaryLimit' = OrdinaryLimit /\ RunLimit' = RunLimit /\ FinalLimit' = FinalLimit
  BY DEF OrdinaryLimit, RunLimit, FinalLimit
<1>14. /\ OrdinaryCommitted(held) \in Nat /\ FinalCommitted(held) \in Nat
       /\ OrdinaryLimit \in Int /\ GlobalAvailable(held) \in Int /\ OrdinaryAvailable(held) \in Int
       /\ OrdinaryAvailable(held) <= OrdinaryLimit - OrdinaryCommitted(held)
       /\ OrdinaryAvailable(held) <= GlobalAvailable(held)
  BY <1>2, AccountsAre
<1>15. Reserves \subseteq {k} /\ Extends \subseteq {n} /\ (n \in Extends => short > 0)
  BY <1>2, <1>3, <1>4, <1>5, <1>6 DEF Reserves, Extends
<1>16. DrawsFinal = {} /\ DrawsOrdinary \subseteq {n} /\ (DrawsOrdinary # {} => short > 0)
  BY <1>1, <1>15 DEF DrawsOrdinary, DrawsFinal
<1>17. DrawsOrdinary # {} => (OrdinaryCommitted(held) <= OrdinaryLimit)'
  BY <1>3, <1>4, <1>9, <1>10, <1>13, <1>14, <1>16
<1>18. GlobalAvailable(held)' = GlobalAvailable(held) - v
  <2>1. RunLimit \in Int
    BY <1>2, BudgetBounds DEF BudgetTypes, RunLimit, Partitions
  <2>2. QED
    BY <1>10, <1>11, <1>13, <1>14, <2>1 DEF GlobalAvailable
<1>19. DrawsOrdinary \cup DrawsFinal # {} => (GlobalAvailable(held) >= 0)'
  BY <1>3, <1>4, <1>9, <1>14, <1>16, <1>18
<1>20. \A c \in Reserves \cap (Rows \ FinalRows) : (NodeAvailable(Owner(c)) >= 0)'
  <2>1. NodeAvailable(n)' >= 0
    BY <1>3, <1>12
  <2>2. QED
    BY <1>1, <1>15, <2>1
<1>21. QED
  BY <1>16, <1>17, <1>19, <1>20 DEF ReservesWhatFits

LEMMA FinalFits ==
  ASSUME BudgetInv, Unstarted(Final) # {}, Need[Final] <= FinalAvailable(held),
         held' = [held EXCEPT ![Next1(Final)] = Taken], UNCHANGED <<used, ext, added>>
  PROVE  ReservesWhatFits
<1>1. PICK k : k = Next1(Final)
  OBVIOUS
<1>2. k \in FinalRows /\ k \in Rows /\ Owner(k) = Final /\ k \notin Owners /\ row[k] = "none"
  BY <1>1, FirstUnstarted, RowIs
<1>3. /\ BudgetTypes /\ held \in [Owners \cup Rows -> Holdings] /\ held' = [held EXCEPT ![k] = Taken]
      /\ held[k] = None /\ Need[Final] \in Nat
  BY <1>1, <1>2, BudgetBounds DEF BudgetInv, BudgetTypes, RowsReserve
<1>4. held'[k] = Taken /\ \A c \in Owners \cup Rows : c # k => held'[c] = held[c]
  BY <1>2, <1>3
<1>5. \A c \in Owners \cup Rows : c # k => Charge(held, c)' = Charge(held, c)
  BY <1>3, <1>4, ChargedTheSame
<1>6. /\ Owners \in SUBSET (Owners \cup Rows) /\ FinalRows \in SUBSET (Owners \cup Rows)
      /\ IsFiniteSet(Owners) /\ IsFiniteSet(FinalRows)
  BY RowIs, RowsFinite
<1>7. OrdinaryCommitted(held)' = OrdinaryCommitted(held)
  <2>1. \A c \in Owners : Charge(held, c)' = Charge(held, c)
    BY <1>2, <1>5
  <2>2. Committed(held, Owners)' = Committed(held, Owners)
    BY <1>3, <1>6, <2>1, CommitsTheSame
  <2>3. QED
    BY <2>2 DEF OrdinaryCommitted
<1>8. FinalCommitted(held)' = FinalCommitted(held) + Need[Final]
  <2>1. \A c \in FinalRows : c # k => Charge(held, c)' = Charge(held, c)
    BY <1>5, <1>6
  <2>2. Charge(held, k) = 0 /\ Charge(held, k)' = Need[Owner(k)]
    BY <1>2, <1>4, FreshCharge
  <2>3. Charge(held, k)' = Charge(held, k) + Need[Final] /\ Need[Final] \in Int
    BY <1>2, <1>3, <2>2
  <2>4. /\ BudgetTypes /\ held \in [Owners \cup Rows -> Holdings] /\ k \in FinalRows
        /\ FinalRows \in SUBSET (Owners \cup Rows) /\ IsFiniteSet(FinalRows)
    BY <1>2, <1>3, <1>6
  <2>5. Committed(held, FinalRows)' = Committed(held, FinalRows) + Need[Final]
    BY <2>1, <2>3, <2>4, CommitsMoreAt
  <2>6. QED
    BY <2>5 DEF FinalCommitted
<1>9. RunLimit' = RunLimit /\ FinalLimit' = FinalLimit /\ RunLimit \in Int
  BY <1>3, BudgetBounds DEF RunLimit, FinalLimit, BudgetTypes, Partitions
<1>10. /\ OrdinaryCommitted(held) \in Nat /\ FinalCommitted(held) \in Nat
       /\ FinalLimit \in Int /\ GlobalAvailable(held) \in Int /\ FinalAvailable(held) \in Int
       /\ FinalAvailable(held) <= FinalLimit - FinalCommitted(held)
       /\ FinalAvailable(held) <= GlobalAvailable(held)
  BY <1>3, AccountsAre
<1>11. Reserves \subseteq {k} /\ Extends = {}
  <2>1. Reserves \subseteq {k}
    BY <1>3, <1>4 DEF Reserves
  <2>2. \A m \in Owners : ext[m] \in Nat /\ ext'[m] = ext[m]
    BY <1>3 DEF BudgetTypes
  <2>3. QED
    BY <2>1, <2>2 DEF Extends
<1>12. (FinalCommitted(held) <= FinalLimit)'
  BY <1>3, <1>8, <1>9, <1>10
<1>13. (GlobalAvailable(held) >= 0)'
  <2>1. GlobalAvailable(held)' = GlobalAvailable(held) - Need[Final]
    BY <1>3, <1>7, <1>8, <1>9, <1>10 DEF GlobalAvailable
  <2>2. QED
    BY <1>3, <1>10, <2>1
<1>14. DrawsOrdinary = {} /\ Reserves \cap (Rows \ FinalRows) = {}
  BY <1>2, <1>11 DEF DrawsOrdinary
<1>15. QED
  BY <1>12, <1>13, <1>14 DEF ReservesWhatFits

\* What a revision adds has spent nothing yet.
LEMMA NothingSpent ==
  ASSUME BudgetInv, NEW n \in Owners, node[n] = "unplanned"
  PROVE  Actual(used, n) = 0
<1>1. \A k \in RowsOf[n] : used[k] = 0
  BY RowIs DEF BudgetInv, NodesReserve, RowsReserve
<1>2. SumOver(used, RowsOf[n]) = 0
  BY <1>1, RowIs, SumOfZeros
<1>3. QED
  BY <1>2 DEF Actual, Used

LEMMA ReviseFits ==
  ASSUME BudgetInv, Revise
  PROVE  ReservesWhatFits
<1>1. PICK joins \in SUBSET Nodes, gone \in SUBSET Nodes :
           /\ \A n \in joins : node[n] = "unplanned"
           /\ \A n \in gone : node[n] = "ready"
           /\ Released(held, used, gone) \in [Owners \cup Rows -> Holdings]
           /\ held' \in [Owners \cup Rows -> Holdings]
           /\ \A c \in Owners \cup Rows :
                /\ held'[c] = IF c \in joins THEN Taken ELSE Released(held, used, gone)[c]
                /\ Released(held, used, gone)[c]
                     = IF c \in gone /\ held[c].status = "active"
                       THEN [status |-> "released", consumed |-> Actual(used, c)] ELSE held[c]
           /\ SumOver(Grant, joins) <= OrdinaryAvailable(Released(held, used, gone))
  BY RevisionIs
<1>2. PICK h \in [Owners \cup Rows -> Holdings] : h = Released(held, used, gone)
  BY <1>1
<1>3. /\ UNCHANGED <<used, ext, added>> /\ BudgetTypes
      /\ ext \in [Owners -> Nat] /\ held \in [Owners \cup Rows -> Holdings]
  BY DEF Revise, BudgetInv, BudgetTypes
<1>4. joins \subseteq Owners /\ \A n \in joins : n \notin gone /\ n \notin Rows
  BY <1>1, BudgetBounds DEF Owners
<1>5. \A c \in Owners \cup Rows : c \notin joins => held'[c] = h[c] /\ Charge(held, c)' = Charge(h, c)
  BY <1>1, <1>2, <1>3, ChargedTheSame
<1>6. \A c \in joins : Charge(held, c)' = Charge(h, c) + Grant[c] /\ Grant[c] \in Nat
  <2>1. ASSUME NEW c \in joins
        PROVE  Charge(held, c)' = Charge(h, c) + Grant[c] /\ Grant[c] \in Nat
    <3>1. c \in Owners /\ held[c] = None /\ ext[c] = 0 /\ Actual(used, c) = 0 /\ Grant[c] \in Nat
      BY <1>1, <1>4, NothingSpent, BudgetBounds DEF BudgetInv, NodesReserve
    <3>2. h[c] = None /\ held'[c] = Taken
      BY <1>1, <1>2, <1>4, <3>1
    <3>3. Charge(h, c) = 0
      BY <3>2 DEF Charge, None
    <3>4. Actual(used, c)' = 0 /\ Reserved(c)' = Grant[c]
      BY <1>3, <3>1 DEF Actual, Used, Reserved
    <3>5. Charge(held, c)' = Max({Grant[c], 0})
      BY <3>2, <3>4 DEF Charge, Taken
    <3>6. Max({Grant[c], 0}) = Grant[c]
      BY <3>1, MaxOfTwo
    <3>7. QED
      BY <3>1, <3>3, <3>5, <3>6
  <2>2. QED
    BY <2>1
<1>7. /\ Owners \in SUBSET (Owners \cup Rows) /\ FinalRows \in SUBSET (Owners \cup Rows)
      /\ IsFiniteSet(Owners) /\ IsFiniteSet(FinalRows) /\ FinalRows \subseteq Rows
  BY RowIs, RowsFinite
<1>8. OrdinaryCommitted(held)' = OrdinaryCommitted(h) + SumOver(Grant, joins)
  <2>1. joins \in SUBSET Owners /\ \A c \in joins : Grant[c] \in Nat
    BY <1>4, <1>6
  <2>2. \A c \in Owners : Charge(held, c)' = IF c \in joins THEN Charge(h, c) + Grant[c] ELSE Charge(h, c)
    BY <1>5, <1>6, <1>7
  <2>3. Committed(held, Owners)' = Committed(h, Owners) + SumOver(Grant, joins)
    BY <1>3, <1>7, <2>1, <2>2, CommitsMore
  <2>4. QED
    BY <2>3 DEF OrdinaryCommitted
<1>9. FinalCommitted(held)' = FinalCommitted(h)
  <2>1. \A c \in FinalRows : Charge(held, c)' = Charge(h, c)
    BY <1>4, <1>5, <1>7
  <2>2. Committed(held, FinalRows)' = Committed(h, FinalRows)
    BY <1>3, <1>7, <2>1, CommitsTheSame
  <2>3. QED
    BY <2>2 DEF FinalCommitted
<1>10. SumOver(Grant, joins) \in Nat /\ SumOver(Grant, joins) <= OrdinaryAvailable(h)
  <2>1. IsFiniteSet(joins) /\ \A c \in joins : Grant[c] \in Nat
    BY <1>4, <1>6, RowsFinite, FS_Subset
  <2>2. QED
    BY <1>1, <1>2, <2>1, SumOfNats
<1>11. /\ OrdinaryLimit' = OrdinaryLimit /\ RunLimit' = RunLimit /\ RunLimit \in Int
  BY <1>3, BudgetBounds DEF RunLimit, FinalLimit, OrdinaryLimit, BudgetTypes, Partitions
<1>12. /\ OrdinaryCommitted(h) \in Nat /\ FinalCommitted(h) \in Nat
       /\ OrdinaryLimit \in Int /\ GlobalAvailable(h) \in Int /\ OrdinaryAvailable(h) \in Int
       /\ OrdinaryAvailable(h) <= OrdinaryLimit - OrdinaryCommitted(h)
       /\ OrdinaryAvailable(h) <= GlobalAvailable(h)
  BY <1>3, AccountsAre
<1>13. (OrdinaryCommitted(held) <= OrdinaryLimit)'
  BY <1>8, <1>10, <1>11, <1>12
<1>14. (GlobalAvailable(held) >= 0)'
  <2>1. GlobalAvailable(held)' = GlobalAvailable(h) - SumOver(Grant, joins)
    BY <1>8, <1>9, <1>10, <1>11, <1>12 DEF GlobalAvailable
  <2>2. QED
    BY <1>10, <1>12, <2>1
<1>15. Reserves \subseteq joins
  <2>1. ASSUME NEW c \in Reserves, c \notin joins
        PROVE  FALSE
    <3>1. c \in Owners \cup Rows /\ held[c].status # "active" /\ held'[c].status = "active"
      BY <1>3 DEF Reserves
    <3>2. held'[c] = held[c]
      BY <1>1, <2>1, <3>1
    <3>3. QED
      BY <3>1, <3>2
  <2>2. QED
    BY <2>1
<1>16. DrawsFinal = {} /\ Reserves \cap (Rows \ FinalRows) = {}
  BY <1>4, <1>7, <1>15 DEF DrawsFinal
<1>17. QED
  BY <1>13, <1>14, <1>16 DEF ReservesWhatFits

LEMMA NothingReserved ==
  ASSUME BudgetTypes, ext' = ext,
         \A c \in Owners \cup Rows : held'[c].status = "active" => held[c].status = "active"
  PROVE  ReservesWhatFits
<1>1. Reserves = {}
  BY DEF Reserves, BudgetTypes
<1>2. Extends = {}
  <2>1. \A m \in Owners : ext[m] \in Nat /\ ext'[m] = ext[m]
    BY DEF BudgetTypes
  <2>2. QED
    BY <2>1 DEF Extends
<1>3. DrawsOrdinary = {} /\ DrawsFinal = {}
  BY <1>1, <1>2 DEF DrawsOrdinary, DrawsFinal
<1>4. QED
  BY <1>1, <1>3 DEF ReservesWhatFits

LEMMA ReleasedOnly ==
  ASSUME BudgetTypes, NEW u \in [Rows -> Nat], NEW S, held' = Released(held, u, S), ext' = ext
  PROVE  ReservesWhatFits
<1>1. held \in [Owners \cup Rows -> Holdings]
  BY DEF BudgetTypes
<1>2. \A c \in Owners \cup Rows :
        held'[c] = IF c \in S /\ held[c].status = "active"
                   THEN [status |-> "released", consumed |-> Actual(u, c)] ELSE held[c]
  BY <1>1, ReleasedIs
<1>3. \A c \in Owners \cup Rows : held'[c].status = "active" => held[c].status = "active"
  BY <1>2
<1>4. QED
  BY <1>3, NothingReserved

LEMMA StepFits == BudgetInv /\ [BudgetNext]_budgetVars => ReservesWhatFits
<1> SUFFICES ASSUME BudgetInv, [BudgetNext]_budgetVars PROVE ReservesWhatFits
  OBVIOUS
<1>1. BudgetTypes /\ used \in [Rows -> Nat] /\ 0 .. MaxSpent \subseteq Nat
  BY BudgetBounds DEF BudgetInv, BudgetTypes
<1>2. ASSUME NEW n \in Nodes, StartNode(n) \/ StartPosition(n)
      PROVE  ReservesWhatFits
  <2>1. n \in Owners /\ node[n] \in Open /\ PrepareNext(n) /\ UNCHANGED <<used, added>>
    BY <1>2 DEF StartNode, StartPosition, Open, Owners
  <2>2. Unstarted(n) # {}
    <3>1. CASE StartPosition(n)
      BY <3>1 DEF StartPosition
    <3>2. CASE StartNode(n)
      BY <3>2, ReadyIsUnstarted
    <3>3. QED
      BY <1>2, <3>1, <3>2
  <2>3. CASE Funded(n)
    BY <2>1, <2>2, <2>3, FundedFits
  <2>4. CASE NodeEnds(n, "failed") /\ UNCHANGED ext
    BY <1>1, <2>4, ReleasedOnly DEF NodeEnds
  <2>5. CASE UNCHANGED <<held, ext>>
    BY <1>1, <2>5, NothingReserved
  <2>6. QED
    BY <2>1, <2>3, <2>4, <2>5 DEF PrepareNext
<1>3. ASSUME NEW n \in Nodes, ResumeBudget(n) \/ SettleNode(n)
      PROVE  ReservesWhatFits
  <2>1. CASE ResumeBudget(n)
    BY <1>1, <2>1, NothingReserved DEF ResumeBudget
  <2>2. CASE SettleNode(n)
    <3>1. held' = Released(held, used, {n}) /\ ext' = ext
      BY <2>2 DEF SettleNode, NodeEnds
    <3>2. QED
      BY <1>1, <3>1, ReleasedOnly
  <2>3. QED
    BY <1>3, <2>1, <2>2
<1>4. ASSUME NEW k \in Rows, Execute(k) \/ Exhausted(k)
      PROVE  ReservesWhatFits
  <2>1. CASE Execute(k)
    BY <1>1, <2>1, NothingReserved DEF Execute
  <2>2. CASE Exhausted(k)
    BY <1>1, <2>2, ReleasedOnly DEF Exhausted
  <2>3. QED
    BY <1>4, <2>1, <2>2
<1>5. ASSUME NEW k \in Rows, NEW status, NEW spent \in 0 .. MaxSpent, EndAttempt(k, status, spent)
      PROVE  ReservesWhatFits
  <2>1. used' \in [Rows -> Nat] /\ ext' = ext
    BY <1>1, <1>5, SpendIs DEF EndAttempt
  <2>2. PICK u \in [Rows -> Nat] : u = used'
    BY <2>1
  <2>3. held' = held \/ held' = Released(held, u, {k})
    BY <1>5, <2>2 DEF EndAttempt
  <2>4. QED
    BY <1>1, <2>1, <2>3, NothingReserved, ReleasedOnly
<1>6. ASSUME NEW k \in Rows, NEW spent \in 0 .. MaxSpent, EndCancelled(k, spent)
      PROVE  ReservesWhatFits
  <2>1. used' \in [Rows -> Nat] /\ ext' = ext
    BY <1>1, <1>6, SpendIs DEF EndCancelled
  <2>2. PICK u \in [Rows -> Nat] : u = used'
    BY <2>1
  <2>3. \E S : held' = Released(held, u, S)
    BY <1>6, <2>2 DEF EndCancelled, Converge
  <2>4. QED
    BY <1>1, <2>1, <2>3, ReleasedOnly
<1>7. CASE RootTurn \/ RequestChanges
  <2>1. /\ Root \in Owners /\ node[Root] \in Open /\ Unstarted(Root) # {} /\ Funded(Root)
        /\ UNCHANGED <<used, added>>
    BY <1>7 DEF RootTurn, RequestChanges, BudgetInv, RootReserves, Open, Owners
  <2>2. QED
    BY <2>1, FundedFits
<1>8. CASE FailRun
  <2>1. held' = Released(held, used, {Root}) /\ ext' = ext
    BY <1>8 DEF FailRun, NodeEnds
  <2>2. QED
    BY <1>1, <2>1, ReleasedOnly
<1>9. CASE Revise
  BY <1>9, ReviseFits
<1>10. CASE (\E p \in Partitions : Request(p)) \/ Approve \/ Deny \/ BeginCompletion
            \/ VerificationFails \/ AwaitSignoff \/ Accept \/ UNCHANGED budgetVars
  <2>1. UNCHANGED <<held, ext>>
    BY <1>10 DEF Request, Approve, Deny, BeginCompletion, VerificationFails, AwaitSignoff, Accept, budgetVars
  <2>2. QED
    BY <1>1, <2>1, NothingReserved
<1>11. CASE PrepareFinal
  <2>1. Unstarted(Final) # {} /\ UNCHANGED <<used, ext, added>>
    BY <1>11, PositionLeft DEF PrepareFinal
  <2>2. CASE Need[Final] <= FinalAvailable(held) /\ held' = [held EXCEPT ![Next1(Final)] = Taken]
    BY <2>1, <2>2, FinalFits
  <2>3. CASE UNCHANGED held
    BY <1>1, <2>1, <2>3, NothingReserved
  <2>4. QED
    BY <1>11, <2>2, <2>3 DEF PrepareFinal
<1>12. CASE Cancel
  <2>1. \E S : held' = Released(held, used, S)
    BY <1>12 DEF Cancel, Converge
  <2>2. ext' = ext
    BY <1>12 DEF Cancel
  <2>3. QED
    BY <1>1, <2>1, <2>2, ReleasedOnly
<1>13. QED
  BY <1>2, <1>3, <1>4, <1>5, <1>6, <1>7, <1>8, <1>9, <1>10, <1>11, <1>12 DEF BudgetNext

\* Whatever was overrun, extended, increased or released before, a step that reserves leaves every
\* account it draws from covering what it committed, whatever the plan, the allocations and the
\* Usage (stores/budgets.ts reserve*, plan-node-capacity.ts ensure, plan-revisions.ts assertCapacity).
THEOREM FundingFitsHolds == BudgetSpec => FundingFits
<1>1. QED
  BY ReservationsFollowStatuses, StepFits, PTL DEF BudgetSpec, FundingFits

-----------------------------------------------------------------------------
(***************************************************************************)
(* Usage reaches the Run's account once.                                   *)
(***************************************************************************)
LEMMA AccountsKept ==
  /\ IsFiniteSet(Accounts) /\ Accounts \subseteq Owners \cup Rows
  /\ \A c \in Accounts : c \in Owners \/ (c \in FinalRows /\ c \in Rows /\ Owner(c) = Final)
BY RowIs DEF Accounts

LEMMA CountedIs ==
  ASSUME BudgetTypes, NEW c \in Accounts
  PROVE  Counted(c) \in Nat
<1>1. c \in Owners \cup Rows
  BY AccountsKept
<1>2. Actual(used, c) \in Nat /\ held[c].consumed \in Nat
  BY <1>1, Spent DEF BudgetTypes, Holdings
<1>3. QED
  BY <1>2 DEF Counted

LEMMA ConsumesTheSame ==
  ASSUME BudgetTypes, \A c \in Accounts : Counted(c)' = Counted(c),
         \A k \in Rows : used'[k] # used[k] => Owner(k) # Final /\ node[Owner(k)] = "failed"
  PROVE  CountsWhatIsRecorded
<1> DEFINE f == [c \in Accounts |-> Counted(c)]
           g == [c \in Accounts |-> Counted(c)']
           none == [k \in {} |-> used'[k] - used[k]]
<1>1. \A c \in Accounts : f[c] \in Int /\ g[c] = f[c]
  BY CountedIs
<1>2. SumOver(g, Accounts) = SumOver(f, Accounts) /\ SumOver(f, Accounts) \in Int
  <2> HIDE DEF f, g
  <2>1. QED
    BY <1>1, AccountsKept, SumSame, SumChosen
<1>3. Consumed' - Consumed = 0
  BY <1>2 DEF Consumed
<1>4. SumOver(none, {}) = 0
  <2>1. IsFiniteSet({}) /\ \A k \in {} : none[k] \in Int
    BY FS_EmptySet
  <2> HIDE DEF none
  <2>2. QED
    BY <2>1, SumChosen
<1>5. {k \in Rows : used'[k] # used[k] /\ (Owner(k) = Final \/ node[Owner(k)] # "failed")} = {}
  OBVIOUS
<1>6. QED
  BY <1>3, <1>4, <1>5 DEF CountsWhatIsRecorded

LEMMA ConsumesMoreAt ==
  ASSUME BudgetTypes, NEW x \in Accounts, NEW k \in Rows, NEW spent \in Nat,
         used'[k] = used[k] + spent, \A l \in Rows \ {k} : used'[l] = used[l],
         Owner(k) = Final \/ node[Owner(k)] # "failed",
         Counted(x)' = Counted(x) + spent, \A c \in Accounts \ {x} : Counted(c)' = Counted(c)
  PROVE  CountsWhatIsRecorded
<1> DEFINE f == [c \in Accounts |-> Counted(c)]
           g == [c \in Accounts |-> Counted(c)']
<1>1. CASE spent = 0
  <2>1. \A c \in Accounts : Counted(c)' = Counted(c)
    <3>1. Counted(x) \in Nat
      BY CountedIs
    <3>2. QED
      BY <1>1, <3>1
  <2>2. \A l \in Rows : used'[l] = used[l]
    BY <1>1 DEF BudgetTypes
  <2>3. QED
    BY <2>1, <2>2, ConsumesTheSame
<1>2. CASE spent # 0
  <2>1. \A c \in Accounts : f[c] \in Int /\ g[c] = IF c = x THEN f[c] + spent ELSE f[c]
    <3>1. \A c \in Accounts : Counted(c) \in Nat
      BY CountedIs
    <3>2. QED
      BY <3>1
  <2>2. SumOver(g, Accounts) = SumOver(f, Accounts) + spent /\ SumOver(f, Accounts) \in Int
    <3>1. spent \in Int
      OBVIOUS
    <3> HIDE DEF f, g
    <3>2. IsFiniteSet(Accounts)
      BY AccountsKept
    <3>3. SumOver(f, Accounts) \in Int
      BY <2>1, <3>2, SumChosen
    <3>4. SumOver(g, Accounts) = SumOver(f, Accounts) + spent
      BY <2>1, <3>1, <3>2, SumChangesAt
    <3>5. QED
      BY <3>3, <3>4
  <2>3. Consumed' - Consumed = spent
    BY <2>2 DEF Consumed
  <2> DEFINE change == [l \in {k} |-> used'[l] - used[l]]
  <2>4. used[k] \in Nat
    BY DEF BudgetTypes
  <2>5. change[k] = spent
    BY <2>4
  <2>6. SumOver(change, {k}) = spent
    <3> HIDE DEF change
    <3>1. QED
      BY <2>5, SumOfOne
  <2>7. {l \in Rows : used'[l] # used[l] /\ (Owner(l) = Final \/ node[Owner(l)] # "failed")} = {k}
    BY <1>2, <2>4
  <2>8. QED
    BY <2>3, <2>6, <2>7 DEF CountsWhatIsRecorded
<1>3. QED
  BY <1>1, <1>2

\* What a child holds, or held when it was released, counts for what it spent.
LEMMA CountedOf ==
  ASSUME BudgetTypes, NEW c \in Accounts, NEW u \in [Rows -> Nat], used' = u,
         \/ held'[c] = held[c]
         \/ held[c].status = "active" /\ held'[c] = [status |-> "released", consumed |-> Actual(u, c)]
  PROVE  Counted(c)' = IF held[c].status = "active" THEN Actual(u, c) ELSE held[c].consumed
<1>1. Actual(used, c)' = Actual(u, c)
  BY DEF Actual, Used
<1>2. QED
  BY <1>1 DEF Counted

LEMMA SpentAt ==
  ASSUME BudgetTypes, NEW k \in Rows, NEW spent \in Nat, NEW u \in [Rows -> Nat],
         u[k] = used[k] + spent, \A l \in Rows \ {k} : u[l] = used[l],
         NEW c \in Accounts
  PROVE  Actual(u, c) = IF c = (IF Owner(k) = Final THEN k ELSE Owner(k))
                        THEN Actual(used, c) + spent ELSE Actual(used, c)
<1>1. CASE c \in Owners
  <2>1. RowsOf[c] = {l \in Rows : Owner(l) = c} /\ IsFiniteSet(RowsOf[c]) /\ c # Final /\ c # k
    BY <1>1, RowIs, BudgetBounds
  <2>2. \A l \in RowsOf[c] : used[l] \in Int
    BY <2>1 DEF BudgetTypes
  <2>3. CASE Owner(k) = c
    <3>1. k \in RowsOf[c] /\ spent \in Int
      BY <2>1, <2>3
    <3>2. /\ IsFiniteSet(RowsOf[c])
          /\ \A l \in RowsOf[c] : used[l] \in Int /\ u[l] = IF l = k THEN used[l] + spent ELSE used[l]
      BY <2>1, <2>2
    <3>3. SumOver(u, RowsOf[c]) = SumOver(used, RowsOf[c]) + spent
      BY <3>1, <3>2, SumChangesAt
    <3>4. QED
      BY <1>1, <2>1, <2>3, <3>3 DEF Actual, Used
  <2>4. CASE Owner(k) # c
    <3>1. \A l \in RowsOf[c] : used[l] \in Int /\ u[l] = used[l]
      BY <2>1, <2>2, <2>4
    <3>2. SumOver(u, RowsOf[c]) = SumOver(used, RowsOf[c])
      BY <2>1, <3>1, SumSame
    <3>3. QED
      BY <1>1, <2>1, <2>4, <3>2 DEF Actual, Used
  <2>5. QED
    BY <2>3, <2>4
<1>2. CASE c \notin Owners
  <2>1. c \in Rows /\ Owner(c) = Final
    BY <1>2, AccountsKept
  <2>2. Owner(k) # Final => Owner(k) \in Owners
    BY RowIs
  <2>3. Actual(u, c) = u[c] /\ Actual(used, c) = used[c]
    BY <1>2 DEF Actual
  <2>4. QED
    BY <1>2, <2>1, <2>2, <2>3
<1>3. QED
  BY <1>1, <1>2

LEMMA SpendCounts ==
  ASSUME BudgetInv, NEW k \in Rows, NEW spent \in Nat, Spend(k, spent),
         NEW u \in [Rows -> Nat], used' = u,
         \A c \in Accounts :
           \/ held'[c] = held[c]
           \/ held[c].status = "active" /\ held'[c] = [status |-> "released", consumed |-> Actual(u, c)]
  PROVE  CountsWhatIsRecorded
<1> DEFINE x == IF Owner(k) = Final THEN k ELSE Owner(k)
<1>1. BudgetTypes
  BY DEF BudgetInv
<1>2. u[k] = used[k] + spent /\ row[k] = "executing" /\ \A l \in Rows \ {k} : u[l] = used[l]
  BY SpendIs
<1>3. x \in Accounts /\ (Owner(k) # Final => x \in Owners) /\ k \in RowsOf[Owner(k)]
  BY RowIs
<1> HIDE DEF x
<1>4. \A c \in Accounts : Actual(u, c) = IF c = x THEN Actual(used, c) + spent ELSE Actual(used, c)
  BY <1>1, <1>2, SpentAt DEF x
<1>5. \A c \in Accounts :
        /\ Counted(c) = IF held[c].status = "active" THEN Actual(used, c) ELSE held[c].consumed
        /\ Counted(c)' = IF held[c].status = "active" THEN Actual(u, c) ELSE held[c].consumed
  <2>1. \A c \in Accounts : Counted(c)' = IF held[c].status = "active" THEN Actual(u, c) ELSE held[c].consumed
    BY <1>1, CountedOf
  <2>2. QED
    BY <2>1 DEF Counted
<1>6. \A c \in Accounts \ {x} : Counted(c)' = Counted(c)
  BY <1>4, <1>5
<1>7. CASE held[x].status = "active"
  <2>1. Counted(x)' = Counted(x) + spent
    BY <1>3, <1>4, <1>5, <1>7
  <2>2. Owner(k) = Final \/ node[Owner(k)] # "failed"
    BY <1>3, <1>7 DEF x, BudgetInv, NodesReserve, Open
  <2>3. PICK y \in Accounts : y = x
    BY <1>3
  <2>4. Counted(y)' = Counted(y) + spent /\ \A c \in Accounts \ {y} : Counted(c)' = Counted(c)
    BY <1>5, <1>4, <1>6, <1>7, <2>3
  <2>5. QED
    BY <1>1, <1>2, <2>2, <2>4, ConsumesMoreAt
<1>8. CASE held[x].status # "active"
  <2>1. \A c \in Accounts : Counted(c)' = Counted(c)
    BY <1>3, <1>5, <1>6, <1>8
  <2>2. Owner(k) # Final /\ node[Owner(k)] = "failed"
    BY <1>2, <1>3, <1>8 DEF x, BudgetInv, RowsReserve, NodesReserve, Open, Live
  <2>3. QED
    BY <1>1, <1>2, <2>1, <2>2, ConsumesTheSame
<1>9. QED
  BY <1>7, <1>8

\* A step that records no Usage leaves the Run's account as it is.
LEMMA NothingCounted ==
  ASSUME BudgetTypes, used' = used,
         \A c \in Accounts :
           \/ held'[c] = held[c]
           \/ held[c].status = "active" /\ held'[c] = [status |-> "released", consumed |-> Actual(used, c)]
           \/ held[c] = None /\ held'[c] = Taken /\ Actual(used, c) = 0
  PROVE  CountsWhatIsRecorded
<1>1. PICK u \in [Rows -> Nat] : u = used
  BY DEF BudgetTypes
<1>2. ASSUME NEW c \in Accounts
      PROVE  Counted(c)' = Counted(c)
  <2>1. CASE \/ held'[c] = held[c]
             \/ held[c].status = "active" /\ held'[c] = [status |-> "released", consumed |-> Actual(used, c)]
    <3>1. Counted(c)' = IF held[c].status = "active" THEN Actual(u, c) ELSE held[c].consumed
      BY <1>1, <2>1, CountedOf
    <3>2. QED
      BY <1>1, <3>1 DEF Counted
  <2>2. CASE held[c] = None /\ held'[c] = Taken /\ Actual(used, c) = 0
    <3>1. Actual(used, c)' = 0
      BY <2>2 DEF Actual, Used
    <3>2. QED
      BY <2>2, <3>1 DEF Counted, None, Taken
  <2>3. QED
    BY <2>1, <2>2
<1>3. QED
  BY <1>2, ConsumesTheSame

LEMMA ReleasesCount ==
  ASSUME BudgetTypes, used' = used, NEW S, held' = Released(held, used, S)
  PROVE  CountsWhatIsRecorded
<1>1. held \in [Owners \cup Rows -> Holdings] /\ used \in [Rows -> Nat]
  BY DEF BudgetTypes
<1>2. \A c \in Owners \cup Rows :
        held'[c] = IF c \in S /\ held[c].status = "active"
                   THEN [status |-> "released", consumed |-> Actual(used, c)] ELSE held[c]
  BY <1>1, ReleasedIs
<1>3. \A c \in Accounts :
        \/ held'[c] = held[c]
        \/ held[c].status = "active" /\ held'[c] = [status |-> "released", consumed |-> Actual(used, c)]
  BY <1>2, AccountsKept
<1>4. QED
  BY <1>3, NothingCounted

LEMMA TakesCount ==
  ASSUME BudgetInv, NEW o \in Owners \cup {Final}, Unstarted(o) # {}, used' = used,
         held' = [held EXCEPT ![Next1(o)] = Taken]
  PROVE  CountsWhatIsRecorded
<1>1. PICK k : k = Next1(o)
  OBVIOUS
<1>2. k \in Rows /\ k \notin Owners /\ row[k] = "none"
  BY <1>1, FirstUnstarted, RowIs
<1>3. BudgetTypes /\ held \in [Owners \cup Rows -> Holdings] /\ held[k] = None /\ Actual(used, k) = 0
  BY <1>2 DEF BudgetInv, BudgetTypes, RowsReserve, Actual
<1>4. \A c \in Owners \cup Rows : IF c = k THEN held'[c] = Taken ELSE held'[c] = held[c]
  BY <1>1, <1>2, <1>3
<1>5. \A c \in Accounts :
        \/ held'[c] = held[c]
        \/ held[c] = None /\ held'[c] = Taken /\ Actual(used, c) = 0
  BY <1>3, <1>4, AccountsKept
<1>6. QED
  BY <1>3, <1>5, NothingCounted

LEMMA RevisionCounts ==
  ASSUME BudgetInv, Revise
  PROVE  CountsWhatIsRecorded
<1>1. PICK joins \in SUBSET Nodes, gone \in SUBSET Nodes :
           /\ \A n \in joins : node[n] = "unplanned"
           /\ \A c \in Owners \cup Rows :
                /\ held'[c] = IF c \in joins THEN Taken ELSE Released(held, used, gone)[c]
                /\ Released(held, used, gone)[c]
                     = IF c \in gone /\ held[c].status = "active"
                       THEN [status |-> "released", consumed |-> Actual(used, c)] ELSE held[c]
  BY RevisionIs
<1>2. \A n \in joins : n \in Owners /\ held[n] = None /\ Actual(used, n) = 0
  BY <1>1, NothingSpent DEF BudgetInv, NodesReserve, Owners
<1>3. \A c \in Accounts :
        \/ held'[c] = held[c]
        \/ held[c].status = "active" /\ held'[c] = [status |-> "released", consumed |-> Actual(used, c)]
        \/ held[c] = None /\ held'[c] = Taken /\ Actual(used, c) = 0
  BY <1>1, <1>2, AccountsKept
<1>4. BudgetTypes /\ used' = used
  BY DEF BudgetInv, Revise
<1>5. QED
  BY <1>3, <1>4, NothingCounted

LEMMA AttemptCounts ==
  ASSUME BudgetInv, NEW k \in Rows, NEW spent \in Nat, Spend(k, spent),
         held' = held \/ \E S : held' = Released(held, used', S)
  PROVE  CountsWhatIsRecorded
<1>1. PICK u \in [Rows -> Nat] : u = used'
  BY SpendIs
<1>2. held \in [Owners \cup Rows -> Holdings]
  BY DEF BudgetInv, BudgetTypes
<1>3. \A c \in Accounts :
        \/ held'[c] = held[c]
        \/ held[c].status = "active" /\ held'[c] = [status |-> "released", consumed |-> Actual(u, c)]
  <2>1. CASE held' = held
    BY <2>1
  <2>2. CASE \E S : held' = Released(held, used', S)
    <3>1. PICK S : held' = Released(held, u, S)
      BY <1>1, <2>2
    <3>2. \A c \in Owners \cup Rows :
            held'[c] = IF c \in S /\ held[c].status = "active"
                       THEN [status |-> "released", consumed |-> Actual(u, c)] ELSE held[c]
      <4>1. \A c \in Owners \cup Rows :
              Released(held, u, S)[c] = IF c \in S /\ held[c].status = "active"
                                        THEN [status |-> "released", consumed |-> Actual(u, c)] ELSE held[c]
        BY <1>2, ReleasedIs
      <4>2. QED
        BY <3>1, <4>1
    <3> SUFFICES ASSUME NEW c \in Accounts
                 PROVE  \/ held'[c] = held[c]
                        \/ /\ held[c].status = "active"
                           /\ held'[c] = [status |-> "released", consumed |-> Actual(u, c)]
      OBVIOUS
    <3>3. c \in Owners \cup Rows
      BY AccountsKept
    <3>4. CASE c \in S /\ held[c].status = "active"
      BY <3>2, <3>3, <3>4
    <3>5. CASE ~(c \in S /\ held[c].status = "active")
      BY <3>2, <3>3, <3>5
    <3>6. QED
      BY <3>4, <3>5
  <2>3. QED
    BY <2>1, <2>2
<1>4. QED
  BY <1>1, <1>3, SpendCounts

LEMMA StepCounts == BudgetInv /\ [BudgetNext]_budgetVars => CountsWhatIsRecorded
<1> SUFFICES ASSUME BudgetInv, [BudgetNext]_budgetVars PROVE CountsWhatIsRecorded
  OBVIOUS
<1>1. BudgetTypes /\ 0 .. MaxSpent \subseteq Nat
  BY BudgetBounds DEF BudgetInv
<1>2. ASSUME NEW n \in Nodes, StartNode(n) \/ StartPosition(n)
      PROVE  CountsWhatIsRecorded
  <2>1. n \in Owners \cup {Final} /\ PrepareNext(n) /\ used' = used
    BY <1>2 DEF StartNode, StartPosition, Owners
  <2>2. Unstarted(n) # {}
    <3>1. CASE StartPosition(n)
      BY <3>1 DEF StartPosition
    <3>2. CASE StartNode(n)
      BY <3>2, ReadyIsUnstarted
    <3>3. QED
      BY <1>2, <3>1, <3>2
  <2>3. CASE Funded(n)
    <3>1. held' = [held EXCEPT ![Next1(n)] = Taken]
      BY <2>3 DEF Funded
    <3>2. QED
      BY <2>1, <2>2, <3>1, TakesCount
  <2>4. CASE NodeEnds(n, "failed")
    BY <1>1, <2>1, <2>4, ReleasesCount DEF NodeEnds
  <2>5. CASE held' = held
    BY <1>1, <2>1, <2>5, NothingCounted
  <2>6. QED
    BY <2>1, <2>3, <2>4, <2>5 DEF PrepareNext
<1>3. ASSUME NEW n \in Nodes, SettleNode(n)
      PROVE  CountsWhatIsRecorded
  <2>1. held' = Released(held, used, {n}) /\ used' = used
    BY <1>3 DEF SettleNode, NodeEnds
  <2>2. QED
    BY <1>1, <2>1, ReleasesCount
<1>4. ASSUME NEW k \in Rows, Exhausted(k)
      PROVE  CountsWhatIsRecorded
  BY <1>1, <1>4, ReleasesCount DEF Exhausted
<1>5. ASSUME NEW k \in Rows, NEW status, NEW spent \in 0 .. MaxSpent, EndAttempt(k, status, spent)
      PROVE  CountsWhatIsRecorded
  <2>1. Spend(k, spent) /\ (held' = held \/ held' = Released(held, used', {k}))
    BY <1>5 DEF EndAttempt
  <2>2. QED
    BY <1>1, <2>1, AttemptCounts
<1>6. ASSUME NEW k \in Rows, NEW spent \in 0 .. MaxSpent, EndCancelled(k, spent)
      PROVE  CountsWhatIsRecorded
  <2>1. Spend(k, spent) /\ \E S : held' = Released(held, used', S)
    BY <1>6 DEF EndCancelled, Converge
  <2>2. QED
    BY <1>1, <2>1, AttemptCounts
<1>7. CASE RootTurn \/ RequestChanges
  <2>1. /\ Root \in Owners \cup {Final} /\ Unstarted(Root) # {} /\ used' = used
        /\ held' = [held EXCEPT ![Next1(Root)] = Taken]
    BY <1>7 DEF RootTurn, RequestChanges, Funded, Owners
  <2>2. QED
    BY <2>1, TakesCount
<1>8. CASE FailRun
  <2>1. held' = Released(held, used, {Root}) /\ used' = used
    BY <1>8 DEF FailRun, NodeEnds
  <2>2. QED
    BY <1>1, <2>1, ReleasesCount
<1>9. CASE Revise
  BY <1>9, RevisionCounts
<1>10. CASE \/ \E n \in Nodes : ResumeBudget(n)
            \/ \E k \in Rows : Execute(k)
            \/ (\E p \in Partitions : Request(p)) \/ Approve \/ Deny \/ BeginCompletion
            \/ VerificationFails \/ AwaitSignoff \/ Accept \/ UNCHANGED budgetVars
  <2>1. UNCHANGED <<used, held>>
    BY <1>10 DEF ResumeBudget, Execute, Request, Approve, Deny, BeginCompletion, VerificationFails,
                 AwaitSignoff, Accept, budgetVars
  <2>2. QED
    BY <1>1, <2>1, NothingCounted
<1>11. CASE PrepareFinal
  <2>1. Unstarted(Final) # {} /\ used' = used
    BY <1>11, PositionLeft DEF PrepareFinal
  <2>2. CASE held' = [held EXCEPT ![Next1(Final)] = Taken]
    BY <2>1, <2>2, TakesCount
  <2>3. CASE held' = held
    BY <1>1, <2>1, <2>3, NothingCounted
  <2>4. QED
    BY <1>11, <2>2, <2>3 DEF PrepareFinal
<1>12. CASE Cancel
  <2>1. used' = used /\ \E S : held' = Released(held, used, S)
    BY <1>12 DEF Cancel, Converge
  <2>2. QED
    BY <1>1, <2>1, ReleasesCount
<1>13. QED
  BY <1>2, <1>3, <1>4, <1>5, <1>6, <1>7, <1>8, <1>9, <1>10, <1>11, <1>12 DEF BudgetNext

\* Every unit of Usage reaches the Run's account once, when it is recorded, whatever was released,
\* extended, cancelled or settled before; only what an Invocation of a failed node still spends
\* does not (stores/usage.ts record, stores/budgets.ts release, capacityAccount).
THEOREM UsageReachesRunHolds == BudgetSpec => UsageReachesRun
<1>1. QED
  BY ReservationsFollowStatuses, StepCounts, PTL DEF BudgetSpec, UsageReachesRun

=============================================================================
