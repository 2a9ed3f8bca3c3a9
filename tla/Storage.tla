-------------------------------- MODULE Storage --------------------------------
(***************************************************************************)
(* Rows and content (persistence/transactions.ts, blob-store.ts,           *)
(* stores/artifacts.ts; boot.ts): an Artifact is a row in SQLite and a     *)
(* blob in a directory, written by one transaction that only the row takes *)
(* part in.  A marker beside the blob, hooks on the transaction and a      *)
(* reconciliation at startup keep the two together over failures of any    *)
(* step and the death of the process between any two.                      *)
(*                                                                         *)
(* The process is single-threaded and everything here synchronous: between *)
(* two steps of a transaction nothing but a death, or the disk losing a    *)
(* blob, can happen.                                                       *)
(***************************************************************************)
EXTENDS Naturals, Sequences

CONSTANTS
  Artifacts,   \* Artifacts that may be created
  Digests,     \* contents
  DigestOf,    \* the content of each Artifact
  NoArtifact,
  MaxDepth,    \* bound on nested writes
  MaxCreates,  \* bound on the creates of a transaction
  MaxLosses    \* bound on blobs the disk loses

ASSUME StorageAssumption ==
  /\ DigestOf \in [Artifacts -> Digests] /\ NoArtifact \notin Artifacts
  /\ MaxDepth \in Nat \ {0} /\ MaxCreates \in Nat /\ MaxLosses \in Nat

VARIABLES
  rows,      \* disk: the Artifacts with a committed row
  blobs,     \* disk: the digests with a blob
  markers,   \* disk: the digests with a pending marker
  temps,     \* disk: the digests with a temporary file
  lost,      \* the digests whose blob the disk lost and no write restored
  losses,
  at,        \* memory: where the process stands
  depth,     \* memory: nested writes of the transaction under way
  doomed,    \* memory: a nested write failed (rollbackOnly)
  made,      \* the rows the transaction has inserted so far
  putting,   \* memory: the Artifact whose bytes are being stored
  hooks,     \* memory: one entry for each create that reached the store
  failed     \* memory: this reconciliation left an obligation

disk == <<rows, blobs, markers, temps, lost, losses>>
memory == <<at, depth, doomed, made, putting, hooks, failed>>
vars == <<disk, memory>>

-----------------------------------------------------------------------------
(***************************************************************************)
(* idle: admitted, no transaction.  open: inside the work of a             *)
(* transaction.  marked, written: inside put.  settling: the hooks of a    *)
(* commit.  compensating, withdrawing: the two steps of a rollback hook.   *)
(* recovering, resolving: the reconciliation, and a marker between its     *)
(* blob and itself.  incomplete: serving reads until a restart.            *)
(***************************************************************************)
Stands == {"down", "recovering", "resolving", "incomplete", "idle", "open", "marked",
           "written", "settling", "compensating", "withdrawing"}

Hooks == [digest : Digests, owned : BOOLEAN]
Hook(d, owned) == [digest |-> d, owned |-> owned]

\* The digests committed Artifacts of any Run reference (referenced).
Referenced == {DigestOf[a] : a \in rows}

Init ==
  /\ rows = {} /\ blobs = {} /\ markers = {} /\ temps = {} /\ lost = {} /\ losses = 0
  /\ at = "down" /\ depth = 0 /\ doomed = FALSE /\ made = {}
  /\ putting = NoArtifact /\ hooks = <<>> /\ failed = FALSE

-----------------------------------------------------------------------------
(***************************************************************************)
(* The Transactor.                                                         *)
(***************************************************************************)
\* #root: BEGIN, with no hook and nothing doomed.
Begin ==
  /\ at = "idle"
  /\ at' = "open" /\ depth' = 1
  /\ UNCHANGED <<disk, doomed, made, putting, hooks, failed>>

\* #nested: a write inside a write is a level of the same transaction.
Nest ==
  /\ at = "open" /\ depth < MaxDepth
  /\ depth' = depth + 1
  /\ UNCHANGED <<disk, at, doomed, made, putting, hooks, failed>>

Unnest ==
  /\ at = "open" /\ depth > 1
  /\ depth' = depth - 1
  /\ UNCHANGED <<disk, at, doomed, made, putting, hooks, failed>>

\* An error inside a nested write dooms the root, whoever catches it.
NestedFails ==
  /\ at = "open" /\ depth > 1
  /\ depth' = depth - 1 /\ doomed' = TRUE
  /\ UNCHANGED <<disk, at, made, putting, hooks, failed>>

\* COMMIT; the hooks of the commit run after the transactor has reset itself.
Commit ==
  /\ at = "open" /\ depth = 1 /\ ~doomed
  /\ rows' = rows \cup made
  /\ at' = "settling" /\ depth' = 0 /\ made' = {}
  /\ UNCHANGED <<blobs, markers, temps, lost, losses, doomed, putting, hooks, failed>>

\* The work threw, a nested write had failed, or COMMIT did: the rows are rolled back
\* and the hooks run, the last registered first.
Rollback ==
  /\ at = "open" /\ depth = 1
  /\ at' = "compensating" /\ depth' = 0 /\ doomed' = FALSE /\ made' = {}
  /\ UNCHANGED <<disk, putting, hooks, failed>>

-----------------------------------------------------------------------------
(***************************************************************************)
(* ArtifactStore.create and put: a write of its own or a nested one.  A    *)
(* throw leaves a level of nesting, which dooms the root.                  *)
(***************************************************************************)
Digest == DigestOf[putting]
LeavePut == at' = "open" /\ putting' = NoArtifact

\* Mutant of Throws: the error of a create that was caught dooms nothing.
ThrowsCaught(owned) ==
  /\ LeavePut
  /\ hooks' = Append(hooks, Hook(Digest, owned))
  /\ UNCHANGED <<depth, doomed, made, failed>>

Throws(owned) ==
  /\ LeavePut /\ doomed' = TRUE
  /\ hooks' = Append(hooks, Hook(Digest, owned))
  /\ UNCHANGED <<depth, made, failed>>

\* The Event and the row follow the bytes, inside the transaction.
Inserts(a, owned) ==
  /\ made' = made \cup {a}
  /\ hooks' = Append(hooks, Hook(DigestOf[a], owned))

Creates(a) == at = "open" /\ a \notin rows \cup made /\ Len(hooks) < MaxCreates

\* A blob that is there and verifies is reused: it is not this create's to remove.
Reuse(a) ==
  /\ Creates(a) /\ DigestOf[a] \in blobs
  /\ Inserts(a, FALSE)
  /\ UNCHANGED <<disk, at, depth, doomed, putting, failed>>

\* The marker exists before any byte of a new blob does (markPending).
Mark(a) ==
  /\ Creates(a) /\ DigestOf[a] \notin blobs
  /\ markers' = markers \cup {DigestOf[a]}
  /\ at' = "marked" /\ putting' = a
  /\ UNCHANGED <<rows, blobs, temps, lost, losses, depth, doomed, made, hooks, failed>>

\* A blob that does not verify, or a marker that cannot be written: put throws.
PutRefused(a) ==
  /\ Creates(a)
  /\ doomed' = TRUE /\ hooks' = Append(hooks, Hook(DigestOf[a], FALSE))
  /\ UNCHANGED <<disk, at, depth, made, putting, failed>>

WriteTemporary ==
  /\ at = "marked"
  /\ temps' = temps \cup {Digest} /\ at' = "written"
  /\ UNCHANGED <<rows, blobs, markers, lost, losses, depth, doomed, made, putting, hooks, failed>>

\* The rename publishes the blob; the row follows.
Publish ==
  /\ at = "written"
  /\ blobs' = blobs \cup {Digest} /\ temps' = temps \ {Digest} /\ lost' = lost \ {Digest}
  /\ LeavePut /\ Inserts(putting, TRUE)
  /\ UNCHANGED <<rows, markers, losses, depth, doomed, failed>>

\* The rename published the blob; the Event or the row was refused.
PublishRefused ==
  /\ at = "written"
  /\ blobs' = blobs \cup {Digest} /\ temps' = temps \ {Digest} /\ lost' = lost \ {Digest}
  /\ Throws(TRUE)
  /\ UNCHANGED <<rows, markers, losses>>

\* Nothing was published: the temporary file and the marker are removed, each if it can be.
PutFails ==
  /\ at \in {"marked", "written"}
  /\ temps' \in {temps, temps \ {Digest}}
  /\ markers' \in {markers, markers \ {Digest}}
  /\ Throws(FALSE)
  /\ UNCHANGED <<rows, blobs, lost, losses>>

-----------------------------------------------------------------------------
(***************************************************************************)
(* The hooks.                                                              *)
(***************************************************************************)
\* settleMarker, in the order of registration; a marker that cannot be removed stays.
Settle ==
  /\ at = "settling" /\ hooks # <<>>
  /\ markers' \in {markers, IF Head(hooks).owned THEN markers \ {Head(hooks).digest} ELSE markers}
  /\ hooks' = Tail(hooks)
  /\ UNCHANGED <<rows, blobs, temps, lost, losses, at, depth, doomed, made, putting, failed>>

Last == hooks[Len(hooks)]
Earlier == SubSeq(hooks, 1, Len(hooks) - 1)

\* compensate removes the blob this create wrote unless a committed row references it,
Compensate ==
  /\ at = "compensating" /\ hooks # <<>>
  /\ blobs' = IF Last.owned /\ Last.digest \notin Referenced THEN blobs \ {Last.digest} ELSE blobs
  /\ at' = "withdrawing"
  /\ UNCHANGED <<rows, markers, temps, lost, losses, depth, doomed, made, putting, hooks, failed>>

\* and keeps the marker of a blob it could not remove,
CompensateFails ==
  /\ at = "compensating" /\ hooks # <<>> /\ Last.owned
  /\ hooks' = Earlier
  /\ UNCHANGED <<disk, at, depth, doomed, made, putting, failed>>

\* or removes the marker after it, if it can.
Withdraw ==
  /\ at = "withdrawing"
  /\ markers' \in {markers, IF Last.owned THEN markers \ {Last.digest} ELSE markers}
  /\ hooks' = Earlier /\ at' = "compensating"
  /\ UNCHANGED <<rows, blobs, temps, lost, losses, depth, doomed, made, putting, failed>>

HooksDone ==
  /\ at \in {"settling", "compensating"} /\ hooks = <<>>
  /\ at' = "idle"
  /\ UNCHANGED <<disk, depth, doomed, made, putting, hooks, failed>>

-----------------------------------------------------------------------------
(***************************************************************************)
(* reconcilePendingBlobs at startup, in the order the directory has.  A    *)
(* resolved entry is gone; one that failed is left and counted.            *)
(***************************************************************************)
Start ==
  /\ at = "down"
  /\ at' = "recovering"
  /\ UNCHANGED <<disk, depth, doomed, made, putting, hooks, failed>>

RemoveTemporary(d) ==
  /\ at = "recovering" /\ d \in temps
  /\ temps' = temps \ {d}
  /\ UNCHANGED <<rows, blobs, markers, lost, losses, memory>>

\* The blob of a marker goes when nothing committed references it,
ResolveBlob(a) ==
  /\ at = "recovering" /\ DigestOf[a] \in markers
  /\ blobs' = IF DigestOf[a] \in Referenced THEN blobs ELSE blobs \ {DigestOf[a]}
  /\ at' = "resolving" /\ putting' = a
  /\ UNCHANGED <<rows, markers, temps, lost, losses, depth, doomed, made, hooks, failed>>

\* and the marker last.
ResolveMarker ==
  /\ at = "resolving"
  /\ markers' = markers \ {Digest}
  /\ at' = "recovering" /\ putting' = NoArtifact
  /\ UNCHANGED <<rows, blobs, temps, lost, losses, depth, doomed, made, hooks, failed>>

\* A query, a removal or the enumeration failed, or an entry is not the protocol's.
ReconcileFails ==
  /\ at \in {"recovering", "resolving"}
  /\ at' = "recovering" /\ putting' = NoArtifact /\ failed' = TRUE
  /\ UNCHANGED <<disk, depth, doomed, made, hooks>>

\* Mutant of Admit: the failures of the reconciliation are only logged.
AdmitAnyway ==
  /\ at = "recovering"
  /\ failed \/ (temps = {} /\ markers = {})
  /\ at' = "idle"
  /\ UNCHANGED <<disk, depth, doomed, made, putting, hooks, failed>>

\* boot: admission opens when every obligation was resolved, else reads are served.
Admit ==
  /\ at = "recovering"
  /\ \/ failed /\ at' = "incomplete"
     \/ ~failed /\ temps = {} /\ markers = {} /\ at' = "idle"
  /\ UNCHANGED <<disk, depth, doomed, made, putting, hooks, failed>>

-----------------------------------------------------------------------------
\* The process dies or is restarted: SQLite rolls the open transaction back.
Crash ==
  /\ at # "down"
  /\ at' = "down" /\ depth' = 0 /\ doomed' = FALSE /\ made' = {}
  /\ putting' = NoArtifact /\ hooks' = <<>> /\ failed' = FALSE
  /\ UNCHANGED disk

\* The disk loses a blob behind the program's back.
Lose(d) ==
  /\ d \in blobs /\ losses < MaxLosses
  /\ blobs' = blobs \ {d} /\ lost' = lost \cup {d} /\ losses' = losses + 1
  /\ UNCHANGED <<rows, markers, temps, memory>>

Next ==
  \/ Begin \/ Nest \/ Unnest \/ NestedFails \/ Commit \/ Rollback
  \/ \E a \in Artifacts : Reuse(a) \/ Mark(a) \/ PutRefused(a) \/ ResolveBlob(a)
  \/ WriteTemporary \/ Publish \/ PublishRefused \/ PutFails
  \/ Settle \/ Compensate \/ CompensateFails \/ Withdraw \/ HooksDone
  \/ Start \/ ResolveMarker \/ ReconcileFails \/ Admit \/ Crash
  \/ \E d \in Digests : RemoveTemporary(d) \/ Lose(d)

Spec == Init /\ [][Next]_vars

-----------------------------------------------------------------------------
StorageTypeOK ==
  /\ rows \subseteq Artifacts /\ made \subseteq Artifacts
  /\ blobs \subseteq Digests /\ markers \subseteq Digests
  /\ temps \subseteq Digests /\ lost \subseteq Digests /\ losses \in Nat
  /\ at \in Stands /\ depth \in Nat /\ doomed \in BOOLEAN /\ failed \in BOOLEAN
  /\ putting \in Artifacts \cup {NoArtifact}
  /\ hooks \in Seq(Hooks)

\* A committed Artifact has its content, whatever failed or died while it or any other
\* Artifact of the same content was written, unless the disk itself lost it.
ReferencesResolve == Referenced \subseteq blobs \cup lost

\* A blob or a temporary file nothing committed references is known to the protocol: at
\* every instant, so at every death, what a failed write left is found again without
\* enumerating the store.
OrphansMarked == blobs \subseteq Referenced \cup markers

\* Rows and content account for each other at every instant (blob-store.ts,
\* stores/artifacts.ts): no row without its content, no content that is forgotten.
ContentAccounted == ReferencesResolve /\ OrphansMarked

\* New writes are admitted only over a store in which every blob has a committed row and
\* nothing is pending.
AdmittedClean ==
  [][(at = "recovering" /\ at' = "idle") => (blobs \subseteq Referenced /\ temps = {})]_vars
=============================================================================
