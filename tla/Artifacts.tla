----------------------------- MODULE Artifacts -----------------------------
(***************************************************************************)
(* The artifact manager: background downloads of a model and its           *)
(* companions into the models directory, under a storage budget.  A        *)
(* transfer reserves space under the lock, runs without it, is charged     *)
(* chunk by chunk, and is placed under the lock, in the layout of a        *)
(* Hugging Face cache (a snapshot entry that names a blob, shared between  *)
(* revisions and with other tools) or as a flat file.                      *)
(*                                                                         *)
(* A path always brings the same bytes; sizes are in units of one chunk.   *)
(***************************************************************************)
EXTENDS Integers, Sequences, FiniteSets, FiniteSetsExt

CONSTANTS
  Paths,      \* where weights may lie below the models directory
  Cached,     \* those inside the cache
  Flat,       \* the flat path a download to a path falls back to
  Blobs,      \* contents
  Content,    \* the content of each path
  Size,       \* the size of each content, in chunks
  Foreign,    \* cached paths that other tools have filled
  Jobs,       \* download jobs, each used once
  Requests,   \* download requests: sequences of [path, max], the model first
  Budgets     \* budgets the owner may set

ASSUME ArtifactAssumption ==
  /\ IsFiniteSet(Paths) /\ IsFiniteSet(Jobs)
  /\ Cached \subseteq Paths /\ Foreign \subseteq Cached
  /\ Flat \in [Paths -> Paths \ Cached]
  /\ Content \in [Paths -> Blobs]
  /\ \A p \in Paths : Content[Flat[p]] = Content[p]
  /\ Size \in [Blobs -> Nat \ {0}]
  /\ \A q \in Requests : q \in Seq([path : Paths, max : Nat]) /\ q # <<>>
  /\ Budgets \subseteq Nat \ {0} /\ Budgets # {}

VARIABLES
  present,    \* the paths with a file or a snapshot entry
  blobs,      \* the blobs directory
  manifest,   \* role recorded for each path, or "none"
  budget,     \* maxBudget
  setting,    \* the budget stored in the settings
  job,        \* downloads, with the transfer each has open
  stale       \* bytes in staging files nobody owns

vars == <<present, blobs, manifest, budget, setting, job, stale>>
disk == <<present, blobs, manifest>>

NoFile == -1
NewJob == [status |-> "none", pc |-> "idle", todo |-> <<>>, placed |-> <<>>,
           cancelled |-> FALSE, active |-> FALSE, reservation |-> 0,
           staged |-> 0, file |-> NoFile]

Init ==
  /\ present = Foreign
  /\ blobs = {Content[p] : p \in Foreign}
  /\ manifest = [p \in Paths |-> "none"]
  /\ budget \in Budgets
  /\ setting = budget
  /\ job = [j \in Jobs |-> NewJob]
  /\ stale = 0

-----------------------------------------------------------------------------
(* Accounting *)

\* The weights behind a path can be opened.
Weights(p) == p \in present /\ (p \in Cached => Content[p] \in blobs)

\* Manifests whose weights are on disk.
allManifests == {p \in Paths : manifest[p] # "none" /\ Weights(p)}

\* Content in the cache is counted once, however many paths name it.
installedSize ==
  MapThenSumSet(LAMBDA b : Size[b], {Content[p] : p \in allManifests \cap Cached})
  + MapThenSumSet(LAMBDA p : Size[Content[p]], allManifests \ Cached)

Reserved(j) == IF job[j].active THEN Max({job[j].staged, job[j].reservation}) ELSE 0

\* A staging file that no active transfer owns counts with its size.
Unowned(j) == IF job[j].active \/ job[j].file = NoFile THEN 0 ELSE job[j].file

totalCommitted ==
  installedSize + stale + MapThenSumSet(LAMBDA j : Reserved(j) + Unowned(j), Jobs)

\* SetMaxBudget takes effect at once; the setting follows and may fail.
SetMaxBudget(b) ==
  /\ budget' = b
  /\ setting' \in {b, setting}
  /\ UNCHANGED <<disk, job, stale>>

-----------------------------------------------------------------------------
(* A job *)

At(j, pc) == job[j].pc = pc
Ended(j, status) ==
  [job[j] EXCEPT !.pc = "idle", !.status = status, !.todo = <<>>, !.placed = <<>>,
                 !.cancelled = FALSE]

\* finishTransferLocked: the entry of activeTransfers is gone.
Released(k) == [k EXCEPT !.active = FALSE, !.reservation = 0, !.staged = 0]

Item(j) == Head(job[j].todo)
WeightsSize(j) == Size[Content[Item(j).path]]

StartDownloadSet(j, request) ==
  /\ job[j].status = "none"
  /\ job' = [job EXCEPT ![j].status = "downloading", ![j].pc = "begin",
                        ![j].todo = request]
  /\ UNCHANGED <<disk, budget, setting, stale>>

\* Cancelling a job that has ended changes nothing.
CancelDownload(j) ==
  /\ job[j].status = "downloading"
  /\ job' = [job EXCEPT ![j].cancelled = TRUE]
  /\ UNCHANGED <<disk, budget, setting, stale>>

Affordable(reservation) ==
  IF reservation > 0 THEN totalCommitted + reservation <= budget
                     ELSE totalCommitted < budget

\* DownloadArtifact up to the response: the URL, the metadata and the file
\* name are in order, space is reserved and the staging file is open.
startTransfer(j) ==
  /\ At(j, "begin")
  /\ Affordable(Item(j).max)
  /\ job' = [job EXCEPT ![j].pc = "read", ![j].active = TRUE, ![j].staged = 0,
                        ![j].reservation = Item(j).max, ![j].file = 0]
  /\ UNCHANGED <<disk, budget, setting, stale>>

\* A check fails or the budget is exhausted, with nothing reserved.
BeginFails(j) ==
  /\ At(j, "begin")
  /\ job' = [job EXCEPT ![j].pc = "failed"]
  /\ UNCHANGED <<disk, budget, setting, stale>>

chargeTransfer_NoMax(j) == TRUE
chargeTransfer_Unchecked(j) ==
  Item(j).max > 0 => job[j].staged + 1 <= Item(j).max
\* One more chunk is within the size announced, and within the budget as far
\* as it goes beyond the reservation.
chargeTransfer(j) ==
  LET staged == job[j].staged + 1
  IN  /\ Item(j).max > 0 => staged <= Item(j).max
      /\ staged > Max({job[j].staged, job[j].reservation})
           => totalCommitted + 1 <= budget

\* One turn of the loop: the context is alive, a chunk is charged and written.
ReadChunk(j) ==
  /\ At(j, "read") /\ ~job[j].cancelled
  /\ job[j].staged < WeightsSize(j)
  /\ chargeTransfer(j)
  /\ job' = [job EXCEPT ![j].staged = @ + 1, ![j].file = @ + 1]
  /\ UNCHANGED <<disk, budget, setting, stale>>

\* All bytes are there and the hash is right.
ReadEOF(j) ==
  /\ At(j, "read") /\ ~job[j].cancelled
  /\ job[j].staged = WeightsSize(j)
  /\ job' = [job EXCEPT ![j].pc = "place"]
  /\ UNCHANGED <<disk, budget, setting, stale>>

\* Cancelled, refused by the budget, cut off by the server, not writable, or
\* the wrong bytes.
ReadFails(j) ==
  /\ At(j, "read")
  /\ job' = [job EXCEPT ![j].pc = "cleanup"]
  /\ UNCHANGED <<disk, budget, setting, stale>>

\* The critical section at the end of DownloadArtifact: commitToCache, or a
\* rename to the flat path, then the manifest and the end of the transfer.  A
\* blob that is there already is kept and the staged copy dropped.
placeDownload(j) ==
  /\ At(j, "place")
  /\ \E p \in {Item(j).path, Flat[Item(j).path]} :
       /\ present' = present \cup {p}
       /\ blobs' = blobs \cup IF p \in Cached THEN {Content[p]} ELSE {}
       /\ manifest' = [manifest EXCEPT ![p] = "model"]
       /\ job' = [job EXCEPT ![j] = [Released(job[j]) EXCEPT !.pc = "placed",
                                      !.file = NoFile, !.placed = Append(@, p)]]
  /\ UNCHANGED <<budget, setting, stale>>

\* The move fails, possibly after the bytes have become a blob, and then also
\* after the snapshot entry of an earlier attempt was removed (commitToCache).
PlaceFails(j) ==
  LET p == Item(j).path
  IN  /\ At(j, "place")
      /\ \/ UNCHANGED <<present, blobs>>
         \/ /\ p \in Cached
            /\ blobs' = blobs \cup {Content[p]}
            /\ present' \in {present, present \ {p}}
      /\ job' = [job EXCEPT ![j].pc = "cleanup"]
      /\ UNCHANGED <<manifest, budget, setting, stale>>

\* The deferred calls of a failed download, in the order they run.
RemoveStaging(j) ==
  /\ At(j, "cleanup")
  /\ job' = [job EXCEPT ![j].pc = "finish", ![j].file = NoFile]
  /\ UNCHANGED <<disk, budget, setting, stale>>

finishTransfer_KeepsReservation(j) ==
  /\ At(j, "finish")
  /\ job' = [job EXCEPT ![j].pc = "failed"]
  /\ UNCHANGED <<disk, budget, setting, stale>>
finishTransfer(j) ==
  /\ At(j, "finish")
  /\ job' = [job EXCEPT ![j] = [Released(@) EXCEPT !.pc = "failed"]]
  /\ UNCHANGED <<disk, budget, setting, stale>>

\* Only now is the manifest of a companion rewritten with its role.
MarkCompanion(j) ==
  /\ At(j, "placed")
  /\ manifest' = IF Len(job[j].placed) = 1 THEN manifest
                 ELSE [manifest EXCEPT ![job[j].placed[Len(job[j].placed)]] = "companion"]
  /\ job' = [job EXCEPT ![j].todo = Tail(@),
                        ![j].pc = IF Len(job[j].todo) = 1 THEN "record" ELSE "begin"]
  /\ UNCHANGED <<present, blobs, budget, setting, stale>>

\* The manifest of the model is rewritten with its companions, and the job is
\* reported complete.
Complete(j) ==
  /\ At(j, "record")
  /\ manifest' = IF Len(job[j].placed) = 1 THEN manifest
                 ELSE [manifest EXCEPT ![job[j].placed[1]] = "model"]
  /\ job' = [job EXCEPT ![j] = Ended(j, "complete")]
  /\ UNCHANGED <<present, blobs, budget, setting, stale>>

\* A job that was cancelled may still have failed for another reason.
Failed(j) ==
  /\ At(j, "failed")
  /\ \E status \in {"failed"} \cup IF job[j].cancelled THEN {"cancelled"} ELSE {} :
       job' = [job EXCEPT ![j] = Ended(j, status)]
  /\ UNCHANGED <<disk, budget, setting, stale>>

-----------------------------------------------------------------------------
(* The owner's other operations, and a crash *)

blobReferenced_Never(S, b) == FALSE
blobReferenced(S, b) == \E p \in S \cap Cached : Content[p] = b

\* The blobs that are left: one goes with the last snapshot entry that names it.
removeFromCache(p) ==
  IF Weights(p) /\ ~blobReferenced(present \ {p}, Content[p])
  THEN blobs \ {Content[p]} ELSE blobs

\* Only what has a manifest can be deleted.
DeleteArtifact(p) ==
  /\ manifest[p] # "none"
  /\ present' = present \ {p}
  /\ blobs' = IF p \in Cached THEN removeFromCache(p) ELSE blobs
  /\ manifest' = [manifest EXCEPT ![p] = "none"]
  /\ UNCHANGED <<budget, setting, job, stale>>

\* ImportLocalArtifact copies a file to a flat path under the lock.
ImportLocalArtifact(p) ==
  /\ p \notin Cached
  /\ totalCommitted + Size[Content[p]] <= budget
  /\ \/ /\ present' = present \cup {p}
        /\ manifest' = [manifest EXCEPT ![p] = "model"]
     \/ /\ present' = present \ {p}        \* the copy fails
        /\ UNCHANGED manifest
  /\ UNCHANGED <<blobs, budget, setting, job, stale>>

\* The process dies: jobs and reservations are forgotten, staging files stay
\* and nothing removes them; NewArtifactManager reads the stored budget.
Restart ==
  /\ stale' = stale + MapThenSumSet(LAMBDA j : Max({job[j].file, 0}), Jobs)
  /\ job' = [j \in Jobs |-> IF job[j].status = "downloading"
                            THEN [NewJob EXCEPT !.status = "lost"]
                            ELSE job[j]]
  /\ budget' = setting
  /\ UNCHANGED <<disk, setting>>

Step(j) ==
  \/ startTransfer(j) \/ BeginFails(j)
  \/ ReadChunk(j) \/ ReadEOF(j) \/ ReadFails(j)
  \/ placeDownload(j) \/ PlaceFails(j)
  \/ RemoveStaging(j) \/ finishTransfer(j)
  \/ MarkCompanion(j) \/ Complete(j) \/ Failed(j)

Next ==
  \/ \E j \in Jobs :
       \/ \E q \in Requests : StartDownloadSet(j, q)
       \/ CancelDownload(j)
       \/ Step(j)
  \/ \E b \in Budgets : SetMaxBudget(b)
  \/ \E p \in Paths : DeleteArtifact(p) \/ ImportLocalArtifact(p)
  \/ Restart

Spec == Init /\ [][Next]_vars

-----------------------------------------------------------------------------
(* What the manager promises. *)

\* Every variable stays in its domain; no transfer takes more than the size it
\* announced (chargeTransfer).
TypeOK ==
  /\ present \subseteq Paths /\ blobs \subseteq Blobs
  /\ manifest \in [Paths -> {"none", "model", "companion"}]
  /\ budget \in Budgets /\ setting \in Budgets /\ stale \in Nat
  /\ \A j \in Jobs :
       /\ job[j].status \in {"none", "downloading", "complete", "failed",
                             "cancelled", "lost"}
       /\ job[j].file \in {NoFile} \cup 0..job[j].staged
       /\ job[j].reservation > 0 => job[j].staged \in 0..job[j].reservation

\* Whatever transfers run side by side, with or without an announced size, and
\* whatever is deleted, imported or re-budgeted meanwhile: what is installed,
\* staged and promised never grows beyond the budget in force (startTransfer,
\* chargeTransfer, ImportLocalArtifact).  A budget that was lowered below what
\* is there stops the growth and deletes nothing.
BudgetRespected ==
  [][totalCommitted' > totalCommitted => totalCommitted' <= budget']_vars

\* Removing one model damages no other: every entry of the cache, also one
\* that another tool made, names a blob that is there (removeFromCache).
CacheSound == \A p \in present \cap Cached : Content[p] \in blobs

\* Once a job has ended, on any of its ways out, nothing of its reservation or
\* its staging file is left to weigh on the budget, and a staging file always
\* belongs to a transfer that is still accounted for (DownloadArtifact).
NothingLeft ==
  \A j \in Jobs :
    /\ job[j].active => job[j].status = "downloading"
    /\ job[j].file # NoFile => job[j].active
=============================================================================
