-------------------------- MODULE FileStoreProofs --------------------------
(***************************************************************************)
(* FileStore for any number of files and of DELETE requests: what a row    *)
(* says of bytes, chunks and tasks holds through failing calls, crashes,   *)
(* deletes and housekeeping that run at the same time.                     *)
(*                                                                         *)
(* None of the four properties is inductive.  Each needs to know how far   *)
(* the others are with the same file: an upload that has put the bytes, a  *)
(* DELETE that has removed the row, a sweep that has gone through its list.*)
(***************************************************************************)
EXTENDS FileStore, TLAPS

\* The bytes are there before the row, and the chunk_status of a new row is not final.
UploadsInOrder ==
    \A f \in Files :
        /\ At(f, "insert") => f \in bytes
        /\ upload[f].chunk \in {"pending", "processing", "skipped"}

\* A task that is about to say "completed" has written its chunks.
CompletingHasChunks ==
    \A f \in Files : task[f] = "completed" => f \in chunks \cup asked

\* Clients and housekeeping meet only files whose upload is over.
DeletesKnowTheirFiles ==
    /\ \A d \in Deleters : ~Deleting(d, "idle") =>
          /\ At(delete[d].file, "done")
          /\ delete[d].file \in asked
          /\ Deleting(d, "bytes") => ~Exists(delete[d].file)
    /\ \A f \in old : At(f, "done")

\* What the DELETE of the sweep will find was on its list and has been dealt with.
SweepIsOnItsList ==
    /\ sweep.todo \subseteq old
    /\ sweep.cutoff \subseteq old
    /\ sweep.pc = "rows" => sweep.todo = {}
    /\ sweep.pc # "idle" =>
         \A f \in sweep.cutoff : Exists(f) => f \in sweep.todo \/ f \notin bytes \/ f \in lost

Kept == UploadsInOrder /\ CompletingHasChunks /\ DeletesKnowTheirFiles /\ SweepIsOnItsList

Promised == RowsHaveBytes /\ CompletedHasChunks /\ BytesHaveOwners /\ ProcessingIsInFlight

IInv == TypeOK /\ Kept /\ Promised

-----------------------------------------------------------------------------
LEMMA Initially == Init => IInv
BY DEF Init, IInv, TypeOK, Kept, Promised, UploadsInOrder, CompletingHasChunks,
       DeletesKnowTheirFiles, SweepIsOnItsList, RowsHaveBytes, CompletedHasChunks,
       BytesHaveOwners, ProcessingIsInFlight, NoUpload, NoDelete, NoSweep, Uploads, Tasks,
       Deletes, ChunkStatus, NoRow, At, Exists, Deleting

-----------------------------------------------------------------------------
(* The upload.                                                             *)
LEMMA UploadKeeps ==
    ASSUME IInv, NEW f \in Files, UploadStep(f)
    PROVE  IInv'
<1> USE DEF IInv, TypeOK, Kept, Promised, UploadsInOrder, CompletingHasChunks,
       DeletesKnowTheirFiles, SweepIsOnItsList, RowsHaveBytes, CompletedHasChunks,
       BytesHaveOwners, ProcessingIsInFlight, NoUpload, Uploads, Tasks, UploadOver, UploadTo,
       ChunkStatus, NoRow, At, Exists, Deleting
<1>1. ASSUME NEW accepted \in BOOLEAN, Receive(f, accepted) PROVE IInv'
  BY <1>1 DEF Receive
<1>2. ASSUME NEW verdict \in {"clean", "infected", "error"}, Scan(f, verdict) PROVE IInv'
  BY <1>2 DEF Scan
<1>3. ASSUME NEW text \in BOOLEAN, NEW willChunk \in BOOLEAN, Parse(f, text, willChunk) PROVE IInv'
  BY <1>3 DEF Parse
<1>4. CASE PutBytes(f)
  BY <1>4 DEF PutBytes
<1>5. CASE InsertRow(f)
  BY <1>5 DEF InsertRow
<1>6. CASE SpawnChunking(f)
  BY <1>6 DEF SpawnChunking
<1>7. CASE UploadFails(f)
  BY <1>7 DEF UploadFails
<1> QED
  BY <1>1, <1>2, <1>3, <1>4, <1>5, <1>6, <1>7 DEF UploadStep

-----------------------------------------------------------------------------
(* The chunking task.                                                      *)
LEMMA ChunkingKeeps ==
    ASSUME IInv, NEW f \in Files, ChunkingStep(f)
    PROVE  IInv'
<1> USE DEF IInv, TypeOK, Kept, Promised, UploadsInOrder, CompletingHasChunks,
       DeletesKnowTheirFiles, SweepIsOnItsList, RowsHaveBytes, CompletedHasChunks,
       BytesHaveOwners, ProcessingIsInFlight, Uploads, Tasks,
       ChunkStatus, NoRow, At, Exists, Deleting, TaskTo, LastSteps
<1>1. CASE ChunkText(f)
  BY <1>1 DEF ChunkText
<1>2. CASE SaveChunks(f)
  BY <1>2 DEF SaveChunks
<1>3. CASE WriteStatus(f)
  BY <1>3 DEF WriteStatus, FinalStatus
<1>4. CASE StatusFails(f)
  BY <1>4 DEF StatusFails
<1> QED
  BY <1>1, <1>2, <1>3, <1>4 DEF ChunkingStep

-----------------------------------------------------------------------------
(* DELETE.                                                                 *)
LEMMA DeleteKeeps ==
    ASSUME IInv, NEW d \in Deleters, DeleteStep(d)
    PROVE  IInv'
<1> USE DEF IInv, TypeOK, Kept, Promised, UploadsInOrder, CompletingHasChunks,
       DeletesKnowTheirFiles, SweepIsOnItsList, RowsHaveBytes, CompletedHasChunks,
       BytesHaveOwners, ProcessingIsInFlight, Uploads, Deletes,
       NoDelete, ChunkStatus, NoRow, At, Exists, Deleting, DeleteTo
<1>1. ASSUME NEW f \in Files, AskDelete(d, f) PROVE IInv'
  BY <1>1 DEF AskDelete
<1>2. CASE DeleteChunks(d)
  BY <1>2 DEF DeleteChunks
<1>3. CASE DeleteLooks(d)
  BY <1>3 DEF DeleteLooks
<1>4. CASE DeleteRow(d)
  BY <1>4 DEF DeleteRow
<1>5. CASE DeleteBytes(d)
  BY <1>5 DEF DeleteBytes
<1>6. CASE DeleteFails(d)
  BY <1>6 DEF DeleteFails
<1> QED
  BY <1>1, <1>2, <1>3, <1>4, <1>5, <1>6 DEF DeleteStep

-----------------------------------------------------------------------------
(* Housekeeping and restarts.                                              *)
LEMMA SweepKeeps ==
    ASSUME IInv, SweepStep
    PROVE  IInv'
<1> USE DEF IInv, TypeOK, Kept, Promised, UploadsInOrder, CompletingHasChunks,
       DeletesKnowTheirFiles, SweepIsOnItsList, RowsHaveBytes, CompletedHasChunks,
       BytesHaveOwners, ProcessingIsInFlight, Uploads, NoSweep,
       ChunkStatus, NoRow, At, Exists, Deleting
<1>1. CASE SweepSelect
  BY <1>1 DEF SweepSelect
<1>2. CASE SweepBytes
  <2>1. PICK f \in sweep.todo :
          /\ \/ bytes' = bytes \ {f} /\ UNCHANGED lost
             \/ UNCHANGED bytes /\ lost' = lost \cup {f}
          /\ sweep' = [sweep EXCEPT !.todo = @ \ {f}, !.pc = IF sweep.todo = {f} THEN "rows" ELSE @]
    BY <1>2, Zenon DEF SweepBytes
  <2>2. UNCHANGED << upload, row, chunks, task, delete, old, asked >> /\ sweep.pc = "bytes"
    BY <1>2 DEF SweepBytes
  <2>3. TypeOK'
    BY <2>1, <2>2
  <2>4. UploadsInOrder' /\ CompletingHasChunks' /\ DeletesKnowTheirFiles'
    BY <2>1, <2>2
  <2>5. SweepIsOnItsList'
    BY <2>1, <2>2
  <2>6. RowsHaveBytes'
    BY <2>1, <2>2
  <2>7. BytesHaveOwners'
    BY <2>1, <2>2
  <2>8. CompletedHasChunks' /\ ProcessingIsInFlight'
    BY <2>1, <2>2
  <2> HIDE DEF TypeOK, UploadsInOrder, CompletingHasChunks, DeletesKnowTheirFiles, SweepIsOnItsList,
               RowsHaveBytes, CompletedHasChunks, BytesHaveOwners, ProcessingIsInFlight
  <2> QED
    BY <2>3, <2>4, <2>5, <2>6, <2>7, <2>8
<1>3. CASE SweepRows
  BY <1>3 DEF SweepRows
<1>4. CASE SweepFails
  BY <1>4 DEF SweepFails
<1> QED
  BY <1>1, <1>2, <1>3, <1>4 DEF SweepStep

LEMMA AgeKeeps ==
    ASSUME IInv, NEW f \in Files, GrowOld(f)
    PROVE  IInv'
BY DEF IInv, TypeOK, Kept, Promised, UploadsInOrder, CompletingHasChunks,
       DeletesKnowTheirFiles, SweepIsOnItsList, RowsHaveBytes, CompletedHasChunks,
       BytesHaveOwners, ProcessingIsInFlight, At, Exists, Deleting, GrowOld

LEMMA RestartKeeps ==
    ASSUME IInv, Restart
    PROVE  IInv'
<1> USE DEF IInv, TypeOK, Kept, Promised, At, Exists, Deleting
<1>1. UploadOver = [pc |-> "done", chunk |-> "pending"] /\ UploadOver \in Uploads
  BY DEF UploadOver, NoUpload, Uploads, ChunkStatus
<1>2. /\ \A f \in Files : upload'[f] = IF At(f, "new") THEN NoUpload ELSE UploadOver
      /\ \A f \in Files : task'[f] = "none"
      /\ \A d \in Deleters : delete'[d] = NoDelete
      /\ sweep' = NoSweep /\ UNCHANGED << row, bytes, chunks, old, asked >>
      /\ lost' = lost \cup {f \in Files : InFlight(f)}
  BY DEF Restart
<1>3. TypeOK'
  BY <1>1 DEF Restart, NoUpload, NoDelete, NoSweep, Uploads, ChunkStatus, Tasks, Deletes
<1>4. UploadsInOrder' /\ CompletingHasChunks'
  BY <1>1, <1>2 DEF UploadsInOrder, CompletingHasChunks, NoUpload
<1>5. DeletesKnowTheirFiles'
  BY <1>1, <1>2 DEF DeletesKnowTheirFiles, NoUpload, NoDelete
<1>6. SweepIsOnItsList'
  BY <1>2 DEF SweepIsOnItsList, NoSweep
<1>7. RowsHaveBytes' /\ CompletedHasChunks'
  BY <1>2 DEF RowsHaveBytes, CompletedHasChunks
<1>8. BytesHaveOwners'
  BY <1>2 DEF BytesHaveOwners, InFlight
<1>9. ProcessingIsInFlight'
  BY <1>2 DEF ProcessingIsInFlight, InFlight
<1> QED
  BY <1>3, <1>4, <1>5, <1>6, <1>7, <1>8, <1>9

LEMMA StutterKeeps ==
    ASSUME IInv, UNCHANGED vars
    PROVE  IInv'
BY DEF IInv, TypeOK, Kept, Promised, UploadsInOrder, CompletingHasChunks,
       DeletesKnowTheirFiles, SweepIsOnItsList, RowsHaveBytes, CompletedHasChunks,
       BytesHaveOwners, ProcessingIsInFlight, At, Exists, Deleting, vars

LEMMA Inductive == Spec => []IInv
<1>1. ASSUME IInv, [Next]_vars PROVE IInv'
  BY <1>1, UploadKeeps, ChunkingKeeps, DeleteKeeps, SweepKeeps, AgeKeeps, RestartKeeps,
     StutterKeeps DEF Next
<1> QED
  BY <1>1, Initially, PTL DEF Spec

-----------------------------------------------------------------------------
\* FileStore keeps its variables in their types.
THEOREM TypeCorrect == Spec => []TypeOK
<1>1. IInv => TypeOK
  BY DEF IInv
<1> QED
  BY <1>1, Inductive, PTL

\* A file whose row can be read has its bytes until housekeeping may remove it: save puts
\* the bytes first, delete removes them last, and no DELETE gets between the two.
THEOREM RowsAlwaysHaveBytes == Spec => []RowsHaveBytes
<1>1. IInv => RowsHaveBytes
  BY DEF IInv, Promised
<1> QED
  BY <1>1, Inductive, PTL

\* "completed" is never said of a file without chunks, unless a DELETE has named it:
\* save_chunks that has failed ends in "failed", also when the status cannot be written.
THEOREM CompletedAlwaysHasChunks == Spec => []CompletedHasChunks
<1>1. IInv => CompletedHasChunks
  BY DEF IInv, Promised
<1> QED
  BY <1>1, Inductive, PTL

\* Storage leaks only through a failed call or the death of the process: not through
\* housekeeping that deletes rows by its condition instead of its list, and not through
\* two DELETE requests of one file.
THEOREM BytesAlwaysHaveOwners == Spec => []BytesHaveOwners
<1>1. IInv => BytesHaveOwners
  BY DEF IInv, Promised
<1> QED
  BY <1>1, Inductive, PTL

\* A row that says "processing" has a task that will change it, unless the process died or
\* the final status could not be written twice.
THEOREM ProcessingIsAlwaysInFlight == Spec => []ProcessingIsInFlight
<1>1. IInv => ProcessingIsInFlight
  BY DEF IInv, Promised
<1> QED
  BY <1>1, Inductive, PTL
=============================================================================
