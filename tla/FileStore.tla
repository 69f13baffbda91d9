------------------------------ MODULE FileStore ------------------------------
(***************************************************************************)
(* The life of an uploaded file: POST /v1/files scans and parses it, puts  *)
(* its bytes in the BytesStore and its row in the FileStore, and leaves    *)
(* the chunking of its text to a background task; DELETE and housekeeping  *)
(* take it away again; the process may die anywhere.  Bytes, row and       *)
(* chunks live in three stores without a common transaction.               *)
(*                                                                         *)
(* An action is the code up to the next await: one call of a store, each   *)
(* of which may fail.  A file id is generated, so no two uploads share it. *)
(* Extracted text is present or not, chunks are all written or none.       *)
(***************************************************************************)
EXTENDS Naturals

CONSTANTS
    Files,          \* the file ids
    Deleters,       \* DELETE requests that may be running at a time
    FailClosed      \* scanner.fail_mode = "closed"

ASSUME FilesAssumption == FailClosed \in BOOLEAN

VARIABLES
    upload,     \* per file: where its upload is, and what its chunk_status will be
    row,        \* the files table
    bytes,      \* the files that have bytes
    chunks,     \* the files that have chunks
    task,       \* per file: its chunking task, if one is running
    delete,     \* per DELETE request: where it is
    sweep,      \* housekeeping: where it is, and its list
    old,        \* the files older than max_age_hours
    asked,      \* history: the files a DELETE request has named
    lost        \* history: the files a failed call or the death of the process hit

vars == << upload, row, bytes, chunks, task, delete, sweep, old, asked, lost >>

-----------------------------------------------------------------------------
ChunkStatus == {"pending", "processing", "completed", "failed", "skipped"}
NoRow == "absent"

Uploads == [pc : {"new", "scan", "parse", "put", "insert", "spawn", "done"},
            chunk : ChunkStatus]
Tasks == {"none", "chunk", "save", "completed", "skipped", "unsaved", "failed"}
Deletes == {[pc |-> "idle"]} \cup [pc : {"cascade", "look", "row", "bytes"}, file : Files]

TypeOK ==
    /\ upload \in [Files -> Uploads]
    /\ row \in [Files -> ChunkStatus \cup {NoRow}]
    /\ bytes \in SUBSET Files
    /\ chunks \in SUBSET Files
    /\ task \in [Files -> Tasks]
    /\ delete \in [Deleters -> Deletes]
    /\ sweep \in [pc : {"idle", "bytes", "rows"}, todo : SUBSET Files, cutoff : SUBSET Files]
    /\ old \in SUBSET Files
    /\ asked \in SUBSET Files
    /\ lost \in SUBSET Files

NoUpload == [pc |-> "new", chunk |-> "pending"]
NoDelete == [pc |-> "idle"]
NoSweep == [pc |-> "idle", todo |-> {}, cutoff |-> {}]

Init ==
    /\ upload = [f \in Files |-> NoUpload]
    /\ row = [f \in Files |-> NoRow]
    /\ bytes = {}
    /\ chunks = {}
    /\ task = [f \in Files |-> "none"]
    /\ delete = [d \in Deleters |-> NoDelete]
    /\ sweep = NoSweep
    /\ old = {}
    /\ asked = {}
    /\ lost = {}

-----------------------------------------------------------------------------
(* POST /v1/files.                                                         *)
At(f, pc) == upload[f].pc = pc
UploadOver == [NoUpload EXCEPT !.pc = "done"]
UploadTo(f, pc) ==
    upload' = [upload EXCEPT ![f] = IF pc = "done" THEN UploadOver ELSE [@ EXCEPT !.pc = pc]]
Exists(f) == row[f] # NoRow

\* A file over the size limit or of a type that is not allowed is refused.
Receive(f, accepted) ==
    /\ At(f, "new")
    /\ UploadTo(f, IF accepted THEN "scan" ELSE "done")
    /\ UNCHANGED << row, bytes, chunks, task, delete, sweep, old, asked, lost >>

\* 422 for an infected file; a scanner that fails lets the file pass unless FailClosed.
Scan(f, verdict) ==
    /\ At(f, "scan")
    /\ UploadTo(f, IF verdict = "clean" \/ (verdict = "error" /\ ~FailClosed)
                     THEN "parse" ELSE "done")
    /\ UNCHANGED << row, bytes, chunks, task, delete, sweep, old, asked, lost >>

\* Variant: the status of the task, not of the row.
ParseNone(f, text, willChunk) ==
    /\ At(f, "parse")
    /\ willChunk => text
    /\ upload' = [upload EXCEPT ![f] = [pc    |-> "put",
                                        chunk |-> IF willChunk THEN "processing" ELSE "none"]]
    /\ UNCHANGED << row, bytes, chunks, task, delete, sweep, old, asked, lost >>

\* The parser gives the text or none, and a text is chunked if it is long and chunking
\* is on.
Parse(f, text, willChunk) ==
    /\ At(f, "parse")
    /\ willChunk => text
    /\ upload' = [upload EXCEPT ![f] = [pc    |-> "put",
                                        chunk |-> IF willChunk THEN "processing"
                                                  ELSE IF text THEN "skipped" ELSE "pending"]]
    /\ UNCHANGED << row, bytes, chunks, task, delete, sweep, old, asked, lost >>

\* Variant: a failed put is only logged.
PutBytesBestEffort(f) ==
    /\ At(f, "put")
    /\ bytes' \in {bytes, bytes \cup {f}}
    /\ UploadTo(f, "insert")
    /\ UNCHANGED << row, chunks, task, delete, sweep, old, asked, lost >>

PutBytes(f) ==
    /\ At(f, "put")
    /\ bytes' = bytes \cup {f}
    /\ UploadTo(f, "insert")
    /\ UNCHANGED << row, chunks, task, delete, sweep, old, asked, lost >>

\* save: "Write bytes first; if metadata insert fails we have an orphan".
InsertRow(f) ==
    /\ At(f, "insert")
    /\ row' = [row EXCEPT ![f] = upload[f].chunk]
    /\ UploadTo(f, IF upload[f].chunk = "processing" THEN "spawn" ELSE "done")
    /\ UNCHANGED << bytes, chunks, task, delete, sweep, old, asked, lost >>

SpawnChunking(f) ==
    /\ At(f, "spawn")
    /\ task' = [task EXCEPT ![f] = "chunk"]
    /\ UploadTo(f, "done")
    /\ UNCHANGED << row, bytes, chunks, delete, sweep, old, asked, lost >>

\* put, which may have stored the bytes all the same, or the INSERT raises: 500.
UploadFails(f) ==
    /\ \/ At(f, "put") /\ bytes' \in {bytes, bytes \cup {f}}
       \/ At(f, "insert") /\ UNCHANGED bytes
    /\ UploadTo(f, "done")
    /\ lost' = lost \cup {f}
    /\ UNCHANGED << row, chunks, task, delete, sweep, old, asked >>

-----------------------------------------------------------------------------
(* _chunk_uploaded_file.                                                   *)
TaskTo(f, t) == task' = [task EXCEPT ![f] = t]

\* The chunk_status a task is about to write, for each of its last steps.
LastSteps == {"completed", "skipped", "unsaved", "failed"}
FinalStatus(t) == IF t = "unsaved" THEN "failed" ELSE t

\* No chunks, some chunks, or an exception.
ChunkText(f) ==
    /\ task[f] = "chunk"
    /\ \E t \in {"skipped", "save", "failed"} : TaskTo(f, t)
    /\ UNCHANGED << upload, row, bytes, chunks, delete, sweep, old, asked, lost >>

\* Variant: the number of rows written is not looked at.
SaveChunksUnchecked(f) ==
    /\ task[f] = "save"
    /\ chunks' \in {chunks, chunks \cup {f}}
    /\ TaskTo(f, "completed")
    /\ UNCHANGED << upload, row, bytes, delete, sweep, old, asked, lost >>

\* save_chunks writes all chunks, or logs its error and returns 0.
SaveChunks(f) ==
    /\ task[f] = "save"
    /\ \/ chunks' = chunks \cup {f} /\ TaskTo(f, "completed")
       \/ UNCHANGED chunks /\ TaskTo(f, "unsaved")
    /\ UNCHANGED << upload, row, bytes, delete, sweep, old, asked, lost >>

\* update_chunk_status: an UPDATE of a row that is gone matches nothing.
WriteStatus(f) ==
    /\ task[f] \in LastSteps
    /\ row' = [row EXCEPT ![f] = IF Exists(f) THEN FinalStatus(task[f]) ELSE NoRow]
    /\ TaskTo(f, "none")
    /\ UNCHANGED << upload, bytes, chunks, delete, sweep, old, asked, lost >>

\* Variant: the except clause only logs.
StatusFailsLogged(f) ==
    /\ task[f] \in LastSteps
    /\ TaskTo(f, "none")
    /\ lost' = IF task[f] = "failed" THEN lost \cup {f} ELSE lost
    /\ UNCHANGED << upload, row, bytes, chunks, delete, sweep, old, asked >>

\* The UPDATE raises: the except clause writes "failed", and gives
\* up when it raises there.
StatusFails(f) ==
    /\ task[f] \in LastSteps
    /\ TaskTo(f, IF task[f] = "failed" THEN "none" ELSE "failed")
    /\ lost' = IF task[f] = "failed" THEN lost \cup {f} ELSE lost
    /\ UNCHANGED << upload, row, bytes, chunks, delete, sweep, old, asked >>

-----------------------------------------------------------------------------
(* DELETE /v1/files/{id}: chunks, then the row, then the bytes.            *)
Deleting(d, pc) == delete[d].pc = pc
DeleteTo(d, pc) == delete' = [delete EXCEPT ![d].pc = pc]

\* Ids are known to clients from the answer to the upload on.
AskDelete(d, f) ==
    /\ Deleting(d, "idle")
    /\ At(f, "done")
    /\ delete' = [delete EXCEPT ![d] = [pc |-> "cascade", file |-> f]]
    /\ asked' = asked \cup {f}
    /\ UNCHANGED << upload, row, bytes, chunks, task, sweep, old, lost >>

\* delete_for_file logs its errors.
DeleteChunks(d) ==
    /\ Deleting(d, "cascade")
    /\ \/ chunks' = chunks \ {delete[d].file} /\ UNCHANGED lost
       \/ UNCHANGED chunks /\ lost' = lost \cup {delete[d].file}
    /\ DeleteTo(d, "look")
    /\ UNCHANGED << upload, row, bytes, task, sweep, old, asked >>

\* FileStore.delete looks whether there is a row: 404 if not.
DeleteLooks(d) ==
    /\ Deleting(d, "look")
    /\ IF Exists(delete[d].file)
         THEN DeleteTo(d, "row") ELSE delete' = [delete EXCEPT ![d] = NoDelete]
    /\ UNCHANGED << upload, row, bytes, chunks, task, sweep, old, asked, lost >>

DeleteRow(d) ==
    /\ Deleting(d, "row")
    /\ row' = [row EXCEPT ![delete[d].file] = NoRow]
    /\ DeleteTo(d, "bytes")
    /\ UNCHANGED << upload, bytes, chunks, task, sweep, old, asked, lost >>

\* "Best-effort bytes delete".
DeleteBytes(d) ==
    /\ Deleting(d, "bytes")
    /\ \/ bytes' = bytes \ {delete[d].file} /\ UNCHANGED lost
       \/ UNCHANGED bytes /\ lost' = lost \cup {delete[d].file}
    /\ delete' = [delete EXCEPT ![d] = NoDelete]
    /\ UNCHANGED << upload, row, chunks, task, sweep, old, asked >>

\* The database fails: 500.
DeleteFails(d) ==
    /\ Deleting(d, "look") \/ Deleting(d, "row")
    /\ delete' = [delete EXCEPT ![d] = NoDelete]
    /\ UNCHANGED << upload, row, bytes, chunks, task, sweep, old, asked, lost >>

-----------------------------------------------------------------------------
(* delete_before, from housekeeping: the bytes of each row, then the rows. *)

\* max_age_hours is an hour at least, and an upload is over by then.
GrowOld(f) ==
    /\ f \notin old
    /\ At(f, "done")
    /\ old' = old \cup {f}
    /\ UNCHANGED << upload, row, bytes, chunks, task, delete, sweep, asked, lost >>

SweepSelect ==
    LET expired == { f \in old : Exists(f) } IN
    /\ sweep = NoSweep
    /\ expired # {}
    /\ sweep' = [pc |-> "bytes", todo |-> expired, cutoff |-> old]
    /\ UNCHANGED << upload, row, bytes, chunks, task, delete, old, asked, lost >>

SweepBytes ==
    /\ sweep.pc = "bytes"
    /\ \E f \in sweep.todo :
        /\ \/ bytes' = bytes \ {f} /\ UNCHANGED lost
           \/ UNCHANGED bytes /\ lost' = lost \cup {f}
        /\ sweep' = [sweep EXCEPT !.todo = @ \ {f}, !.pc = IF sweep.todo = {f} THEN "rows" ELSE @]
    /\ UNCHANGED << upload, row, chunks, task, delete, old, asked >>

\* Variant: the DELETE computes the cutoff anew.
SweepRowsAnew ==
    /\ sweep.pc = "rows"
    /\ row' = [f \in Files |-> IF f \in old THEN NoRow ELSE row[f]]
    /\ sweep' = NoSweep
    /\ UNCHANGED << upload, bytes, chunks, task, delete, old, asked, lost >>

\* The DELETE has the SELECT's condition and the same cutoff, not its list.
SweepRows ==
    /\ sweep.pc = "rows"
    /\ row' = [f \in Files |-> IF f \in sweep.cutoff THEN NoRow ELSE row[f]]
    /\ sweep' = NoSweep
    /\ UNCHANGED << upload, bytes, chunks, task, delete, old, asked, lost >>

\* The database fails: _run_housekeeping logs it and sleeps.
SweepFails ==
    /\ sweep # NoSweep
    /\ sweep' = NoSweep
    /\ UNCHANGED << upload, row, bytes, chunks, task, delete, old, asked, lost >>

(* The process dies and starts again; what it was doing is not taken up.   *)
InFlight(f) ==
    \/ upload[f].pc \in {"insert", "spawn"}
    \/ task[f] # "none"
    \/ \E d \in Deleters : ~Deleting(d, "idle") /\ delete[d].file = f

Restart ==
    /\ lost' = lost \cup { f \in Files : InFlight(f) }
    /\ upload' = [f \in Files |-> IF At(f, "new") THEN NoUpload ELSE UploadOver]
    /\ task' = [f \in Files |-> "none"]
    /\ delete' = [d \in Deleters |-> NoDelete]
    /\ sweep' = NoSweep
    /\ UNCHANGED << row, bytes, chunks, old, asked >>

-----------------------------------------------------------------------------
UploadStep(f) ==
    \/ \E accepted \in BOOLEAN : Receive(f, accepted)
    \/ \E verdict \in {"clean", "infected", "error"} : Scan(f, verdict)
    \/ \E text, willChunk \in BOOLEAN : Parse(f, text, willChunk)
    \/ PutBytes(f) \/ InsertRow(f) \/ SpawnChunking(f) \/ UploadFails(f)

ChunkingStep(f) == ChunkText(f) \/ SaveChunks(f) \/ WriteStatus(f) \/ StatusFails(f)

DeleteStep(d) ==
    \/ \E f \in Files : AskDelete(d, f)
    \/ DeleteChunks(d) \/ DeleteLooks(d) \/ DeleteRow(d) \/ DeleteBytes(d) \/ DeleteFails(d)

SweepStep == SweepSelect \/ SweepBytes \/ SweepRows \/ SweepFails

Next ==
    \/ \E f \in Files : UploadStep(f) \/ ChunkingStep(f) \/ GrowOld(f)
    \/ \E d \in Deleters : DeleteStep(d)
    \/ SweepStep
    \/ Restart

Spec == Init /\ [][Next]_vars

-----------------------------------------------------------------------------
(* Properties.                                                             *)

\* A file whose row can be read has its bytes, until housekeeping is about to remove
\* it: save writes the bytes first because "the reverse would orphan the metadata
\* pointing at nothing", and DELETE removes the row first.
RowsHaveBytes == \A f \in Files : Exists(f) => f \in bytes \cup old

\* A file that says its chunking is completed has chunks to be searched, unless it was
\* asked to be deleted: otherwise a chat would search in vain.
CompletedHasChunks ==
    \A f \in Files : row[f] = "completed" => f \in chunks \cup asked

\* Bytes without a row belong to an upload about to insert it or to a DELETE about to
\* remove them, unless a call failed or the process died: nothing else leaks storage,
\* whatever DELETE requests and housekeeping do at the same time.
BytesHaveOwners ==
    \A f \in bytes :
        \/ Exists(f)
        \/ At(f, "insert")
        \/ \E d \in Deleters : Deleting(d, "bytes") /\ delete[d].file = f
        \/ f \in lost

\* "processing" means that the chunking is in flight, unless the process died or the
\* final status could not be written twice.
ProcessingIsInFlight ==
    \A f \in Files :
        row[f] = "processing" => At(f, "spawn") \/ task[f] # "none" \/ f \in lost

\* Chunks never outlive their file.  The comment in _delete_file: chunks are dropped
\* first "so a user observing concurrent operations never sees orphan chunks outliving
\* their parent file".
NoOrphanChunks == \A f \in chunks : Exists(f)
=============================================================================
