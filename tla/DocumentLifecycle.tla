------------------------- MODULE DocumentLifecycle -------------------------
(***************************************************************************)
(* One document's life across PostgreSQL, the blob store and the process    *)
(* that serves it: the upload request, the background job it leaves behind, *)
(* and delete requests, each on its own database session.                   *)
(*                                                                          *)
(* A session's writes reach the shared table only at COMMIT.  Until then    *)
(* they are the session's own image of the row, and the row is locked: any  *)
(* other UPDATE or DELETE of it waits.  Readers see committed rows only     *)
(* (READ COMMITTED, the PostgreSQL default, which core/database.py keeps).  *)
(***************************************************************************)
EXTENDS Naturals, FiniteSets

CONSTANTS
    Docs,        \* document ids (uuid4, never reused), one upload request each
    Deleters,    \* DELETE /documents/{id} requests
    Workers,     \* gunicorn worker processes (startup.sh starts two)
    Host,        \* the worker each upload (with its job) and each delete runs on
    MaxChunks,   \* bound on the chunks one document yields
    Faults       \* the kinds of failure the environment may inject

FaultKinds == {"crash",     \* a worker process dies
               "error",     \* a statement, a commit or any unforeseen call raises;
                            \* nothing is applied
               "lostReply", \* a commit is applied but its caller sees an error
               "storage",   \* the blob store raises StorageError
               "ai"}        \* the AI provider raises AIProviderError

ASSUME LifecycleAssumption ==
    /\ Host \in [Docs \cup Deleters -> Workers]
    /\ MaxChunks \in Nat \ {0}
    /\ Faults \subseteq FaultKinds

VARIABLES
    row,      \* committed documents table
    chunks,   \* committed document_chunks, counted per document
    blob,     \* whether the blob store holds the document's PDF
    pc,       \* where the upload request, then its job, has got to
    image,    \* the row as that session has it, uncommitted
    staged,   \* chunk rows as that session sees them, uncommitted
    parsed,   \* number of chunks the job cut from the text
    dpc,      \* where each delete request has got to
    target    \* the document each delete request was authorized for

tables == <<row, chunks>>
session == <<image, staged, parsed>>
requests == <<dpc, target>>

vars == <<row, chunks, blob, pc, image, staged, parsed, dpc, target>>

-----------------------------------------------------------------------------
(* Rows *)

Status == {"UPLOADED", "PROCESSING", "READY", "FAILED"}

ExtractionReason == {"CORRUPT_PDF", "ENCRYPTED_PDF", "NO_EXTRACTABLE_TEXT"}

Reason == ExtractionReason \cup {"EMBEDDING_FAILED", "SUMMARY_FAILED", "UNKNOWN"}

\* A documents row.  count is chunk_count, with 0 for NULL: the job never
\* stores zero chunks.  "NONE" marks the absence of a row.
Row == [status : Status \cup {"NONE"}, reason : Reason \cup {"none"}, count : 0..MaxChunks]

NoRow == [status |-> "NONE", reason |-> "none", count |-> 0]

Exists(d) == row[d].status # "NONE"

UploadedRow == [status |-> "UPLOADED", reason |-> "none", count |-> 0]

\* DocumentRepository.mark_processing, mark_ready and mark_failed: what each
\* one assigns, and what it leaves alone.
mark_processing(r) == [r EXCEPT !.status = "PROCESSING", !.reason = "none"]

mark_ready(r, n) == [status |-> "READY", reason |-> "none", count |-> n]

mark_failed(r, why) == [r EXCEPT !.status = "FAILED", !.reason = why]

-----------------------------------------------------------------------------
(* Stages *)

UploadStage == {"absent", "stored", "inserted", "refused"}

\* Inside the try block of process_document_job.
TryStage == {"loaded", "marked", "downloaded", "chunked", "embedded", "finishing"}

\* Inside its except block.
HandlerStage == {"handling", "recovering", "recording"}

Stage == UploadStage \cup {"committed", "queued"} \cup TryStage
            \cup HandlerStage \cup {"done", "stopped"}

Settled == {"refused", "done", "stopped"}

\* Variant with a bug: the recovery runs on a session of its own, while the
\* failed one, not rolled back, keeps its lock.
Unreleased_JobLocks ==
    {"marked", "downloaded", "chunked", "embedded", "finishing"} \cup HandlerStage

\* Stages in which the job's session holds the row's lock: from its first flush
\* to the rollback or the commit that ends the transaction.
JobLocks == {"marked", "downloaded", "chunked", "embedded", "finishing", "recording"}

DStage == {"idle", "authorized", "deleted", "unlinked", "done", "aborted"}

DSettled == {"idle", "done", "aborted"}

DLocks == {"deleted", "unlinked"}

\* Some session holds uncommitted changes to d's row.
Locked(d) ==
    \/ pc[d] \in JobLocks
    \/ \E r \in Deleters : dpc[r] \in DLocks /\ target[r] = d

TypeOK ==
    /\ row \in [Docs -> Row]
    /\ chunks \in [Docs -> 0..MaxChunks]
    /\ blob \in [Docs -> BOOLEAN]
    /\ pc \in [Docs -> Stage]
    /\ image \in [Docs -> Row]
    /\ staged \in [Docs -> 0..MaxChunks]
    /\ parsed \in [Docs -> 0..MaxChunks]
    /\ dpc \in [Deleters -> DStage]
    /\ target \in [Deleters -> Docs]

Init ==
    /\ row = [d \in Docs |-> NoRow]
    /\ chunks = [d \in Docs |-> 0]
    /\ blob = [d \in Docs |-> FALSE]
    /\ pc = [d \in Docs |-> "absent"]
    /\ image = [d \in Docs |-> NoRow]
    /\ staged = [d \in Docs |-> 0]
    /\ parsed = [d \in Docs |-> 0]
    /\ dpc = [r \in Deleters |-> "idle"]
    /\ target \in [Deleters -> Docs]

Goto(d, stage) == pc' = [pc EXCEPT ![d] = stage]

\* The session ends, by close or rollback, and forgets what it had not committed.
Forget(d) ==
    /\ image' = [image EXCEPT ![d] = NoRow]
    /\ staged' = [staged EXCEPT ![d] = 0]
    /\ parsed' = [parsed EXCEPT ![d] = 0]

\* session.get: the row as committed now.
Load(d) ==
    /\ image' = [image EXCEPT ![d] = row[d]]
    /\ staged' = [staged EXCEPT ![d] = chunks[d]]
    /\ UNCHANGED parsed

\* COMMIT: the session's row and chunks become everyone's.
Apply(d) ==
    /\ row' = [row EXCEPT ![d] = image[d]]
    /\ chunks' = [chunks EXCEPT ![d] = staged[d]]

-----------------------------------------------------------------------------
(* POST /documents: blob, row, commit, then the job is queued. *)

\* Variant with a bug: a storage failure does not stop the upload.
Swallowing_UploadBlob(d) ==
    /\ pc[d] = "absent"
    /\ Goto(d, "stored")
    /\ \/ blob' = [blob EXCEPT ![d] = TRUE]
       \/ "storage" \in Faults /\ UNCHANGED blob
    /\ UNCHANGED <<tables, session, requests>>

\* A failed upload may still have left bytes behind.
UploadBlob(d) ==
    /\ pc[d] = "absent"
    /\ \/ /\ Goto(d, "stored")
          /\ blob' = [blob EXCEPT ![d] = TRUE]
       \/ /\ "storage" \in Faults
          /\ Goto(d, "refused")
          /\ \E written \in BOOLEAN : blob' = [blob EXCEPT ![d] = written]
    /\ UNCHANGED <<tables, session, requests>>

InsertRow(d) ==
    /\ pc[d] = "stored"
    /\ Goto(d, "inserted")
    /\ image' = [image EXCEPT ![d] = UploadedRow]
    /\ UNCHANGED <<tables, blob, staged, parsed, requests>>

CommitUpload(d) ==
    /\ pc[d] = "inserted"
    /\ Apply(d)
    /\ \/ Goto(d, "committed")
       \/ "lostReply" \in Faults /\ Goto(d, "stopped")
    /\ Forget(d)
    /\ UNCHANGED <<blob, requests>>

\* enqueue_document_processing: an entry in this process's memory only.
Enqueue(d) ==
    /\ pc[d] = "committed"
    /\ Goto(d, "queued")
    /\ UNCHANGED <<tables, blob, session, requests>>

-----------------------------------------------------------------------------
(* process_document_job: the first read, outside its try block. *)

JobStart(d) ==
    /\ pc[d] = "queued"
    /\ \/ /\ Exists(d)
          /\ Goto(d, "loaded")
          /\ Load(d)
       \/ /\ ~Exists(d)
          /\ Goto(d, "done")
          /\ UNCHANGED session
    /\ UNCHANGED <<tables, blob, requests>>

-----------------------------------------------------------------------------
(* ProcessingService.process, on the job's session, inside the try block. *)

\* mark_failed and the early return: what is left of the job is its commit.
GiveUp(d, why) ==
    /\ Goto(d, "finishing")
    /\ image' = [image EXCEPT ![d] = mark_failed(@, why)]

\* Variant with a bug: the PROCESSING status is committed, not only flushed.
Committing_MarkProcessing(d) ==
    /\ pc[d] = "loaded"
    /\ Exists(d) /\ ~Locked(d)
    /\ Goto(d, "marked")
    /\ image' = [image EXCEPT ![d] = mark_processing(@)]
    /\ row' = [row EXCEPT ![d] = mark_processing(@)]
    /\ UNCHANGED <<chunks, blob, staged, parsed, requests>>

\* The flush waits for the row's lock; once the row is gone it matches no row
\* and raises StaleDataError into the job's handler.
MarkProcessing(d) ==
    /\ pc[d] = "loaded"
    /\ \/ /\ Exists(d)
          /\ ~Locked(d)
          /\ Goto(d, "marked")
          /\ image' = [image EXCEPT ![d] = mark_processing(@)]
          /\ UNCHANGED <<staged, parsed>>
       \/ /\ ~Exists(d)
          /\ Goto(d, "handling")
          /\ Forget(d)
    /\ UNCHANGED <<tables, blob, requests>>

Download(d) ==
    /\ pc[d] = "marked"
    /\ \/ /\ blob[d]
          /\ Goto(d, "downloaded")
          /\ UNCHANGED image
       \/ /\ ~blob[d] \/ "storage" \in Faults
          /\ GiveUp(d, "UNKNOWN")
    /\ UNCHANGED <<tables, blob, staged, parsed, requests>>

\* extract_text and chunk_document; the outcome depends on the PDF alone.
ExtractAndChunk(d) ==
    /\ pc[d] = "downloaded"
    /\ \/ \E n \in 1..MaxChunks :
             /\ Goto(d, "chunked")
             /\ parsed' = [parsed EXCEPT ![d] = n]
             /\ UNCHANGED image
       \/ \E why \in ExtractionReason :
             /\ GiveUp(d, why)
             /\ UNCHANGED parsed
    /\ UNCHANGED <<tables, blob, staged, requests>>

\* Variant with a bug: the chunks are stored before their vectors are there.
StoreFirst_EmbedAndStore(d) ==
    /\ pc[d] = "chunked"
    /\ staged' = [staged EXCEPT ![d] = parsed[d]]
    /\ \/ Goto(d, "embedded") /\ UNCHANGED image
       \/ "ai" \in Faults /\ GiveUp(d, "EMBEDDING_FAILED")
    /\ UNCHANGED <<tables, blob, parsed, requests>>

\* embed_and_store: every vector first, then the old chunks go and the new
\* ones come, so a provider failure leaves the session's chunks as they were.
EmbedAndStore(d) ==
    /\ pc[d] = "chunked"
    /\ \/ /\ Goto(d, "embedded")
          /\ staged' = [staged EXCEPT ![d] = parsed[d]]
          /\ UNCHANGED image
       \/ /\ "ai" \in Faults
          /\ GiveUp(d, "EMBEDDING_FAILED")
          /\ UNCHANGED staged
    /\ UNCHANGED <<tables, blob, parsed, requests>>

\* Variant with a bug: a failed summary ends the job without a record.
Silent_Summarise(d) ==
    /\ pc[d] = "embedded"
    /\ Goto(d, "finishing")
    /\ \/ image' = [image EXCEPT ![d] = mark_ready(@, parsed[d])]
       \/ "ai" \in Faults /\ UNCHANGED image
    /\ UNCHANGED <<tables, blob, staged, parsed, requests>>

Summarise(d) ==
    /\ pc[d] = "embedded"
    /\ \/ /\ Goto(d, "finishing")
          /\ image' = [image EXCEPT ![d] = mark_ready(@, parsed[d])]
       \/ /\ "ai" \in Faults
          /\ GiveUp(d, "SUMMARY_FAILED")
    /\ UNCHANGED <<tables, blob, staged, parsed, requests>>

CommitJob(d) ==
    /\ pc[d] = "finishing"
    /\ Apply(d)
    /\ \/ Goto(d, "done")
       \/ "lostReply" \in Faults /\ Goto(d, "handling")
    /\ Forget(d)
    /\ UNCHANGED <<blob, requests>>

-----------------------------------------------------------------------------
(* The handler: roll the status forward to FAILED in a clean transaction. *)

HandlerLoad(d) ==
    /\ pc[d] = "handling"
    /\ \/ /\ Exists(d)
          /\ Goto(d, "recovering")
          /\ Load(d)
       \/ /\ ~Exists(d)
          /\ Goto(d, "done")
          /\ UNCHANGED session
    /\ UNCHANGED <<tables, blob, requests>>

\* A row already FAILED as UNKNOWN is unchanged, so nothing is flushed and
\* the commit is empty.  A row deleted meanwhile raises StaleDataError again.
HandlerMarkFailed(d) ==
    /\ pc[d] = "recovering"
    /\ LET failed == mark_failed(image[d], "UNKNOWN") IN
       \/ /\ failed # image[d]
          /\ Exists(d)
          /\ ~Locked(d)
          /\ Goto(d, "recording")
          /\ image' = [image EXCEPT ![d] = failed]
          /\ UNCHANGED <<staged, parsed>>
       \/ /\ failed = image[d]
          /\ Goto(d, "done")
          /\ Forget(d)
       \/ /\ failed # image[d]
          /\ ~Exists(d)
          /\ Goto(d, "stopped")
          /\ Forget(d)
    /\ UNCHANGED <<tables, blob, requests>>

HandlerCommit(d) ==
    /\ pc[d] = "recording"
    /\ Apply(d)
    /\ \/ Goto(d, "done")
       \/ "lostReply" \in Faults /\ Goto(d, "stopped")
    /\ Forget(d)
    /\ UNCHANGED <<blob, requests>>

-----------------------------------------------------------------------------
(* A call raises and nothing it was to do is applied: the upload is refused,  *)
(* the try block of the job falls into its handler, and the job's first read  *)
(* and the handler itself have nothing around them.  The session ends and     *)
(* PostgreSQL rolls back what it had not committed.                           *)

Raise(d) ==
    /\ "error" \in Faults
    /\ \/ pc[d] \in {"stored", "inserted"} /\ Goto(d, "refused")
       \/ pc[d] \in TryStage /\ Goto(d, "handling")
       \/ pc[d] \in {"queued"} \cup HandlerStage /\ Goto(d, "stopped")
    /\ Forget(d)
    /\ UNCHANGED <<tables, blob, requests>>

-----------------------------------------------------------------------------
(* DELETE /documents/{id}: authorize, delete the row, unlink the blob, commit. *)

\* require_document(MANAGE) loads the row on the request's session.
Authorize(r) ==
    /\ dpc[r] = "idle"
    /\ \E d \in Docs :
          /\ Exists(d)
          /\ target' = [target EXCEPT ![r] = d]
    /\ dpc' = [dpc EXCEPT ![r] = "authorized"]
    /\ UNCHANGED <<tables, blob, pc, session>>

DGoto(r, stage) ==
    /\ dpc' = [dpc EXCEPT ![r] = stage]
    /\ UNCHANGED target

\* The DELETE waits for the row's lock.  Matching no row is only a warning, so
\* the second of two deletes carries on.
DeleteRow(r) ==
    /\ dpc[r] = "authorized"
    /\ Exists(target[r]) => ~Locked(target[r])
    /\ DGoto(r, "deleted")
    /\ UNCHANGED <<tables, blob, pc, session>>

\* Best effort: whatever the store raises is swallowed.
DeleteBlob(r) ==
    /\ dpc[r] = "deleted"
    /\ DGoto(r, "unlinked")
    /\ \/ blob' = [blob EXCEPT ![target[r]] = FALSE]
       \/ "storage" \in Faults /\ UNCHANGED blob
    /\ UNCHANGED <<tables, pc, session>>

\* The foreign keys cascade to the chunks.
CommitDelete(r) ==
    /\ dpc[r] = "unlinked"
    /\ row' = [row EXCEPT ![target[r]] = NoRow]
    /\ chunks' = [chunks EXCEPT ![target[r]] = 0]
    /\ \/ DGoto(r, "done")
       \/ "lostReply" \in Faults /\ DGoto(r, "aborted")
    /\ UNCHANGED <<blob, pc, session>>

\* The DELETE or its commit fails and the row is as it was; at the commit the
\* blob is gone by then.
DRaise(r) ==
    /\ "error" \in Faults
    /\ dpc[r] \in {"authorized", "unlinked"}
    /\ DGoto(r, "aborted")
    /\ UNCHANGED <<tables, blob, pc, session>>

-----------------------------------------------------------------------------
(* A worker process dies.  PostgreSQL rolls back every transaction it had    *)
(* open; the requests, jobs and queued jobs it held are not resumed by the   *)
(* process that replaces it.                                                 *)

Running(d) == pc[d] \notin Settled \cup {"absent"}

Crash(w) ==
    LET hit == {d \in Docs : Host[d] = w /\ Running(d)}
        cut == {r \in Deleters : Host[r] = w /\ dpc[r] \notin DSettled}
    IN
    /\ "crash" \in Faults
    /\ hit \cup cut # {}
    /\ pc' = [d \in Docs |-> IF d \notin hit THEN pc[d]
                             ELSE IF pc[d] \in UploadStage THEN "refused"
                             ELSE "stopped"]
    /\ image' = [d \in Docs |-> IF d \in hit THEN NoRow ELSE image[d]]
    /\ staged' = [d \in Docs |-> IF d \in hit THEN 0 ELSE staged[d]]
    /\ parsed' = [d \in Docs |-> IF d \in hit THEN 0 ELSE parsed[d]]
    /\ dpc' = [r \in Deleters |-> IF r \in cut THEN "aborted" ELSE dpc[r]]
    /\ UNCHANGED <<tables, blob, target>>

-----------------------------------------------------------------------------
(* Specification *)

\* What a request or a job does by itself, the database and the store answering.
Proceed(d) ==
    \/ InsertRow(d) \/ CommitUpload(d) \/ Enqueue(d)
    \/ JobStart(d)
    \/ MarkProcessing(d) \/ Download(d) \/ ExtractAndChunk(d) \/ CommitJob(d)
    \/ HandlerLoad(d) \/ HandlerMarkFailed(d) \/ HandlerCommit(d)

\* What takes an answer from the AI provider.
AskProvider(d) == EmbedAndStore(d) \/ Summarise(d)

Finish(d) == Proceed(d) \/ AskProvider(d) \/ Raise(d)

DProceed(r) == DeleteRow(r) \/ DeleteBlob(r) \/ CommitDelete(r)

Remove(r) == DProceed(r) \/ DRaise(r)

\* Nothing is running and nobody has a document to delete.  Any other state
\* without a successor is a deadlock.
AllQuiet ==
    /\ \A d \in Docs : pc[d] \in Settled
    /\ \A r \in Deleters : dpc[r] \in DSettled
    /\ UNCHANGED vars

Next ==
    \/ \E d \in Docs : UploadBlob(d) \/ Finish(d)
    \/ \E r \in Deleters : Authorize(r) \/ Remove(r)
    \/ \E w \in Workers : Crash(w)
    \/ AllQuiet

Spec == Init /\ [][Next]_vars

\* PostgreSQL and the blob store answer (the store's client gives up on a call
\* that does not return), and the event loop resumes who awaited the answer.  A
\* row lock is an answer only once it is free.  Nothing is assumed of the AI
\* provider, whose client is built without a timeout (ai/gemini_provider.py:87),
\* of clients, who need not upload or delete anything, or of failures.
FairSpec ==
    /\ Spec
    /\ \A d \in Docs : WF_vars(Proceed(d))
    /\ \A r \in Deleters : WF_vars(DProceed(r))

-----------------------------------------------------------------------------
(* Safety *)

\* The row's lock: while one session has uncommitted changes to an existing
\* row no other session has any, and the row cannot vanish under the job that
\* holds it (services/processing_service.py flushes before its first await).
HoldsExistingRow(r) == dpc[r] \in DLocks /\ Exists(target[r])

SingleWriter ==
    /\ \A d \in Docs : pc[d] \in JobLocks =>
          /\ Exists(d)
          /\ \A r \in Deleters : HoldsExistingRow(r) => target[r] # d
    /\ \A q, r \in Deleters :
          HoldsExistingRow(q) /\ HoldsExistingRow(r) /\ target[q] = target[r] => q = r

\* Row r may be seen together with n chunks.
RowMatches(r, n) ==
    /\ r.status # "PROCESSING"
    /\ r.status \in {"NONE", "UPLOADED"} => n = 0
    /\ r.status = "READY" => n = r.count /\ n > 0
    /\ r.reason \in ExtractionReason \cup {"EMBEDDING_FAILED"} => n = 0
    /\ r.reason = "SUMMARY_FAILED" => n > 0

\* What a reader may conclude from a status: a READY document's chunks are all
\* there and are as many as its chunk_count, a document that failed before its
\* embeddings landed has none to search, and neither has one not yet processed.
\* No partly ingested document is ever visible.
ChunksMatchStatus == \A d \in Docs : RowMatches(row[d], chunks[d])

\* A document with no PDF behind it is always the work of a delete that got as
\* far as the blob; an upload never leaves one, whatever fails in it
\* (DocumentService.create stores the blob first for this reason).
BlobBehindRow == \A d \in Docs :
    Exists(d) /\ ~blob[d] =>
        \E r \in Deleters : target[r] = d /\ dpc[r] \in {"unlinked", "aborted"}

\* A deleted document stays deleted: no job that was processing it writes its
\* row or its chunks back (documents.get is asked again before every recovery).
Gone(d) == ~Exists(d) /\ pc[d] \notin UploadStage

NoResurrection == [][\A d \in Docs : Gone(d) => Gone(d)' /\ chunks'[d] = 0]_vars

\* The published outcome is final: once READY or FAILED, neither the row nor the
\* chunks change again except by deletion.  Assumes no commit loses its reply.
OutcomeFinal == [][\A d \in Docs :
    row[d].status \in {"READY", "FAILED"} =>
        \/ row'[d] = row[d] /\ chunks'[d] = chunks[d]
        \/ row'[d] = NoRow]_vars

-----------------------------------------------------------------------------
(* Liveness *)

\* The job is inside a provider call that never returns.
Hung(d) == [](pc[d] \in {"chunked", "embedded"})

\* Polling ends: a document a client can see as UPLOADED reaches READY or
\* FAILED, or is deleted, whatever raises inside the job.  There are two ways
\* not to get there.  The provider never answers.  Or nothing is left to write
\* the outcome: the worker died, the upload's commit lost its reply and queued
\* no job, or the job's first read or the recovery itself raised.
PollingEnds == \A d \in Docs :
    row[d].status = "UPLOADED" ~>
        \/ row[d].status \in {"READY", "FAILED", "NONE"}
        \/ Hung(d)
        \/ [](pc[d] = "stopped")

\* Every upload request, every job and every delete comes to an end, whatever
\* fails, unless the provider leaves a job hanging: then that job, and a delete
\* of its document, which waits for the row's lock, go on for ever.
EverythingSettles ==
    /\ \A d \in Docs : pc[d] = "stored" ~> pc[d] \in Settled \/ Hung(d)
    /\ \A r \in Deleters, d \in Docs :
          dpc[r] = "authorized" /\ target[r] = d ~> dpc[r] \in DSettled \/ Hung(d)

-----------------------------------------------------------------------------
(* Refinement: DocumentContract is what other sessions see of all this. *)

published == [d \in Docs |->
    IF Exists(d) THEN row[d].status
    ELSE IF pc[d] \in UploadStage THEN "absent" ELSE "deleted"]

\* An outcome can change only if the commit that published it lost its reply.
Contract == INSTANCE DocumentContract
    WITH searchable <- chunks, MayAmend <- "lostReply" \in Faults

\* Whatever fails and whoever races, a document appears once, gets its outcome
\* in one step with its chunks (the job's single commit), loses READY only to the
\* handler of a commit whose reply was lost, and once deleted stays deleted.
ContractSpec == Contract!ContractSpec

-----------------------------------------------------------------------------
(* What a comment says and the code does not do *)

\* services/document_service.py:121-123: "a deleted blob behind a live row would
\* be a broken document".  Once a delete request is over, its document has
\* either lost its row or kept its blob.
DeleteLeavesNoBrokenDocument == \A r \in Deleters :
    dpc[r] \in {"done", "aborted"} /\ Exists(target[r]) => blob[target[r]]
=============================================================================
