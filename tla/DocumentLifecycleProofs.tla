---------------------- MODULE DocumentLifecycleProofs ----------------------
(***************************************************************************)
(* DocumentLifecycle's safety for every set of documents, deletes, workers  *)
(* and faults.                                                              *)
(***************************************************************************)
EXTENDS DocumentLifecycle, TLAPS

(***************************************************************************)
(* Typing.                                                                  *)
(***************************************************************************)

\* What each repository method returns is a row again.
LEMMA RowTyping ==
    /\ NoRow \in Row
    /\ UploadedRow \in Row
    /\ \A r \in Row : mark_processing(r) \in Row
    /\ \A r \in Row, n \in 0..MaxChunks : mark_ready(r, n) \in Row
    /\ \A r \in Row, why \in Reason : mark_failed(r, why) \in Row
<1> USE DEF Row, Status, Reason, ExtractionReason
<1>1. 0 \in 0..MaxChunks
      BY LifecycleAssumption
<1>2. NoRow \in Row /\ UploadedRow \in Row
      BY <1>1 DEF NoRow, UploadedRow
<1>3. ASSUME NEW r \in Row
      PROVE  mark_processing(r) \in Row
      BY DEF mark_processing
<1>5. ASSUME NEW r \in Row, NEW why \in Reason
      PROVE  mark_failed(r, why) \in Row
      BY DEF mark_failed
<1>6. ASSUME NEW r \in Row, NEW n \in 0..MaxChunks
      PROVE  mark_ready(r, n) \in Row
      BY DEF mark_ready
<1>7. QED
      BY <1>2, <1>3, <1>5, <1>6

LEMMA TypeInit == Init => TypeOK
BY LifecycleAssumption, RowTyping
   DEF Init, TypeOK, Stage, UploadStage, DStage

SessionOK ==
    /\ image \in [Docs -> Row]
    /\ staged \in [Docs -> 0..MaxChunks]
    /\ parsed \in [Docs -> 0..MaxChunks]

TablesOK ==
    /\ row \in [Docs -> Row]
    /\ chunks \in [Docs -> 0..MaxChunks]

PcOK == pc \in [Docs -> Stage]

RequestsOK ==
    /\ dpc \in [Deleters -> DStage]
    /\ target \in [Deleters -> Docs]

LEMMA GotoTyping ==
    ASSUME PcOK, NEW d \in Docs, NEW stage \in Stage, Goto(d, stage)
    PROVE  PcOK'
BY DEF PcOK, Goto

LEMMA SessionTyping ==
    ASSUME SessionOK, TablesOK, NEW d \in Docs,
           Forget(d) \/ Load(d) \/ UNCHANGED session
    PROVE  SessionOK'
<1>1. 0 \in 0..MaxChunks
      BY LifecycleAssumption
<1>2. CASE Forget(d)
      BY <1>1, <1>2, RowTyping DEF SessionOK, Forget
<1>3. CASE Load(d)
      BY <1>3 DEF SessionOK, TablesOK, Load
<1>4. CASE UNCHANGED session
      BY <1>4 DEF SessionOK, session
<1>5. QED
      BY <1>2, <1>3, <1>4

LEMMA TablesTyping ==
    ASSUME TablesOK, SessionOK, NEW d \in Docs, Apply(d) \/ UNCHANGED tables
    PROVE  TablesOK'
BY DEF TablesOK, SessionOK, Apply, tables

LEMMA GiveUpTyping ==
    ASSUME PcOK, SessionOK, NEW d \in Docs, NEW why \in Reason, GiveUp(d, why)
    PROVE  PcOK' /\ image' \in [Docs -> Row]
BY RowTyping DEF PcOK, SessionOK, GiveUp, Goto, Stage, TryStage

LEMMA StageNames ==
    /\ {"stored", "inserted", "refused", "committed", "queued"} \subseteq Stage
    /\ {"loaded", "marked", "downloaded", "chunked", "embedded", "finishing"} \subseteq Stage
    /\ {"handling", "recovering", "recording", "done", "stopped"} \subseteq Stage
BY DEF Stage, UploadStage, TryStage, HandlerStage

LEMMA TypeStep == TypeOK /\ [Next]_vars => TypeOK'
<1> SUFFICES ASSUME TablesOK, blob \in [Docs -> BOOLEAN], PcOK, SessionOK, RequestsOK,
                    [Next]_vars
             PROVE  /\ TablesOK'
                    /\ blob' \in [Docs -> BOOLEAN]
                    /\ PcOK'
                    /\ SessionOK'
                    /\ RequestsOK'
    BY DEF TypeOK, TablesOK, PcOK, SessionOK, RequestsOK
<1> USE StageNames
<1>0. 0 \in 0..MaxChunks /\ 1..MaxChunks \subseteq 0..MaxChunks
      BY LifecycleAssumption
<1>1. ASSUME NEW d \in Docs, Finish(d) \/ UploadBlob(d)
      PROVE  /\ TablesOK'
             /\ blob' \in [Docs -> BOOLEAN]
             /\ PcOK'
             /\ SessionOK'
             /\ RequestsOK'
  <2>1. RequestsOK'
        BY <1>1 DEF Finish, Proceed, AskProvider, UploadBlob, InsertRow, CommitUpload,
                    Enqueue, JobStart,
                    MarkProcessing, Download, ExtractAndChunk, EmbedAndStore, Summarise,
                    CommitJob, Raise, HandlerLoad, HandlerMarkFailed, HandlerCommit,
                    RequestsOK, requests
  <2>2. blob' \in [Docs -> BOOLEAN]
        BY <1>1 DEF Finish, Proceed, AskProvider, UploadBlob, InsertRow, CommitUpload,
                    Enqueue, JobStart,
                    MarkProcessing, Download, ExtractAndChunk, EmbedAndStore, Summarise,
                    CommitJob, Raise, HandlerLoad, HandlerMarkFailed, HandlerCommit
  <2>3. TablesOK'
        BY <1>1, TablesTyping
           DEF Finish, Proceed, AskProvider, UploadBlob, InsertRow, CommitUpload,
               Enqueue, JobStart,
               MarkProcessing, Download, ExtractAndChunk, EmbedAndStore, Summarise,
               CommitJob, Raise, HandlerLoad, HandlerMarkFailed, HandlerCommit
  <2>4. PcOK'
        BY <1>1, GotoTyping, GiveUpTyping
           DEF Finish, Proceed, AskProvider, UploadBlob, InsertRow, CommitUpload,
               Enqueue, JobStart,
               MarkProcessing, Download, ExtractAndChunk, EmbedAndStore, Summarise,
               CommitJob, Raise, HandlerLoad, HandlerMarkFailed, HandlerCommit,
               Reason
  <2>5. SessionOK'
    <3>1. CASE UploadBlob(d) \/ InsertRow(d) \/ CommitUpload(d) \/ Enqueue(d)
          BY <1>0, <3>1, SessionTyping, RowTyping
             DEF UploadBlob, InsertRow, CommitUpload, Enqueue, SessionOK, session
    <3>2. CASE JobStart(d) \/ HandlerLoad(d)
          BY <3>2, SessionTyping DEF JobStart, HandlerLoad
    <3>3. CASE MarkProcessing(d)
          BY <3>3, SessionTyping, RowTyping DEF MarkProcessing, SessionOK
    <3>4. CASE Download(d)
          BY <3>4, GiveUpTyping DEF Download, SessionOK, Reason
    <3>5. CASE ExtractAndChunk(d)
          BY <1>0, <3>5, GiveUpTyping DEF ExtractAndChunk, SessionOK, Reason
    <3>6. CASE EmbedAndStore(d)
          BY <3>6, GiveUpTyping DEF EmbedAndStore, SessionOK, Reason
    <3>7. CASE Summarise(d)
      <4>1. mark_ready(image[d], parsed[d]) \in Row
            BY RowTyping DEF SessionOK
      <4>2. CASE GiveUp(d, "SUMMARY_FAILED")
            BY <3>7, <4>2, GiveUpTyping DEF Summarise, SessionOK, Reason
      <4>3. CASE image' = [image EXCEPT ![d] = mark_ready(@, parsed[d])]
            BY <3>7, <4>1, <4>3 DEF Summarise, SessionOK
      <4>4. QED
            BY <3>7, <4>2, <4>3 DEF Summarise
    <3>8. CASE CommitJob(d) \/ Raise(d) \/ HandlerCommit(d)
          BY <3>8, SessionTyping DEF CommitJob, Raise, HandlerCommit
    <3>9. CASE HandlerMarkFailed(d)
      <4>1. mark_failed(image[d], "UNKNOWN") \in Row
            BY RowTyping DEF SessionOK, Reason
      <4>2. CASE Forget(d)
            BY <4>2, SessionTyping
      <4>3. CASE image' = [image EXCEPT ![d] = mark_failed(image[d], "UNKNOWN")]
                 /\ UNCHANGED <<staged, parsed>>
            BY <4>1, <4>3 DEF SessionOK
      <4>4. QED
            BY <3>9, <4>2, <4>3 DEF HandlerMarkFailed
    <3>10. QED
          BY <1>1, <3>1, <3>2, <3>3, <3>4, <3>5, <3>6, <3>7, <3>8, <3>9 DEF Finish, Proceed, AskProvider
  <2>6. QED
        BY <2>1, <2>2, <2>3, <2>4, <2>5
<1>2. ASSUME NEW r \in Deleters, Authorize(r) \/ Remove(r)
      PROVE  /\ TablesOK'
             /\ blob' \in [Docs -> BOOLEAN]
             /\ PcOK'
             /\ SessionOK'
             /\ RequestsOK'
  <2> USE DEF RequestsOK, TablesOK, PcOK, SessionOK, DGoto, DStage, tables, session
  <2>1. CASE Authorize(r)
        BY <2>1 DEF Authorize
  <2>2. CASE DeleteRow(r)
        BY <2>2 DEF DeleteRow
  <2>3. CASE DeleteBlob(r)
        BY <2>3 DEF DeleteBlob
  <2>4. CASE DRaise(r)
        BY <2>4 DEF DRaise
  <2>5. CASE CommitDelete(r)
    <3>1. TablesOK'
      <4>1. CASE UNCHANGED tables
            BY <4>1
      <4>2. CASE /\ row' = [row EXCEPT ![target[r]] = NoRow]
                 /\ chunks' = [chunks EXCEPT ![target[r]] = 0]
            BY <1>0, <4>2, RowTyping
      <4>3. QED
            BY <2>5, <4>1, <4>2 DEF CommitDelete
    <3>2. QED
          BY <2>5, <3>1 DEF CommitDelete
  <2>6. QED
        BY <1>2, <2>1, <2>2, <2>3, <2>4, <2>5 DEF Remove, DProceed
<1>3. ASSUME NEW w \in Workers, Crash(w)
      PROVE  /\ TablesOK'
             /\ blob' \in [Docs -> BOOLEAN]
             /\ PcOK'
             /\ SessionOK'
             /\ RequestsOK'
  <2>1. PcOK'
        BY <1>3 DEF Crash, PcOK
  <2>2. SessionOK'
        BY <1>0, <1>3, RowTyping DEF Crash, SessionOK
  <2>3. RequestsOK'
        BY <1>3 DEF Crash, RequestsOK, DStage
  <2>4. QED
        BY <1>3, <2>1, <2>2, <2>3, TablesTyping DEF Crash, TablesOK, tables
<1>4. ASSUME UNCHANGED vars
      PROVE  /\ TablesOK'
             /\ blob' \in [Docs -> BOOLEAN]
             /\ PcOK'
             /\ SessionOK'
             /\ RequestsOK'
      BY <1>4 DEF vars, RequestsOK, TablesOK, PcOK, SessionOK
<1>5. QED
      BY <1>1, <1>2, <1>3, <1>4 DEF Next, AllQuiet

\* Every variable keeps its type: in particular no step leaves a job at a stage
\* the code does not have, or a row with a reason outside the enumeration.
THEOREM TypeCorrect == Spec => []TypeOK
<1>1. QED
      BY TypeInit, TypeStep, PTL DEF Spec

-----------------------------------------------------------------------------
(***************************************************************************)
(* The inductive invariant: what each stage of an upload and its job implies *)
(* about the committed row and about the session's own image of it.  The     *)
(* properties do not follow from themselves: that a commit publishes a row   *)
(* matching its chunks depends on what the session staged many steps before, *)
(* and that no row comes back on the locks taken in between.                 *)
(***************************************************************************)

\* No outcome has been published: the row is as the upload left it, or deleted.
Unpublished(d) == row[d] \in {NoRow, UploadedRow}

RowByStage(d) ==
    /\ RowMatches(row[d], chunks[d])
    /\ pc[d] \in UploadStage => row[d] = NoRow
    /\ pc[d] \in {"committed", "queued"} \cup TryStage => Unpublished(d)
    /\ "lostReply" \notin Faults /\ pc[d] \in HandlerStage => Unpublished(d)

ImageByStage(d) ==
    /\ pc[d] \in {"inserted", "loaded"} => image[d] = UploadedRow
    /\ pc[d] \in {"marked", "downloaded", "chunked", "embedded"} =>
          image[d] = mark_processing(UploadedRow)
    /\ pc[d] \in {"finishing", "recovering", "recording"} =>
          RowMatches(image[d], staged[d])
    /\ pc[d] = "finishing" => image[d].status \in {"READY", "FAILED"}
    /\ pc[d] = "recording" => image[d].status = "FAILED"

StagedByStage(d) ==
    /\ pc[d] \in {"absent", "stored", "inserted", "loaded", "marked", "downloaded",
                  "chunked"} => staged[d] = 0
    /\ pc[d] \in {"chunked", "embedded"} => parsed[d] > 0
    /\ pc[d] = "embedded" => staged[d] = parsed[d]
    /\ pc[d] \in {"recovering", "recording"} /\ Exists(d) => staged[d] = chunks[d]

DocInv(d) ==
    /\ RowByStage(d)
    /\ ImageByStage(d)
    /\ StagedByStage(d)
    /\ pc[d] \in JobLocks => Exists(d)
    /\ pc[d] \in {"stored", "inserted"} => blob[d]

\* A delete is aimed at an upload that was committed, and holds its row alone.
DeleteInv ==
    /\ \A r \in Deleters : dpc[r] # "idle" => pc[target[r]] \notin UploadStage
    /\ \A r \in Deleters : HoldsExistingRow(r) => pc[target[r]] \notin JobLocks
    /\ \A q, r \in Deleters :
          HoldsExistingRow(q) /\ HoldsExistingRow(r) /\ target[q] = target[r] => q = r

IInv ==
    /\ TypeOK
    /\ \A d \in Docs : DocInv(d)
    /\ DeleteInv
    /\ BlobBehindRow

LEMMA InvInit == Init => IInv
<1> SUFFICES ASSUME Init
             PROVE  IInv
    OBVIOUS
<1>1. TypeOK
      BY TypeInit
<1>2. ASSUME NEW d \in Docs
      PROVE  DocInv(d)
      BY DEF Init, DocInv, RowByStage, ImageByStage, StagedByStage, RowMatches, NoRow,
             TryStage, JobLocks, HandlerStage, ExtractionReason
<1>3. DeleteInv /\ BlobBehindRow
      BY DEF Init, DeleteInv, BlobBehindRow, HoldsExistingRow, Exists, NoRow, DLocks
<1>4. QED
      BY <1>1, <1>2, <1>3 DEF IInv

-----------------------------------------------------------------------------
(* Steps of an upload or its job. *)

\* Such a step leaves every other document and every request alone.
LEMMA DocFrame ==
    ASSUME TypeOK, NEW d \in Docs, UploadBlob(d) \/ Finish(d)
    PROVE  /\ UNCHANGED requests
           /\ \A e \in Docs \ {d} :
                 /\ row'[e] = row[e]
                 /\ chunks'[e] = chunks[e]
                 /\ blob'[e] = blob[e]
                 /\ pc'[e] = pc[e]
                 /\ image'[e] = image[e]
                 /\ staged'[e] = staged[e]
                 /\ parsed'[e] = parsed[e]
BY DEF UploadBlob, Finish, Proceed, AskProvider, InsertRow, CommitUpload, Enqueue,
       JobStart, MarkProcessing, Download, ExtractAndChunk, EmbedAndStore, Summarise,
       CommitJob, Raise, HandlerLoad, HandlerMarkFailed, HandlerCommit,
       Goto, Forget, Load, Apply, GiveUp, TypeOK, tables, session, requests

\* mark_failed on a row that is being processed, with the chunks staged so far.
LEMMA MarkFailedMatches ==
    ASSUME NEW n \in Nat, NEW r \in Row, NEW why \in Reason,
           why \in ExtractionReason \cup {"EMBEDDING_FAILED"} => n = 0,
           why = "SUMMARY_FAILED" => n > 0
    PROVE  /\ RowMatches(mark_failed(r, why), n)
           /\ mark_failed(r, why).status = "FAILED"
<1>1. mark_failed(r, why).status = "FAILED" /\ mark_failed(r, why).reason = why
      BY DEF mark_failed, Row
<1>2. QED
      BY <1>1 DEF RowMatches

LEMMA GiveUpStep ==
    ASSUME TypeOK, NEW d \in Docs, DocInv(d), NEW why \in Reason, GiveUp(d, why),
           pc[d] \in JobLocks, pc[d] \in TryStage,
           UNCHANGED <<tables, blob, staged>>,
           why \in ExtractionReason \cup {"EMBEDDING_FAILED"} => staged[d] = 0,
           why = "SUMMARY_FAILED" => staged[d] > 0
    PROVE  DocInv(d)'
<1>1. /\ pc'[d] = "finishing"
      /\ image'[d] = mark_failed(image[d], why)
      /\ row'[d] = row[d] /\ chunks'[d] = chunks[d] /\ staged'[d] = staged[d]
      BY DEF GiveUp, Goto, TypeOK, tables
<1>2. RowMatches(image'[d], staged'[d]) /\ image'[d].status = "FAILED"
  <2>1. staged[d] \in Nat /\ image[d] \in Row
        BY LifecycleAssumption DEF TypeOK
  <2>2. QED
        BY <1>1, <2>1, MarkFailedMatches
<1>3. QED
      BY <1>1, <1>2
         DEF DocInv, RowByStage, ImageByStage, StagedByStage, Unpublished, Exists,
             UploadStage, TryStage, HandlerStage, JobLocks

LEMMA DocStep ==
    ASSUME TypeOK, NEW d \in Docs, DocInv(d), UploadBlob(d) \/ Finish(d)
    PROVE  DocInv(d)'
<1> USE DEF DocInv, RowByStage, ImageByStage, StagedByStage, Unpublished, TypeOK,
            UploadStage, TryStage, HandlerStage, JobLocks, Goto, Exists,
            tables, session, requests, NoRow, UploadedRow, mark_processing
<1>1. CASE UploadBlob(d)
      BY <1>1 DEF UploadBlob
<1>2. CASE InsertRow(d)
      BY <1>2 DEF InsertRow, Forget
<1>3. CASE CommitUpload(d)
      BY <1>3 DEF CommitUpload, Forget, Apply, RowMatches, ExtractionReason
<1>4. CASE Enqueue(d)
      BY <1>4 DEF Enqueue
<1>5. CASE JobStart(d)
      BY <1>5 DEF JobStart, Load, RowMatches
<1>6. CASE MarkProcessing(d)
  <2>1. CASE ~Exists(d) /\ Goto(d, "handling") /\ Forget(d)
        BY <1>6, <2>1 DEF MarkProcessing, Forget
  <2>2. CASE /\ Exists(d)
             /\ Goto(d, "marked")
             /\ image' = [image EXCEPT ![d] = mark_processing(@)]
             /\ UNCHANGED <<staged, parsed>>
    <3>1. image'[d] = mark_processing(UploadedRow) /\ staged'[d] = 0
          BY <1>6, <2>2 DEF MarkProcessing
    <3>2. row'[d] = row[d] /\ chunks'[d] = chunks[d] /\ pc'[d] = "marked"
          BY <1>6, <2>2 DEF MarkProcessing
    <3>3. QED
          BY <1>6, <2>2, <3>1, <3>2 DEF MarkProcessing
  <2>3. QED
        BY <1>6, <2>1, <2>2 DEF MarkProcessing
<1>7. CASE Download(d)
  <2>1. CASE GiveUp(d, "UNKNOWN")
        BY <1>7, <2>1, GiveUpStep DEF Download, Reason, ExtractionReason
  <2>2. CASE Goto(d, "downloaded") /\ UNCHANGED image
        BY <1>7, <2>2 DEF Download
  <2>3. QED
        BY <1>7, <2>1, <2>2 DEF Download
<1>8. CASE ExtractAndChunk(d)
  <2>1. ASSUME NEW why \in ExtractionReason, GiveUp(d, why)
        PROVE  DocInv(d)'
        BY <1>8, <2>1, GiveUpStep DEF ExtractAndChunk, Reason, ExtractionReason
  <2>2. ASSUME NEW n \in 1..MaxChunks, Goto(d, "chunked"),
               parsed' = [parsed EXCEPT ![d] = n], UNCHANGED image
        PROVE  DocInv(d)'
        BY <1>8, <2>2 DEF ExtractAndChunk
  <2>3. QED
        BY <1>8, <2>1, <2>2 DEF ExtractAndChunk
<1>9. CASE EmbedAndStore(d)
  <2>1. CASE GiveUp(d, "EMBEDDING_FAILED") /\ UNCHANGED staged
        BY <1>9, <2>1, GiveUpStep DEF EmbedAndStore, Reason, ExtractionReason
  <2>2. CASE /\ Goto(d, "embedded")
             /\ staged' = [staged EXCEPT ![d] = parsed[d]]
             /\ UNCHANGED image
        BY <1>9, <2>2 DEF EmbedAndStore
  <2>3. QED
        BY <1>9, <2>1, <2>2 DEF EmbedAndStore
<1>10. CASE Summarise(d)
  <2>1. staged[d] = parsed[d] /\ parsed[d] > 0
        BY <1>10 DEF Summarise
  <2>2. CASE GiveUp(d, "SUMMARY_FAILED")
        BY <1>10, <2>1, <2>2, GiveUpStep DEF Summarise, Reason, ExtractionReason
  <2>3. CASE /\ Goto(d, "finishing")
             /\ image' = [image EXCEPT ![d] = mark_ready(@, parsed[d])]
    <3>1. image'[d] = mark_ready(image[d], parsed[d])
          BY <2>3
    <3>2. RowMatches(image'[d], staged'[d]) /\ image'[d].status = "READY"
          BY <1>10, <2>1, <3>1 DEF Summarise, RowMatches, mark_ready, ExtractionReason
    <3>3. QED
          BY <1>10, <2>3, <3>2 DEF Summarise
  <2>4. QED
        BY <1>10, <2>2, <2>3 DEF Summarise
<1>11. CASE CommitJob(d)
  <2>1. /\ row'[d] = image[d] /\ chunks'[d] = staged[d]
        /\ pc'[d] \in {"done", "handling"}
        /\ "lostReply" \notin Faults => pc'[d] = "done"
        BY <1>11 DEF CommitJob, Apply
  <2>2. RowMatches(row'[d], chunks'[d])
        BY <1>11, <2>1 DEF CommitJob
  <2>3. CASE pc'[d] = "done"
        BY <2>2, <2>3
  <2>4. CASE pc'[d] = "handling" /\ "lostReply" \in Faults
        BY <2>2, <2>4
  <2>5. QED
        BY <2>1, <2>3, <2>4
<1>12. CASE Raise(d)
      BY <1>12 DEF Raise, Forget
<1>13. CASE HandlerLoad(d)
      BY <1>13 DEF HandlerLoad, Load
<1>14. CASE HandlerMarkFailed(d)
  <2>1. CASE Forget(d) /\ (Goto(d, "done") \/ Goto(d, "stopped"))
        BY <1>14, <2>1 DEF HandlerMarkFailed, Forget
  <2>2. CASE /\ Exists(d)
             /\ Goto(d, "recording")
             /\ image' = [image EXCEPT ![d] = mark_failed(image[d], "UNKNOWN")]
             /\ UNCHANGED <<staged, parsed>>
    <3>1. staged[d] \in Nat /\ image[d] \in Row /\ "UNKNOWN" \in Reason
          BY LifecycleAssumption DEF Reason
    <3>2. RowMatches(image'[d], staged'[d]) /\ image'[d].status = "FAILED"
          BY <2>2, <3>1, MarkFailedMatches DEF ExtractionReason
    <3>3. QED
          BY <1>14, <2>2, <3>2 DEF HandlerMarkFailed
  <2>3. QED
        BY <1>14, <2>1, <2>2 DEF HandlerMarkFailed
<1>15. CASE HandlerCommit(d)
      BY <1>15 DEF HandlerCommit, Apply, Forget
<1>16. QED
      BY <1>1, <1>2, <1>3, <1>4, <1>5, <1>6, <1>7, <1>8, <1>9, <1>10, <1>11, <1>12,
         <1>13, <1>14, <1>15 DEF Finish, Proceed, AskProvider

\* How far such a step can move its document: it never goes back to the upload,
\* takes the row's lock only when no delete has it, makes a row only by
\* committing the upload, and touches the blob only when uploading it.
LEMMA DocMoves ==
    ASSUME TypeOK, NEW d \in Docs, DocInv(d), UploadBlob(d) \/ Finish(d)
    PROVE  /\ pc'[d] \in UploadStage => pc[d] \in UploadStage
           /\ pc'[d] \in JobLocks \ {"recording"} /\ pc[d] \notin JobLocks => ~Locked(d)
           /\ pc'[d] = "recording" => ~Locked(d)
           /\ Exists(d)' => Exists(d) \/ pc[d] = "inserted"
           /\ Exists(d) => Exists(d)'
           /\ pc[d] # "absent" => blob'[d] = blob[d]
<1> USE DEF DocInv, TypeOK, UploadStage, JobLocks, Goto, tables, session, requests
<1>1. CASE UploadBlob(d)
      BY <1>1 DEF UploadBlob, Exists
<1>2. CASE InsertRow(d) \/ Enqueue(d)
      BY <1>2 DEF InsertRow, Enqueue, Exists
<1>3. CASE CommitUpload(d)
      BY <1>3 DEF CommitUpload, Apply, Exists, RowByStage, ImageByStage, UploadedRow, NoRow
<1>4. CASE JobStart(d) \/ HandlerLoad(d)
      BY <1>4 DEF JobStart, HandlerLoad, Exists
<1>5. CASE MarkProcessing(d)
      BY <1>5 DEF MarkProcessing, Exists
<1>6. CASE Download(d) \/ ExtractAndChunk(d) \/ EmbedAndStore(d) \/ Summarise(d)
      BY <1>6 DEF Download, ExtractAndChunk, EmbedAndStore, Summarise, GiveUp, Exists
<1>7. CASE CommitJob(d) \/ HandlerCommit(d)
      BY <1>7 DEF CommitJob, HandlerCommit, Apply, Exists, ImageByStage
<1>8. CASE Raise(d)
      BY <1>8 DEF Raise, Exists
<1>9. CASE HandlerMarkFailed(d)
      BY <1>9 DEF HandlerMarkFailed, Exists
<1>10. QED
      BY <1>1, <1>2, <1>3, <1>4, <1>5, <1>6, <1>7, <1>8, <1>9 DEF Finish, Proceed, AskProvider

\* DocInv reads nothing but the document's own entries.
LEMMA DocInvFrame ==
    ASSUME NEW d \in Docs, DocInv(d),
           row'[d] = row[d], chunks'[d] = chunks[d], blob'[d] = blob[d], pc'[d] = pc[d],
           image'[d] = image[d], staged'[d] = staged[d], parsed'[d] = parsed[d]
    PROVE  DocInv(d)'
BY DEF DocInv, RowByStage, ImageByStage, StagedByStage, Unpublished, Exists

LEMMA UploadOrJobStep ==
    ASSUME IInv, NEW d \in Docs, UploadBlob(d) \/ Finish(d), TypeOK'
    PROVE  IInv'
<1>1. TypeOK /\ DocInv(d)
      BY DEF IInv
<1>2. ASSUME NEW e \in Docs
      PROVE  DocInv(e)'
  <2>1. CASE e = d
        BY <1>1, <2>1, DocStep
  <2>2. CASE e # d
        BY <1>1, <2>2, DocFrame, DocInvFrame DEF IInv
  <2>3. QED
        BY <2>1, <2>2
<1>3. dpc' = dpc /\ target' = target
      BY <1>1, DocFrame DEF requests
<1>4. \A r \in Deleters : HoldsExistingRow(r)' => HoldsExistingRow(r)
  <2>1. ASSUME NEW r \in Deleters, HoldsExistingRow(r)', target[r] = d
        PROVE  HoldsExistingRow(r)
    <3>1. dpc[r] \in DLocks /\ Exists(d)'
          BY <1>3, <2>1 DEF HoldsExistingRow
    <3>2. pc[d] # "inserted"
          BY <2>1, <3>1 DEF IInv, DeleteInv, DLocks, UploadStage
    <3>3. QED
          BY <1>1, <2>1, <3>1, <3>2, DocMoves DEF HoldsExistingRow
  <2>2. ASSUME NEW r \in Deleters, HoldsExistingRow(r)', target[r] # d
        PROVE  HoldsExistingRow(r)
        BY <1>1, <1>3, <2>2, DocFrame DEF HoldsExistingRow, Exists, TypeOK
  <2>3. QED
        BY <2>1, <2>2
<1>5. DeleteInv'
  <2>1. ASSUME NEW r \in Deleters, dpc[r] # "idle"
        PROVE  pc'[target[r]] \notin UploadStage
        BY <1>1, <2>1, DocMoves, DocFrame DEF IInv, DeleteInv, TypeOK
  <2>2. ASSUME NEW r \in Deleters, HoldsExistingRow(r)
        PROVE  pc'[target[r]] \notin JobLocks
    <3>1. CASE target[r] = d
          BY <1>1, <2>2, <3>1, DocMoves
             DEF IInv, DeleteInv, HoldsExistingRow, Locked, JobLocks
    <3>2. CASE target[r] # d
          BY <1>1, <2>2, <3>2, DocFrame DEF IInv, DeleteInv, TypeOK
    <3>3. QED
          BY <3>1, <3>2
  <2>3. QED
        BY <1>3, <1>4, <2>1, <2>2 DEF IInv, DeleteInv
<1>6. BlobBehindRow'
  <2>1. ASSUME NEW e \in Docs, Exists(e)', ~blob'[e]
        PROVE  \E r \in Deleters : target[r] = e /\ dpc[r] \in {"unlinked", "aborted"}
    <3>1. CASE e # d
          BY <1>1, <2>1, <3>1, DocFrame DEF IInv, BlobBehindRow, Exists
    <3>2. CASE e = d
      <4>1. pc[d] # "absent"
            BY <1>1, <2>1, <3>2, DocMoves
               DEF DocInv, RowByStage, UploadStage, Exists, NoRow
      <4>2. ~blob[d]
            BY <1>1, <2>1, <3>2, <4>1, DocMoves
      <4>3. Exists(d)
            BY <1>1, <2>1, <3>2, <4>2, DocMoves DEF DocInv
      <4>4. QED
            BY <3>2, <4>2, <4>3 DEF IInv, BlobBehindRow
    <3>3. QED
          BY <3>1, <3>2
  <2>2. QED
        BY <1>3, <2>1 DEF BlobBehindRow
<1>7. QED
      BY <1>2, <1>5, <1>6 DEF IInv

-----------------------------------------------------------------------------
(* Steps of a delete request. *)

\* A request moves alone, and only authorizing one chooses its document.
LEMMA DeleteFrame ==
    ASSUME TypeOK, NEW r \in Deleters, Authorize(r) \/ Remove(r)
    PROVE  /\ UNCHANGED <<pc, session>>
           /\ \A q \in Deleters \ {r} : dpc'[q] = dpc[q] /\ target'[q] = target[q]
           /\ dpc[r] # "idle" => target'[r] = target[r]
BY DEF Authorize, Remove, DProceed, DRaise, DeleteRow, DeleteBlob, CommitDelete, DGoto,
       TypeOK

\* Rows and chunks change only in a delete's commit, and there by going away.
LEMMA DeleteTables ==
    ASSUME TypeOK, NEW r \in Deleters, Authorize(r) \/ Remove(r)
    PROVE  \/ UNCHANGED tables
           \/ /\ dpc[r] = "unlinked"
              /\ row' = [row EXCEPT ![target[r]] = NoRow]
              /\ chunks' = [chunks EXCEPT ![target[r]] = 0]
BY DEF Authorize, Remove, DProceed, DRaise, DeleteRow, DeleteBlob, CommitDelete

LEMMA DeleteStep ==
    ASSUME IInv, NEW r \in Deleters, Authorize(r) \/ Remove(r), TypeOK'
    PROVE  IInv'
<1>0. TypeOK /\ target[r] \in Docs
      BY DEF IInv, TypeOK
<1>1. ASSUME NEW d \in Docs
      PROVE  Exists(d)' => Exists(d) /\ row'[d] = row[d] /\ chunks'[d] = chunks[d]
      BY <1>0, DeleteTables DEF Exists, NoRow, tables, TypeOK
<1>2. ASSUME NEW d \in Docs
      PROVE  DocInv(d)'
  <2>1. pc'[d] = pc[d] /\ image'[d] = image[d] /\ staged'[d] = staged[d]
        /\ parsed'[d] = parsed[d]
        BY <1>0, DeleteFrame DEF session
  <2>2. DocInv(d)
        BY DEF IInv
  <2>3. blob[d] => blob'[d] \/ pc[d] \notin UploadStage
    <3>1. CASE DeleteBlob(r)
          BY <1>0, <3>1 DEF DeleteBlob, IInv, DeleteInv, TypeOK
    <3>2. CASE ~DeleteBlob(r)
          BY <3>2 DEF Authorize, Remove, DProceed, DRaise, DeleteRow, CommitDelete
    <3>3. QED
          BY <3>1, <3>2
  <2>4. CASE row'[d] = row[d] /\ chunks'[d] = chunks[d]
        BY <2>1, <2>2, <2>3, <2>4
           DEF DocInv, RowByStage, ImageByStage, StagedByStage, Unpublished, Exists,
               UploadStage
  <2>5. CASE row'[d] = NoRow /\ chunks'[d] = 0 /\ target[r] = d /\ dpc[r] = "unlinked"
    <3>1. pc[d] \notin JobLocks
          BY <2>2, <2>5
             DEF IInv, DeleteInv, HoldsExistingRow, DLocks, DocInv
    <3>2. pc[d] \notin UploadStage
          BY <2>5 DEF IInv, DeleteInv
    <3>3. RowMatches(row'[d], chunks'[d])
          BY <2>5 DEF RowMatches, NoRow, ExtractionReason
    <3>4. QED
          BY <2>1, <2>2, <2>5, <3>1, <3>2, <3>3
             DEF DocInv, RowByStage, ImageByStage, StagedByStage, Unpublished,
                 UploadStage, Exists, NoRow
  <2>6. QED
        BY <1>0, <2>4, <2>5, DeleteTables DEF tables, TypeOK
<1>3. \A q \in Deleters \ {r} :
         /\ dpc'[q] = dpc[q] /\ target'[q] = target[q]
         /\ HoldsExistingRow(q)' => HoldsExistingRow(q)
      BY <1>0, <1>1, DeleteFrame DEF HoldsExistingRow, TypeOK
<1>4. HoldsExistingRow(r)' =>
         \/ HoldsExistingRow(r) /\ target'[r] = target[r]
         \/ target'[r] = target[r] /\ ~Locked(target[r])
  <2>1. CASE Authorize(r)
        BY <1>0, <2>1 DEF Authorize, HoldsExistingRow, DLocks, TypeOK
  <2>2. CASE DeleteRow(r)
        BY <1>0, <1>1, <2>2 DEF DeleteRow, DGoto, HoldsExistingRow, DLocks, TypeOK
  <2>3. CASE DeleteBlob(r) \/ CommitDelete(r) \/ DRaise(r)
        BY <1>0, <1>1, <2>3
           DEF DeleteBlob, CommitDelete, DRaise, DGoto, HoldsExistingRow, DLocks, TypeOK
  <2>4. QED
        BY <2>1, <2>2, <2>3 DEF Remove, DProceed
<1>5. pc' = pc
      BY <1>0, DeleteFrame
<1>6. DeleteInv'
  <2>1. dpc'[r] # "idle" => pc[target'[r]] \notin UploadStage
    <3>1. CASE Authorize(r)
          BY <1>0, <3>1
             DEF Authorize, IInv, DocInv, RowByStage, Exists, NoRow, TypeOK
    <3>2. CASE Remove(r)
          BY <1>0, <3>2, DeleteFrame
             DEF IInv, DeleteInv, Remove, DProceed, DRaise, DeleteRow, DeleteBlob,
                 CommitDelete
    <3>3. QED
          BY <3>1, <3>2
  <2>2. \A q \in Deleters : dpc'[q] # "idle" => pc[target'[q]] \notin UploadStage
        BY <1>3, <2>1 DEF IInv, DeleteInv
  <2>3. \A q \in Deleters : HoldsExistingRow(q)' => pc[target'[q]] \notin JobLocks
        BY <1>3, <1>4 DEF IInv, DeleteInv, Locked
  <2>4. ASSUME NEW p \in Deleters, NEW q \in Deleters, p # q,
               HoldsExistingRow(p)', HoldsExistingRow(q)', target'[p] = target'[q]
        PROVE  FALSE
    <3>1. CASE p # r /\ q # r
          BY <1>3, <2>4, <3>1 DEF IInv, DeleteInv
    <3>2. CASE p = r
          BY <1>3, <1>4, <2>4, <3>2 DEF IInv, DeleteInv, Locked, HoldsExistingRow
    <3>3. CASE q = r
          BY <1>3, <1>4, <2>4, <3>3 DEF IInv, DeleteInv, Locked, HoldsExistingRow
    <3>4. QED
          BY <3>1, <3>2, <3>3
  <2>5. QED
        BY <1>5, <2>2, <2>3, <2>4 DEF DeleteInv
<1>7. BlobBehindRow'
  <2>1. ASSUME NEW d \in Docs, Exists(d)', ~blob'[d]
        PROVE  \E q \in Deleters : target'[q] = d /\ dpc'[q] \in {"unlinked", "aborted"}
    <3>1. Exists(d)
          BY <1>1, <2>1
    <3>2. CASE blob[d]
          BY <1>0, <2>1, <3>2
             DEF Authorize, Remove, DProceed, DRaise, DeleteRow, DeleteBlob,
                 CommitDelete, DGoto, TypeOK
    <3>3. CASE ~blob[d]
      <4>1. PICK q \in Deleters : target[q] = d /\ dpc[q] \in {"unlinked", "aborted"}
            BY <3>1, <3>3 DEF IInv, BlobBehindRow
      <4>2. CASE q # r
            BY <1>3, <4>1, <4>2
      <4>3. CASE q = r
            BY <1>0, <2>1, <4>1, <4>3
               DEF Authorize, Remove, DProceed, DRaise, DeleteRow, DeleteBlob,
                   CommitDelete, DGoto, TypeOK, Exists, NoRow
      <4>4. QED
            BY <4>2, <4>3
    <3>4. QED
          BY <3>2, <3>3
  <2>2. QED
        BY <2>1 DEF BlobBehindRow
<1>8. QED
      BY <1>2, <1>6, <1>7 DEF IInv

-----------------------------------------------------------------------------
(* A crash. *)

LEMMA CrashStep ==
    ASSUME IInv, NEW w \in Workers, Crash(w), TypeOK'
    PROVE  IInv'
<1>0. TypeOK
      BY DEF IInv
<1>1. ASSUME NEW d \in Docs
      PROVE  /\ \/ /\ pc'[d] = pc[d]
                   /\ image'[d] = image[d] /\ staged'[d] = staged[d] /\ parsed'[d] = parsed[d]
                \/ pc'[d] = "refused" /\ pc[d] \in UploadStage
                \/ pc'[d] = "stopped" /\ pc[d] \notin UploadStage
             /\ row'[d] = row[d] /\ chunks'[d] = chunks[d] /\ blob'[d] = blob[d]
      BY <1>0 DEF Crash, TypeOK, tables
<1>2. ASSUME NEW r \in Deleters
      PROVE  /\ target'[r] = target[r]
             /\ dpc'[r] # dpc[r] => dpc'[r] = "aborted" /\ dpc[r] # "idle"
  <2>1. dpc' = [q \in Deleters |-> IF Host[q] = w /\ dpc[q] \notin DSettled THEN "aborted"
                                   ELSE dpc[q]]
        BY DEF Crash
  <2>2. target' = target
        BY DEF Crash
  <2>3. QED
        BY <2>1, <2>2 DEF DSettled
<1>3. ASSUME NEW d \in Docs
      PROVE  DocInv(d)'
      BY <1>1 DEF IInv, DocInv, RowByStage, ImageByStage, StagedByStage, Unpublished,
                  Exists, UploadStage, TryStage, HandlerStage, JobLocks
<1>4. \A r \in Deleters : HoldsExistingRow(r)' => HoldsExistingRow(r)
      BY <1>0, <1>1, <1>2 DEF HoldsExistingRow, Exists, DLocks, TypeOK
<1>5. \A r \in Deleters : target[r] \in Docs
      BY <1>0 DEF TypeOK
<1>6. DeleteInv'
      BY <1>1, <1>2, <1>4, <1>5 DEF IInv, DeleteInv, UploadStage, JobLocks
<1>7. BlobBehindRow'
      BY <1>1, <1>2 DEF IInv, BlobBehindRow, Exists
<1>8. QED
      BY <1>3, <1>6, <1>7 DEF IInv

-----------------------------------------------------------------------------
(* The theorems. *)

LEMMA InvStep == IInv /\ [Next]_vars => IInv'
<1> SUFFICES ASSUME IInv, [Next]_vars
             PROVE  IInv'
    OBVIOUS
<1>1. TypeOK'
      BY TypeStep DEF IInv
<1>2. CASE \E d \in Docs : UploadBlob(d) \/ Finish(d)
      BY <1>1, <1>2, UploadOrJobStep
<1>3. CASE \E r \in Deleters : Authorize(r) \/ Remove(r)
      BY <1>1, <1>3, DeleteStep
<1>4. CASE \E w \in Workers : Crash(w)
      BY <1>1, <1>4, CrashStep
<1>5. CASE UNCHANGED vars
  <2>1. /\ row' = row /\ chunks' = chunks /\ blob' = blob /\ pc' = pc /\ image' = image
        /\ staged' = staged /\ parsed' = parsed /\ dpc' = dpc /\ target' = target
        BY <1>5 DEF vars
  <2>2. \A d \in Docs : DocInv(d)'
        BY <2>1, DocInvFrame DEF IInv
  <2>3. DeleteInv' /\ BlobBehindRow'
        BY <2>1 DEF IInv, DeleteInv, BlobBehindRow, HoldsExistingRow, Exists
  <2>4. QED
        BY <1>1, <2>2, <2>3 DEF IInv
<1>6. QED
      BY <1>2, <1>3, <1>4, <1>5 DEF Next, AllQuiet

THEOREM Invariance == Spec => []IInv
<1>1. QED
      BY InvInit, InvStep, PTL DEF Spec

\* A session with uncommitted changes to an existing row is the only one, and the
\* row does not vanish under the job: whatever fails, and however many deletes
\* race with the job.
THEOREM LocksExclude == Spec => []SingleWriter
<1>1. IInv => SingleWriter
      BY DEF IInv, DocInv, DeleteInv, SingleWriter
<1>2. QED
      BY <1>1, Invariance, PTL

\* No reader sees a status that its document's chunks do not bear out.
THEOREM StatusHonest == Spec => []ChunksMatchStatus
<1>1. IInv => ChunksMatchStatus
      BY DEF IInv, DocInv, RowByStage, ChunksMatchStatus
<1>2. QED
      BY <1>1, Invariance, PTL

\* A live row without its PDF is always a delete's doing, never an upload's.
THEOREM BlobBeforeRow == Spec => []BlobBehindRow
<1>1. IInv => BlobBehindRow
      BY DEF IInv
<1>2. QED
      BY <1>1, Invariance, PTL

\* No job brings back a document deleted while it was being processed.
THEOREM DeletedForGood == Spec => NoResurrection
<1>1. IInv /\ IInv' /\ [Next]_vars =>
         [\A d \in Docs : Gone(d) => Gone(d)' /\ chunks'[d] = 0]_vars
  <2> SUFFICES ASSUME IInv, IInv', [Next]_vars, NEW d \in Docs, Gone(d)
               PROVE  Gone(d)' /\ chunks'[d] = 0
      OBVIOUS
  <2>1. TypeOK /\ DocInv(d) /\ DocInv(d)'
        BY DEF IInv
  <2>2. Gone(d)'
    <3>1. CASE \E e \in Docs : UploadBlob(e) \/ Finish(e)
      <4>1. PICK e \in Docs : UploadBlob(e) \/ Finish(e)
            BY <3>1
      <4>2. CASE e = d
            BY <2>1, <4>1, <4>2, DocMoves DEF Gone, UploadStage
      <4>3. CASE e # d
            BY <2>1, <4>1, <4>3, DocFrame DEF Gone, Exists
      <4>4. QED
            BY <4>2, <4>3
    <3>2. CASE \E r \in Deleters : Authorize(r) \/ Remove(r)
      <4>1. PICK r \in Deleters : Authorize(r) \/ Remove(r)
            BY <3>2
      <4>2. pc' = pc
            BY <2>1, <4>1, DeleteFrame
      <4>3. row'[d] = row[d] \/ row'[d] = NoRow
            BY <2>1, <4>1, DeleteTables DEF TypeOK, tables
      <4>4. QED
            BY <4>2, <4>3 DEF Gone, Exists, NoRow
    <3>3. CASE \E w \in Workers : Crash(w)
          BY <2>1, <3>3 DEF Crash, Gone, Exists, TypeOK, UploadStage, tables
    <3>4. CASE UNCHANGED vars
          BY <3>4 DEF vars, Gone, Exists
    <3>5. QED
          BY <3>1, <3>2, <3>3, <3>4 DEF Next, AllQuiet
  <2>3. QED
        BY <2>1, <2>2 DEF Gone, Exists, DocInv, RowByStage, RowMatches, TypeOK
<1>2. QED
      BY <1>1, Invariance, PTL DEF Spec, NoResurrection

-----------------------------------------------------------------------------
(* What other sessions see. *)

\* Everything an upload or a job can do to what other sessions see.
LEMMA Publication ==
    ASSUME IInv, IInv', NEW d \in Docs, UploadBlob(d) \/ Finish(d)
    PROVE  \/ /\ row'[d] = row[d] /\ chunks'[d] = chunks[d]
              /\ pc'[d] \in UploadStage <=> pc[d] \in UploadStage
           \/ /\ pc[d] = "inserted" /\ pc'[d] \notin UploadStage
              /\ row[d] = NoRow /\ row'[d] = UploadedRow
              /\ chunks'[d] = chunks[d]
           \/ /\ row[d].status = "UPLOADED"
              /\ row'[d].status \in {"READY", "FAILED"}
           \/ /\ "lostReply" \in Faults
              /\ row[d].status \in {"READY", "FAILED"}
              /\ row'[d].status = "FAILED" /\ chunks'[d] = chunks[d]
<1>1. TypeOK /\ DocInv(d) /\ DocInv(d)'
      BY DEF IInv
<1>2. CASE CommitUpload(d)
  <2>1. row[d] = NoRow /\ image[d] = UploadedRow /\ staged[d] = 0
        BY <1>1, <1>2
           DEF CommitUpload, DocInv, RowByStage, ImageByStage, StagedByStage, UploadStage
  <2>2. chunks[d] = 0
        BY <1>1, <2>1 DEF DocInv, RowByStage, RowMatches, NoRow
  <2>3. QED
        BY <1>1, <1>2, <2>1, <2>2
           DEF CommitUpload, Apply, Goto, TypeOK, tables, UploadStage
<1>3. CASE CommitJob(d)
  <2>1. row[d].status = "UPLOADED" /\ image[d].status \in {"READY", "FAILED"}
        BY <1>1, <1>3
           DEF CommitJob, DocInv, RowByStage, ImageByStage, Unpublished, Exists, NoRow,
               UploadedRow, TryStage, JobLocks
  <2>2. QED
        BY <1>1, <1>3, <2>1 DEF CommitJob, Apply, TypeOK
<1>4. CASE HandlerCommit(d)
  <2>1. /\ pc[d] = "recording" /\ Exists(d)
        /\ image[d].status = "FAILED" /\ staged[d] = chunks[d]
        /\ "lostReply" \notin Faults => Unpublished(d)
        BY <1>1, <1>4
           DEF HandlerCommit, DocInv, RowByStage, ImageByStage, StagedByStage, JobLocks,
               HandlerStage
  <2>2. row'[d].status = "FAILED" /\ chunks'[d] = chunks[d]
        BY <1>1, <1>4, <2>1 DEF HandlerCommit, Apply, TypeOK
  <2>3. row[d].status \in {"UPLOADED", "READY", "FAILED"}
        BY <1>1, <2>1 DEF DocInv, RowByStage, RowMatches, TypeOK, Row, Status, Exists
  <2>4. QED
        BY <2>1, <2>2, <2>3 DEF Unpublished, Exists, NoRow, UploadedRow
<1>5. CASE ~(CommitUpload(d) \/ CommitJob(d) \/ HandlerCommit(d))
  <2>1. row'[d] = row[d] /\ chunks'[d] = chunks[d]
        BY <1>5
           DEF UploadBlob, Finish, Proceed, AskProvider, InsertRow, Enqueue, JobStart,
               MarkProcessing, Download, ExtractAndChunk, EmbedAndStore, Summarise, Raise,
               HandlerLoad, HandlerMarkFailed, tables
  <2>2. pc'[d] \in UploadStage <=> pc[d] \in UploadStage
        BY <1>1, <1>5
           DEF UploadBlob, Finish, Proceed, AskProvider, InsertRow, Enqueue, JobStart,
               MarkProcessing, Download, ExtractAndChunk, EmbedAndStore, Summarise, Raise,
               HandlerLoad, HandlerMarkFailed, GiveUp, Goto, UploadStage, TryStage,
               HandlerStage, TypeOK
  <2>3. QED
        BY <2>1, <2>2
<1>6. QED
      BY <1>2, <1>3, <1>4, <1>5

\* READY and FAILED are final until the document is deleted, if every commit's
\* caller learns what became of it.  A lost reply sends a job that has committed
\* into its handler, which overwrites the outcome with FAILED.
THEOREM FinalOutcome ==
    ASSUME "lostReply" \notin Faults
    PROVE  Spec => OutcomeFinal
<1>1. IInv /\ IInv' /\ [Next]_vars =>
         [\A d \in Docs : row[d].status \in {"READY", "FAILED"} =>
              \/ row'[d] = row[d] /\ chunks'[d] = chunks[d]
              \/ row'[d] = NoRow]_vars
  <2> SUFFICES ASSUME IInv, IInv', [Next]_vars, NEW d \in Docs,
                      row[d].status \in {"READY", "FAILED"}
               PROVE  \/ row'[d] = row[d] /\ chunks'[d] = chunks[d]
                      \/ row'[d] = NoRow
      OBVIOUS
  <2>1. TypeOK
        BY DEF IInv
  <2>2. ASSUME NEW e \in Docs, UploadBlob(e) \/ Finish(e)
        PROVE  row'[d] = row[d] /\ chunks'[d] = chunks[d]
        BY <2>1, <2>2, Publication, DocFrame DEF NoRow, UploadedRow
  <2>3. ASSUME NEW r \in Deleters, Authorize(r) \/ Remove(r)
        PROVE  \/ row'[d] = row[d] /\ chunks'[d] = chunks[d]
               \/ row'[d] = NoRow
        BY <2>1, <2>3, DeleteTables DEF tables, TypeOK
  <2>4. QED
        BY <2>2, <2>3 DEF Next, AllQuiet, Crash, vars, tables
<1>2. QED
      BY <1>1, Invariance, PTL DEF Spec, OutcomeFinal

\* A committed row shows no status but the three a client is promised.
LEMMA PublishedStatus ==
    ASSUME IInv, NEW d \in Docs, Exists(d)
    PROVE  row[d].status \in {"UPLOADED", "READY", "FAILED"}
BY DEF IInv, DocInv, RowByStage, RowMatches, TypeOK, Row, Status, Exists

\* Rows and upload stages as they were leave published as it was.
LEMMA PublishedFrame ==
    ASSUME NEW d \in Docs, row'[d] = row[d],
           pc'[d] \in UploadStage <=> pc[d] \in UploadStage
    PROVE  published'[d] = published[d]
BY DEF published, Exists

\* What other sessions see of uploads, jobs, deletes, crashes and failures is the
\* contract: a document appears once, gets one outcome together with its chunks,
\* loses READY only to a lost reply, and goes for good.
THEOREM ImplementsContract == Spec => ContractSpec
<1>1. Init => Contract!ContractInit
      BY DEF Init, Contract!ContractInit, published, Exists, NoRow, UploadStage
<1>2. IInv /\ IInv' /\ [Next]_vars => [Contract!ContractNext]_(Contract!cvars)
  <2> SUFFICES ASSUME IInv, IInv', [Next]_vars
               PROVE  Contract!ContractNext \/ UNCHANGED <<published, chunks>>
      BY DEF Contract!cvars
  <2> USE DEF Contract!ContractNext, Contract!Create, Contract!Publish,
             Contract!Amend, Contract!Remove
  <2>0. /\ published = [d \in Docs |-> published[d]]
        /\ published' = [d \in Docs |-> published'[d]]
        /\ TypeOK'
        BY DEF published, IInv
  <2>1. TypeOK
        BY DEF IInv
  <2>2. ASSUME NEW d \in Docs, UploadBlob(d) \/ Finish(d)
        PROVE  Contract!ContractNext \/ UNCHANGED <<published, chunks>>
    <3>1. ASSUME NEW e \in Docs \ {d}
          PROVE  published'[e] = published[e] /\ chunks'[e] = chunks[e]
          BY <2>1, <2>2, DocFrame, PublishedFrame
    <3>2. CASE /\ row'[d] = row[d] /\ chunks'[d] = chunks[d]
               /\ pc'[d] \in UploadStage <=> pc[d] \in UploadStage
      <4>1. published'[d] = published[d]
            BY <3>2, PublishedFrame
      <4>2. UNCHANGED <<published, chunks>>
            BY <2>0, <2>1, <3>1, <3>2, <4>1 DEF TypeOK
      <4>3. QED
            BY <4>2
    <3>3. CASE /\ pc[d] = "inserted" /\ pc'[d] \notin UploadStage
               /\ row[d] = NoRow /\ row'[d] = UploadedRow
               /\ chunks'[d] = chunks[d]
      <4>1. published[d] = "absent" /\ published'[d] = "UPLOADED"
            BY <3>3 DEF published, Exists, NoRow, UploadedRow, UploadStage
      <4>2. published' = [published EXCEPT ![d] = "UPLOADED"]
            BY <2>0, <3>1, <4>1
      <4>3. chunks' = chunks
            BY <2>0, <2>1, <3>1, <3>3 DEF TypeOK
      <4>4. QED
            BY <4>1, <4>2, <4>3
    <3>4. CASE row[d].status = "UPLOADED" /\ row'[d].status \in {"READY", "FAILED"}
      <4> DEFINE s == row'[d].status
                 n == chunks'[d]
      <4>1. published[d] = "UPLOADED" /\ published'[d] = s
            BY <3>4 DEF published, Exists
      <4>2. published' = [published EXCEPT ![d] = s] /\ chunks' = [chunks EXCEPT ![d] = n]
            BY <2>0, <2>1, <3>1, <4>1 DEF TypeOK
      <4>3. n \in 0..MaxChunks /\ (s = "READY" => n > 0)
            BY <2>0 DEF IInv, DocInv, RowByStage, RowMatches, TypeOK
      <4>4. Contract!Publish(d)
            BY <3>4, <4>1, <4>2, <4>3
      <4>5. QED
            BY <4>4
    <3>5. CASE /\ "lostReply" \in Faults
               /\ row[d].status \in {"READY", "FAILED"}
               /\ row'[d].status = "FAILED" /\ chunks'[d] = chunks[d]
      <4>1. published[d] = row[d].status /\ published'[d] = "FAILED"
            BY <3>5 DEF published, Exists
      <4>2. published' = [published EXCEPT ![d] = "FAILED"]
            BY <2>0, <3>1, <4>1
      <4>3. chunks' = chunks
            BY <2>0, <2>1, <3>1, <3>5 DEF TypeOK
      <4>4. CASE row[d].status = "READY"
            BY <3>5, <4>1, <4>2, <4>3, <4>4
      <4>5. CASE row[d].status = "FAILED"
            BY <2>0, <4>1, <4>2, <4>3, <4>5
      <4>6. QED
            BY <3>5, <4>4, <4>5
    <3>6. QED
          BY <2>2, <3>2, <3>3, <3>4, <3>5, Publication
  <2>3. ASSUME NEW r \in Deleters, Authorize(r) \/ Remove(r)
        PROVE  Contract!ContractNext \/ UNCHANGED <<published, chunks>>
    <3>1. pc' = pc
          BY <2>1, <2>3, DeleteFrame
    <3>2. CASE UNCHANGED tables
          BY <3>1, <3>2 DEF tables, published, Exists
    <3>3. CASE /\ dpc[r] = "unlinked"
               /\ row' = [row EXCEPT ![target[r]] = NoRow]
               /\ chunks' = [chunks EXCEPT ![target[r]] = 0]
      <4> DEFINE d == target[r]
      <4>1. d \in Docs /\ pc[d] \notin UploadStage
            BY <3>3 DEF IInv, DeleteInv, TypeOK
      <4>2. row' = [row EXCEPT ![d] = NoRow] /\ chunks' = [chunks EXCEPT ![d] = 0]
            BY <3>3
      <4> HIDE DEF d
      <4>3. published'[d] = "deleted"
            BY <2>1, <3>1, <4>1, <4>2 DEF published, Exists, NoRow, TypeOK
      <4>4. \A e \in Docs \ {d} : published'[e] = published[e]
            BY <2>1, <3>1, <4>1, <4>2, PublishedFrame DEF TypeOK
      <4>5. published' = [published EXCEPT ![d] = "deleted"]
            BY <2>0, <4>1, <4>3, <4>4
      <4>6. CASE Exists(d)
        <5>1. published[d] \in {"UPLOADED", "READY", "FAILED"}
              BY <4>1, <4>6, PublishedStatus DEF published
        <5>2. QED
              BY <4>1, <4>2, <4>5, <5>1
      <4>7. CASE ~Exists(d)
        <5>1. published[d] = "deleted"
              BY <4>1, <4>7 DEF published
        <5>2. chunks[d] = 0
              BY <4>1, <4>7 DEF IInv, DocInv, RowByStage, RowMatches, Exists
        <5>3. published' = published /\ chunks' = chunks
              BY <2>0, <2>1, <4>1, <4>2, <4>5, <5>1, <5>2 DEF TypeOK
        <5>4. QED
              BY <5>3
      <4>8. QED
            BY <4>6, <4>7
    <3>4. QED
          BY <2>1, <2>3, <3>2, <3>3, DeleteTables
  <2>4. CASE \E w \in Workers : Crash(w)
    <3>1. \A d \in Docs : pc'[d] \in UploadStage <=> pc[d] \in UploadStage
          BY <2>1, <2>4 DEF Crash, TypeOK, UploadStage
    <3>2. row' = row /\ chunks' = chunks
          BY <2>4 DEF Crash, tables
    <3>3. QED
          BY <3>1, <3>2 DEF published, Exists
  <2>5. CASE UNCHANGED vars
        BY <2>5 DEF vars, published, Exists
  <2>6. QED
        BY <2>2, <2>3, <2>4, <2>5 DEF Next, AllQuiet
<1>3. QED
      BY <1>1, <1>2, Invariance, PTL DEF Spec, ContractSpec, Contract!ContractSpec
=============================================================================
