--------------------------- MODULE KnowledgeProofs ---------------------------
(***************************************************************************)
(* Proofs about the uploads, the indexing jobs, the deletions and the       *)
(* retrieval of Knowledge, for any documents, quota, attempts and retries,  *)
(* any number of search results and any budget.                            *)
(***************************************************************************)
EXTENDS Knowledge, FiniteSetTheorems, VoiceSession, TLAPS

RowTypes ==
    /\ TypeOK
    /\ chunks \in [Docs -> SUBSET Chunk]
    /\ request \in [Docs -> {"new", "created", "indexed", "enqueued", "refused", "failed", "accepted"}]
    /\ deleting \in [Docs -> {"idle", "waiting", "done"}]
    /\ handler \in [Docs -> {"idle", "reading", "working", "processing", "embedded", "indexed", "cleaning", "unsure"}]
    /\ retries \in Nat

\* One upload at most holds the counter's row, and it was below the quota.
Counted ==
    /\ used \in Nat /\ accepted = used /\ used <= Quota
    /\ counter # None => used < Quota
    /\ \A d \in Docs : request[d] \in {"created", "indexed", "enqueued"} => counter = d

\* A document exists only once its upload has committed, and leaves nothing behind.
Uploaded(d) ==
    /\ doc[d] # "absent" => request[d] = "accepted"
    /\ doc[d] = "absent" => chunks[d] = {} /\ d \notin staging
    /\ deleting[d] # "idle" => request[d] = "accepted"
    /\ deleting[d] = "done" => doc[d] = "absent"

\* A run of the handler that works on a document does not find it ready, and from the
\* update of the row on nobody deletes it.
Indexing(d) ==
    /\ handler[d] \in {"working", "processing", "embedded", "cleaning"}
         => request[d] = "accepted" /\ doc[d] # "ready"
    /\ handler[d] = "unsure" => request[d] = "accepted" /\ d \in forgone
    /\ handler[d] \in {"processing", "embedded"} /\ doc[d] # "absent" => lock[d] = "handler"
    /\ handler[d] = "embedded" => doc[d] # "absent"

\* A handler runs for a job that is running; a job that waits has an attempt left,
\* and one that may run again has its bytes or has
\* forgone them.
Queued(d) ==
    /\ handler[d] # "idle" => job[d].status = "running"
    /\ request[d] \in {"new", "created"} => job[d] = NoJob
    /\ job[d].status = "queued" => job[d].attempts < MaxAttempts
    /\ doc[d] \in {"pending", "failed"} /\ job[d].status \in {"queued", "running"} /\ retries = 0
         => d \in staging \cup forgone

Documents == \A d \in Docs : Uploaded(d) /\ Indexing(d) /\ Queued(d)

IInv == RowTypes /\ Counted /\ Documents

\* The initial rows.
LEMMA InitInv == Init => IInv
<1> SUFFICES ASSUME Init PROVE IInv
  OBVIOUS
<1> USE BoundsAssumption DEF Init
<1>1. RowTypes
  <2>1. NoJob \in Job
    BY DEF NoJob, Job
  <2>2. TypeOK
    BY <2>1 DEF TypeOK
  <2> QED
    BY <2>2 DEF RowTypes
<1>2. Counted
  BY DEF Counted
<1>3. Documents
  BY DEF Documents, Uploaded, Indexing, Queued, NoJob
<1> QED
  BY <1>1, <1>2, <1>3 DEF IInv

\* No job has more attempts than it may have.
LEMMA JobAttempts ==
    ASSUME NEW j \in Job
    PROVE  j.attempts \in 0..MaxAttempts
BY DEF Job

\* A job is claimed with one attempt more.
LEMMA ClaimedJob ==
    ASSUME NEW j \in Job, j.attempts < MaxAttempts,
           NEW i, i = [j EXCEPT !.status = "running", !.attempts = @ + 1]
    PROVE  i \in Job /\ i.status = "running"
<1>1. j.attempts + 1 \in 0..MaxAttempts
  BY BoundsAssumption, JobAttempts
<1> QED
  BY <1>1 DEF Job

\* A job is first queued with no attempts.
LEMMA QueuedJob ==
    /\ NoJob \in Job /\ NoJob.status = "none"
    /\ [NoJob EXCEPT !.status = "queued"] \in Job
    /\ [NoJob EXCEPT !.status = "queued"].status = "queued"
    /\ [NoJob EXCEPT !.status = "queued"].attempts = 0
<1>1. NoJob \in Job /\ NoJob.status = "none"
  BY BoundsAssumption DEF NoJob, Job
<1>2. [NoJob EXCEPT !.status = "queued"] = [status |-> "queued", attempts |-> 0, cause |-> "none"]
  BY DEF NoJob
<1> QED
  BY <1>1, <1>2, BoundsAssumption DEF Job

\* Nothing but the document d is concerned.
OnlyConcerns(d) ==
    /\ \A e \in Docs \ {d} :
          /\ doc'[e] = doc[e] /\ chunks'[e] = chunks[e] /\ (e \in staging' <=> e \in staging)
          /\ (e \in forgone' <=> e \in forgone)
          /\ lock'[e] = lock[e] /\ request'[e] = request[e] /\ deleting'[e] = deleting[e]
          /\ job'[e] = job[e] /\ handler'[e] = handler[e]
    /\ retries' \in Nat /\ retries <= retries'

\* A step that concerns one document keeps what holds of the others.
LEMMA OthersKept ==
    ASSUME IInv, NEW d \in Docs, OnlyConcerns(d), Uploaded(d)', Indexing(d)', Queued(d)'
    PROVE  Documents'
BY DEF IInv, RowTypes, OnlyConcerns, Documents, Uploaded, Indexing, Queued

\* An upload, from the reservation to its commit or failure.
LEMMA UploadInv ==
    ASSUME IInv, NEW d \in Docs, Upload(d)
    PROVE  IInv'
<1> USE BoundsAssumption, DocsAssumption DEF IInv
<1>1. RowTypes' /\ OnlyConcerns(d)
  <2> USE DEF RowTypes, TypeOK, OnlyConcerns, docVars, Documents, Queued, NoJob
  <2>1. CASE ingest_document(d)
    BY <2>1 DEF ingest_document, try_reserve
  <2>2. CASE refused(d)
    BY <2>2 DEF refused
  <2>3. CASE submit_sync(d)
    BY <2>3 DEF submit_sync
  <2>4. CASE submit_queue(d)
    <3>1. job[d] \in Job /\ job' = [job EXCEPT ![d] = [job[d] EXCEPT !.status = "queued"]]
      BY <2>4 DEF submit_queue
    <3>2. job[d] = NoJob
      BY <2>4 DEF submit_queue
    <3> QED
      BY <2>4, <3>1, <3>2, QueuedJob DEF submit_queue
  <2>5. CASE ingest_fails(d)
    BY <2>5 DEF ingest_fails
  <2>6. CASE commit_upload(d)
    BY <2>6 DEF commit_upload, store_upload_staging, Indexed
  <2> QED
    BY <2>1, <2>2, <2>3, <2>4, <2>5, <2>6 DEF Upload
<1>2. Counted'
  <2> USE DEF RowTypes, TypeOK, Counted, docVars
  <2>1. CASE ingest_document(d)
    BY <2>1 DEF ingest_document, try_reserve
  <2>2. CASE refused(d)
    BY <2>2 DEF refused
  <2>3. CASE submit_sync(d)
    BY <2>3 DEF submit_sync
  <2>4. CASE submit_queue(d)
    BY <2>4 DEF submit_queue
  <2>5. CASE ingest_fails(d)
    BY <2>5 DEF ingest_fails
  <2>6. CASE commit_upload(d)
    BY <2>6 DEF commit_upload
  <2> QED
    BY <2>1, <2>2, <2>3, <2>4, <2>5, <2>6 DEF Upload
<1>3. Uploaded(d)' /\ Indexing(d)' /\ Queued(d)'
  <2> USE DEF RowTypes, TypeOK, docVars, Documents, Uploaded, Indexing, Queued, NoJob
  <2>1. CASE ingest_document(d)
    BY <2>1 DEF ingest_document
  <2>2. CASE refused(d)
    BY <2>2 DEF refused
  <2>3. CASE submit_sync(d)
    BY <2>3 DEF submit_sync
  <2>4. CASE submit_queue(d)
    BY <2>4 DEF submit_queue
  <2>5. CASE ingest_fails(d)
    BY <2>5 DEF ingest_fails
  <2>6. CASE commit_upload(d)
    BY <2>6 DEF commit_upload, store_upload_staging
  <2> QED
    BY <2>1, <2>2, <2>3, <2>4, <2>5, <2>6 DEF Upload
<1> QED
  BY <1>1, <1>2, <1>3, OthersKept

\* The counter's row is written by uploads only.
LEMMA CountKept ==
    ASSUME Counted, UNCHANGED <<used, accepted, counter, request>>
    PROVE  Counted'
BY DEF Counted

\* A deletion takes a row that nobody has written.
LEMMA DeleteInv ==
    ASSUME IInv, NEW d \in Docs, Delete(d)
    PROVE  IInv'
<1> USE DEF IInv
<1>1. CASE delete_document(d)
  <2>1. RowTypes' /\ OnlyConcerns(d) /\ Counted'
    BY <1>1, CountKept DEF delete_document, RowTypes, TypeOK, OnlyConcerns, docVars
  <2>2. Uploaded(d)' /\ Indexing(d)' /\ Queued(d)'
    BY <1>1 DEF delete_document, get_owned_document, docVars, RowTypes, Documents, Uploaded, Indexing, Queued
  <2> QED
    BY <2>1, <2>2, OthersKept
<1>2. CASE commit_delete(d)
  <2>1. RowTypes' /\ OnlyConcerns(d) /\ Counted'
    BY <1>2, CountKept DEF commit_delete, delete_upload_staging, RowTypes, TypeOK, OnlyConcerns
  <2>2. Uploaded(d)' /\ Indexing(d)' /\ Queued(d)'
    BY <1>2 DEF commit_delete, delete_upload_staging, RowTypes, TypeOK, Documents, Uploaded, Indexing, Queued, None
  <2> QED
    BY <2>1, <2>2, OthersKept
<1> QED
  BY <1>1, <1>2 DEF Delete

\* The handler's work on a document, before its job is settled, and the retention of bytes.
LEMMA WorkInv ==
    ASSUME IInv, NEW d \in Docs,
           \/ already_indexed(d) \/ fetch_upload_staging(d) \/ set_processing(d) \/ embed(d)
           \/ commit_index(d) \/ index_fails(d) \/ purge_staging(d)
    PROVE  IInv'
<1> USE DEF IInv
<1>1. RowTypes' /\ OnlyConcerns(d) /\ UNCHANGED <<used, accepted, counter, request>>
  <2> USE DEF RowTypes, TypeOK, OnlyConcerns, docVars
  <2>1. CASE already_indexed(d)
    BY <2>1 DEF already_indexed, delete_upload_staging
  <2>2. CASE fetch_upload_staging(d)
    BY <2>2 DEF fetch_upload_staging
  <2>3. CASE set_processing(d)
    BY <2>3 DEF set_processing, None
  <2>4. CASE embed(d)
    BY <2>4 DEF embed, Storable
  <2>5. CASE commit_index(d)
    BY <2>5 DEF commit_index, delete_upload_staging, Unlocked, Indexed
  <2>6. CASE index_fails(d)
    BY <2>6 DEF index_fails, Unlocked
  <2>7. CASE purge_staging(d)
    BY <2>7 DEF purge_staging, delete_upload_staging
  <2> QED
    BY <2>1, <2>2, <2>3, <2>4, <2>5, <2>6, <2>7
<1>2. Uploaded(d)' /\ Indexing(d)' /\ Queued(d)'
  <2> USE DEF RowTypes, TypeOK, docVars, Documents, Uploaded, Indexing, Queued
  <2>1. CASE already_indexed(d)
    BY <2>1 DEF already_indexed, delete_upload_staging
  <2>2. CASE fetch_upload_staging(d)
    BY <2>2 DEF fetch_upload_staging
  <2>3. CASE set_processing(d)
    BY <2>3 DEF set_processing, None
  <2>4. CASE embed(d)
    BY <2>4 DEF embed, Storable
  <2>5. CASE commit_index(d)
    BY <2>5 DEF commit_index, delete_upload_staging, Unlocked, Indexed
  <2>6. CASE index_fails(d)
    BY <2>6 DEF index_fails, Unlocked
  <2>7. CASE purge_staging(d)
    BY <2>7 DEF purge_staging, delete_upload_staging
  <2> QED
    BY <2>1, <2>2, <2>3, <2>4, <2>5, <2>6, <2>7
<1> QED
  BY <1>1, <1>2, CountKept, OthersKept

\* A step that changes the row of the job, ends or begins the run of its handler, and leaves the
\* document ready if it was.
LEMMA SettleInv ==
    ASSUME IInv, NEW d \in Docs, job'[d] \in Job, job' = [job EXCEPT ![d] = job'[d]],
           handler[d] # "idle", handler' = [handler EXCEPT ![d] = "idle"],
           lock' = lock \/ Unlocked(d),
           staging' = staging \/ (staging' = staging \ {d} /\ job'[d].status = "dead"),
           job'[d].status \in {"queued", "succeeded", "dead"},
           job'[d].status = "queued" => job'[d].attempts < MaxAttempts,
           \/ UNCHANGED <<doc, chunks>>
           \/ /\ handler[d] \in {"cleaning", "unsure"}
              /\ doc' = [doc EXCEPT ![d] = IF @ = "absent" THEN @ ELSE "failed"]
              /\ chunks' = [chunks EXCEPT ![d] = {}],
           UNCHANGED <<used, accepted, counter, request, deleting, retries, forgone>>
    PROVE  IInv'
<1> USE DEF IInv
<1>1. RowTypes' /\ OnlyConcerns(d)
  BY DEF RowTypes, TypeOK, OnlyConcerns, Unlocked
<1>2. Uploaded(d)' /\ Indexing(d)'
  BY DEF RowTypes, TypeOK, Documents, Uploaded, Indexing
<1>3. job[d].status = "running" /\ request[d] \notin {"new", "created"}
  BY QueuedJob DEF Documents, Queued
<1>4. Queued(d)'
  BY <1>3 DEF RowTypes, TypeOK, Documents, Uploaded, Indexing, Queued
<1> QED
  BY <1>1, <1>2, <1>4, CountKept, OthersKept

\* The job is claimed, settled, lost or retried.
LEMMA JobInv ==
    ASSUME IInv, NEW d \in Docs,
           \/ claim(d) \/ not_indexable(d) \/ cleanup_failed_indexing(d) \/ complete(d) \/ lost(d)
           \/ retry_dead_letter(d)
    PROVE  IInv'
<1> USE DEF IInv
<1>1. job[d] \in Job /\ job \in [Docs -> Job] /\ job[d].attempts \in Nat /\ MaxAttempts \in Nat
  BY BoundsAssumption, JobAttempts DEF RowTypes, TypeOK
<1>2. ASSUME NEW s \in {"queued", "succeeded", "dead"},
             NEW k \in {"none", "document not found", "bytes not found", "indexing failed", "lost"},
             Settled(d, s, k)
      PROVE  /\ job'[d] \in Job /\ job' = [job EXCEPT ![d] = job'[d]]
             /\ job'[d].status = s /\ job'[d].attempts = job[d].attempts
  <2>1. job' = [job EXCEPT ![d] = [job[d] EXCEPT !.status = s, !.cause = k]]
    BY <1>1, <1>2 DEF Settled
  <2>2. job'[d] = [job[d] EXCEPT !.status = s, !.cause = k]
    BY <1>1, <2>1
  <2>3. job' = [job EXCEPT ![d] = job'[d]]
    BY <2>1, <2>2
  <2> DEFINE j == job[d]
  <2>4. j \in Job /\ job'[d] = [j EXCEPT !.status = s, !.cause = k]
    BY <1>1, <2>2
  <2> HIDE DEF j
  <2>5. job'[d] \in Job /\ job'[d].status = s /\ job'[d].attempts = j.attempts
    BY <2>4 DEF Job
  <2> QED
    BY <2>3, <2>5 DEF j
<1>3. CASE claim(d)
  <2>1. /\ job[d].status = "queued" /\ job[d].attempts < MaxAttempts /\ handler[d] = "idle"
        /\ job' = [job EXCEPT ![d] = [job[d] EXCEPT !.status = "running", !.attempts = @ + 1]]
        /\ handler' = [handler EXCEPT ![d] = "reading"]
        /\ UNCHANGED <<docVars, lock, counter, request, deleting, retries, forgone>>
    BY <1>1, <1>3 DEF claim, Documents, Queued
  <2>2. job'[d] = [job[d] EXCEPT !.status = "running", !.attempts = @ + 1]
    BY <1>1, <2>1
  <2>3. job'[d] \in Job /\ job'[d].status = "running" /\ job' = [job EXCEPT ![d] = job'[d]]
    BY <1>1, <2>1, <2>2, ClaimedJob
  <2>4. RowTypes' /\ OnlyConcerns(d)
    BY <2>1, <2>3 DEF RowTypes, TypeOK, OnlyConcerns, docVars
  <2>5. request[d] \notin {"new", "created"}
    BY <2>1, QueuedJob DEF Documents, Queued
  <2>6. Uploaded(d)' /\ Indexing(d)' /\ Queued(d)'
    BY <2>1, <2>3, <2>5 DEF RowTypes, TypeOK, docVars, Documents, Uploaded, Indexing, Queued
  <2> QED
    BY <2>1, <2>4, <2>6, CountKept, OthersKept DEF docVars
<1>4. CASE not_indexable(d)
  <2>1. /\ job'[d] \in Job /\ job' = [job EXCEPT ![d] = job'[d]] /\ job'[d].status = "dead"
    BY <1>2, <1>4 DEF not_indexable
  <2>2. /\ handler[d] # "idle" /\ handler' = [handler EXCEPT ![d] = "idle"]
        /\ UNCHANGED <<docVars, lock, counter, request, deleting, retries, forgone>>
    BY <1>4 DEF not_indexable
  <2> QED
    BY <2>1, <2>2, SettleInv DEF docVars
<1>5. CASE cleanup_failed_indexing(d)
  <2>1. /\ job'[d] \in Job /\ job' = [job EXCEPT ![d] = job'[d]]
        /\ job'[d].status = (IF Exhausted(d) THEN "dead" ELSE "queued")
        /\ job'[d].attempts = job[d].attempts
    BY <1>2, <1>5 DEF cleanup_failed_indexing
  <2>2. ~Exhausted(d) => job'[d].attempts < MaxAttempts
    BY <1>1, <2>1 DEF Exhausted
  <2>3. /\ handler[d] \in {"cleaning", "unsure"} /\ handler' = [handler EXCEPT ![d] = "idle"]
        /\ doc' = [doc EXCEPT ![d] = IF @ = "absent" THEN @ ELSE "failed"]
        /\ chunks' = [chunks EXCEPT ![d] = {}]
        /\ staging' = IF Exhausted(d) THEN staging \ {d} ELSE staging
        /\ UNCHANGED <<used, accepted, lock, counter, request, deleting, retries, forgone>>
    BY <1>5 DEF cleanup_failed_indexing, delete_upload_staging
  <2> QED
    BY <2>1, <2>2, <2>3, SettleInv
<1>6. CASE complete(d)
  <2>1. /\ job'[d] \in Job /\ job' = [job EXCEPT ![d] = job'[d]] /\ job'[d].status = "succeeded"
    BY <1>2, <1>6 DEF complete
  <2>2. /\ handler[d] # "idle" /\ handler' = [handler EXCEPT ![d] = "idle"]
        /\ UNCHANGED <<docVars, lock, counter, request, deleting, retries, forgone>>
    BY <1>6 DEF complete
  <2> QED
    BY <2>1, <2>2, SettleInv DEF docVars
<1>7. CASE lost(d)
  <2>1. /\ job'[d] \in Job /\ job' = [job EXCEPT ![d] = job'[d]]
        /\ job'[d].status = (IF Exhausted(d) THEN "dead" ELSE "queued")
        /\ job'[d].attempts = job[d].attempts
    BY <1>2, <1>7 DEF lost
  <2>2. ~Exhausted(d) => job'[d].attempts < MaxAttempts
    BY <1>1, <2>1 DEF Exhausted
  <2>3. /\ handler[d] # "idle" /\ handler' = [handler EXCEPT ![d] = "idle"] /\ Unlocked(d)
        /\ UNCHANGED <<docVars, counter, request, deleting, retries, forgone>>
    BY <1>7 DEF lost
  <2> QED
    BY <2>1, <2>2, <2>3, SettleInv DEF docVars
<1>8. CASE retry_dead_letter(d)
  <2>1. /\ job' = [job EXCEPT ![d] = [NoJob EXCEPT !.status = "queued"]]
        /\ job[d].status = "dead" /\ retries' = retries + 1
        /\ UNCHANGED <<docVars, lock, counter, request, deleting, handler, forgone>>
    BY <1>8 DEF retry_dead_letter
  <2>2. /\ job'[d] \in Job /\ job' = [job EXCEPT ![d] = job'[d]]
        /\ job'[d].status = "queued" /\ job'[d].attempts = 0
    BY <1>1, <2>1, QueuedJob
  <2>3. RowTypes' /\ OnlyConcerns(d)
    BY <2>1, <2>2 DEF RowTypes, TypeOK, OnlyConcerns, docVars
  <2>4. handler[d] = "idle" /\ request[d] \notin {"new", "created"}
    BY <2>1, QueuedJob DEF Documents, Queued
  <2>5. Uploaded(d)' /\ Indexing(d)' /\ Queued(d)'
    BY <2>1, <2>2, <2>4, BoundsAssumption
       DEF RowTypes, docVars, Documents, Uploaded, Indexing, Queued
  <2> QED
    BY <2>1, <2>3, <2>5, CountKept, OthersKept DEF docVars
<1> QED
  BY <1>3, <1>4, <1>5, <1>6, <1>7, <1>8

\* A question reads only.
LEMMA AskKeeps ==
    Ask => UNCHANGED <<runner, docVars, lock, counter, request, deleting, job, handler, retries, forgone>>
BY DEF Ask, ask, similarity_search, retrieve, lexical_search, expand, rerank, _maybe_rerank,
   _filter_guarded_candidates, _filter_guarded_chunks, _empty_response, build, compress, answer

\* Every step keeps the invariant.
LEMMA NextInv == IInv /\ [Next]_vars => IInv'
<1> SUFFICES ASSUME IInv, [Next]_vars PROVE IInv'
  OBVIOUS
<1>1. CASE UNCHANGED <<runner, docVars, lock, counter, request, deleting, job, handler, retries, forgone>>
  BY <1>1 DEF docVars, IInv, RowTypes, TypeOK, Counted, Documents, Uploaded, Indexing, Queued
<1>2. CASE UNCHANGED vars
  BY <1>1, <1>2 DEF vars
<1> QED
  BY <1>1, <1>2, UploadInv, DeleteInv, WorkInv, JobInv, AskKeeps DEF Next, Handler

\* The inductive invariant holds of every behaviour.
LEMMA KnowledgeInv == Spec => []IInv
BY InitInv, NextInv, PTL DEF Spec

\* However many uploads are under way at once and whichever of them fail, no more are accepted in
\* a day than the quota.
THEOREM QuotaIsNeverExceeded == Spec => []UploadsWithinQuota
<1>1. IInv => UploadsWithinQuota
  BY DEF IInv, Counted, UploadsWithinQuota
<1> QED
  BY <1>1, KnowledgeInv, PTL

\* Rows keep their types, and no failed or lost run of a job takes the bytes that a later attempt
\* needs: they go early only by the retention or by a commit that took effect and raised.
THEOREM BytesAreKept == Spec => []BytesKeptForRetry
<1>1. IInv => BytesKeptForRetry
  BY DEF IInv, RowTypes, Documents, Queued, BytesKeptForRetry
<1> QED
  BY <1>1, KnowledgeInv, PTL

\* A document that is ready stays ready with its chunks, whatever runs of its job follow, until
\* its owner deletes it or the run whose commit took effect and raised cleans up.
THEOREM ReadyIsKept == Spec => ReadyStaysReady
<1> DEFINE Kept == \A d \in Docs : doc[d] = "ready" =>
                     \/ doc'[d] = "ready" /\ chunks'[d] = chunks[d]
                     \/ doc'[d] = "absent" /\ deleting[d] = "waiting"
                     \/ handler[d] = "unsure"
<1>1. ASSUME IInv, [Next]_vars PROVE [Kept]_vars
  <2>1. ASSUME NEW d \in Docs, Upload(d) PROVE Kept
    BY <1>1, <2>1 DEF Upload, ingest_document, refused, submit_sync, submit_queue, ingest_fails,
       commit_upload, docVars, IInv, RowTypes, TypeOK, Documents, Uploaded
  <2>2. ASSUME NEW d \in Docs, Delete(d) PROVE Kept
    BY <1>1, <2>2 DEF Delete, delete_document, commit_delete, docVars, IInv, RowTypes, TypeOK
  <2>3. ASSUME NEW d \in Docs, commit_index(d) \/ cleanup_failed_indexing(d) PROVE Kept
    BY <1>1, <2>3 DEF commit_index, cleanup_failed_indexing, IInv, RowTypes, TypeOK, Documents, Indexing
  <2>4. ASSUME NEW d \in Docs,
               \/ claim(d) \/ not_indexable(d) \/ already_indexed(d) \/ fetch_upload_staging(d)
               \/ set_processing(d) \/ embed(d) \/ index_fails(d) \/ complete(d) \/ lost(d)
               \/ retry_dead_letter(d) \/ purge_staging(d)
        PROVE Kept
    BY <2>4 DEF claim, not_indexable, already_indexed, fetch_upload_staging, set_processing, embed,
       index_fails, complete, lost, retry_dead_letter, purge_staging, docVars
  <2>5. Ask => Kept
    BY AskKeeps DEF docVars
  <2> QED
    BY <1>1, <2>1, <2>2, <2>3, <2>4, <2>5 DEF Next, Handler
<1> QED
  BY <1>1, KnowledgeInv, PTL DEF Spec, ReadyStaysReady

\* What a document leaves behind once it is gone, and whether it has come back.
DeletedForGood ==
    \A d \in Docs :
        /\ deleting[d] = "done" => doc[d] = "absent"
        /\ doc[d] = "absent" => chunks[d] = {} /\ d \notin staging

\* A deleted document leaves neither chunks nor bytes and is not brought back by a run of the
\* indexing job that was under way.
THEOREM DeletionIsFinal == Spec => []DeletedForGood
<1>1. IInv => DeletedForGood
  BY DEF IInv, Documents, Uploaded, DeletedForGood
<1> QED
  BY <1>1, KnowledgeInv, PTL

-----------------------------------------------------------------------------
(* Retrieval *)

\* What a search returns, and what the context is built from.
Texts == Children \cup {"parent"}
Hits  == Docs \X Texts
Block == [doc : Docs, chunk : Texts, text : Texts]

Query == [pc : {"idle", "asked", "dense", "found", "expanded", "ranked", "guarded", "cited"},
          mode : {"none", "plain", "advanced"},
          dense : Seq(Hits), lexical : Seq(Hits), blocks : Seq(Block)]

Same(b, c) == b.doc = c.doc /\ b.text = c.text

Distinct(b) == \A i, j \in 1 .. Len(b) : i # j => ~Same(b[i], b[j])

\* A search ranks a row once; from the expansion on no text of a document is there twice.
QueryInv ==
    /\ query \in Query
    /\ query.pc = "dense" => \A i, j \in 1 .. Len(query.dense) : i # j => query.dense[i] # query.dense[j]
    /\ query.pc \in {"expanded", "ranked", "guarded", "cited"} => Distinct(query.blocks)

\* An enumeration of a finite set is a sequence without repetition.
LEMMA Enumeration ==
  ASSUME NEW S, IsFiniteSet(S), NEW f \in SetToSeqs(S)
  PROVE  /\ f \in Seq(S) /\ Len(f) \in Nat /\ DOMAIN f = 1 .. Len(f)
         /\ \A i \in 1 .. Len(f) : f[i] \in S
         /\ \A i, j \in 1 .. Len(f) : i # j => f[i] # f[j]
<1>1. Cardinality(S) \in Nat
  BY FS_CardinalityType
<1>2. f \in [1 .. Cardinality(S) -> S] /\ \A i, j \in 1 .. Cardinality(S) : i # j => f[i] # f[j]
  BY DEF SetToSeqs
<1>3. f \in Seq(S) /\ Len(f) = Cardinality(S)
  BY <1>1, <1>2
<1> QED
  BY <1>1, <1>2, <1>3

\* A selection by position keeps elements apart that differ.
LEMMA Selection ==
  ASSUME NEW B, NEW s, NEW K, IsFiniteSet(K), \A k \in K : s[k] \in B, NEW r \in Picked(s, K)
  PROVE  /\ r \in Seq(B) /\ Len(r) \in Nat /\ DOMAIN r = 1 .. Len(r)
         /\ \A i \in 1 .. Len(r) : \E x \in K : r[i] = s[x]
         /\ \A i, j \in 1 .. Len(r) : i # j => \E x, y \in K : x # y /\ r[i] = s[x] /\ r[j] = s[y]
<1>1. PICK at \in SetToSeqs(K) : r = [k \in DOMAIN at |-> s[at[k]]]
  BY DEF Picked
<1>2. /\ at \in Seq(K) /\ Len(at) \in Nat /\ DOMAIN at = 1 .. Len(at)
      /\ \A i \in 1 .. Len(at) : at[i] \in K
      /\ \A i, j \in 1 .. Len(at) : i # j => at[i] # at[j]
  BY Enumeration
<1>3. r \in [1 .. Len(at) -> B]
  BY <1>1, <1>2
<1>4. r \in Seq(B) /\ Len(r) = Len(at)
  BY <1>2, <1>3
<1> QED
  BY <1>1, <1>2, <1>3, <1>4

LEMMA RankedRows ==
  ASSUME NEW rows, NEW s \in Ranked(rows)
  PROVE  /\ s \in Seq(rows)
         /\ \A i, j \in 1 .. Len(s) : i # j => s[i] # s[j]
<1>1. PICK best \in SUBSET rows : IsFiniteSet(best) /\ s \in SetToSeqs(best)
  BY DEF Ranked
<1>2. /\ s \in Seq(best) /\ Len(s) \in Nat /\ DOMAIN s = 1 .. Len(s)
      /\ \A i \in 1 .. Len(s) : s[i] \in best
      /\ \A i, j \in 1 .. Len(s) : i # j => s[i] # s[j]
  BY <1>1, Enumeration
<1>3. s \in [1 .. Len(s) -> rows]
  BY <1>1, <1>2
<1> QED
  BY <1>2, <1>3

LEMMA RowsAreHits == ASSUME NEW S \in SUBSET Chunk PROVE Rows(S) \subseteq Hits
BY DEF Rows, Chunk, Hits, Texts

\* The members of a sequence are finitely many.
LEMMA FiniteRange ==
  ASSUME NEW B, NEW s \in Seq(B)
  PROVE  IsFiniteSet(Range(s)) /\ Range(s) \subseteq B
<1>1. Len(s) \in Nat /\ s \in [1 .. Len(s) -> B]
  OBVIOUS
<1>2. IsFiniteSet(1 .. Len(s))
  BY <1>1, FS_Interval
<1>3. s \in Surjection(1 .. Len(s), Range(s))
  BY <1>1 DEF Surjection, Range
<1>4. IsFiniteSet(Range(s))
  BY <1>2, <1>3, FS_Surjection
<1> QED
  BY <1>1, <1>4 DEF Range

LEMMA FusedHits ==
  ASSUME NEW dense \in Seq(Hits), NEW lexical \in Seq(Hits),
         NEW s \in reciprocal_rank_fusion(dense, lexical)
  PROVE  s \in Seq(Hits)
<1> DEFINE all == Range(dense) \cup Range(lexical)
<1>1. IsFiniteSet(all) /\ all \subseteq Hits
  BY FiniteRange, FS_Union
<1>2. s \in SetToSeqs(all)
  BY DEF reciprocal_rank_fusion
<1>3. s \in Seq(all)
  BY <1>1, <1>2, Enumeration
<1> HIDE DEF all
<1>4. Len(s) \in Nat /\ s \in [1 .. Len(s) -> Hits]
  BY <1>1, <1>3
<1> QED
  BY <1>4

\* Part of a selection from distinct blocks.
LEMMA PickedDistinct ==
  ASSUME NEW s, NEW K, IsFiniteSet(K), \A k \in K : s[k] \in Block,
         \A x, y \in K : x # y => ~Same(s[x], s[y]),
         NEW r \in Picked(s, K)
  PROVE  r \in Seq(Block) /\ Distinct(r)
<1>1. /\ r \in Seq(Block) /\ Len(r) \in Nat
      /\ \A i, j \in 1 .. Len(r) : i # j => \E x, y \in K : x # y /\ r[i] = s[x] /\ r[j] = s[y]
  BY Selection
<1> QED
  BY <1>1 DEF Distinct

\* One block of each document: the parents' texts are apart because their documents are.
LEMMA ParentsDistinct ==
  ASSUME NEW cands \in Seq(Hits), NEW r \in expand_parents(cands)
  PROVE  r \in Seq(Block) /\ Distinct(r)
<1> DEFINE with_parent(x) ==
             [doc |-> x[1], chunk |-> x[2],
              text |-> IF get_chunk_contents_by_ids(x[1]) # {} THEN "parent" ELSE x[2]]
           s == [i \in DOMAIN cands |-> with_parent(cands[i])]
           K == { i \in DOMAIN cands : \A j \in 1 .. (i - 1) : cands[j][1] # cands[i][1] }
<1>1. r \in Picked(s, K)
  BY DEF expand_parents
<1>2. Len(cands) \in Nat /\ DOMAIN cands = 1 .. Len(cands) /\ K \in SUBSET (1 .. Len(cands))
  OBVIOUS
<1>3. IsFiniteSet(K)
  <2>1. IsFiniteSet(1 .. Len(cands))
    BY <1>2, FS_Interval
  <2> HIDE DEF K
  <2> QED
    BY <1>2, <2>1, FS_Subset
<1>4. \A k \in K : s[k] \in Block /\ s[k].doc = cands[k][1]
  BY <1>2 DEF Block, Hits, Texts
<1>5. ASSUME NEW x \in K, NEW y \in K, x # y PROVE ~Same(s[x], s[y])
  <2>1. x \in Int /\ y \in Int /\ x >= 1 /\ y >= 1
    BY <1>2
  <2>2. cands[x][1] # cands[y][1]
    <3>1. CASE x < y
      BY <2>1, <3>1
    <3>2. CASE y < x
      BY <2>1, <3>2
    <3> QED
      BY <1>5, <2>1, <3>1, <3>2
  <2> QED
    BY <1>4, <2>2 DEF Same
<1> HIDE DEF s, K
<1>6. \A k \in K : s[k] \in Block
  BY <1>4
<1> QED
  BY <1>1, <1>3, <1>5, <1>6, PickedDistinct

LEMMA PrefixDistinct ==
  ASSUME NEW b \in Seq(Block), Distinct(b), NEW n \in 0 .. Len(b)
  PROVE  SubSeq(b, 1, n) \in Seq(Block) /\ Distinct(SubSeq(b, 1, n))
<1>1. /\ SubSeq(b, 1, n) \in Seq(Block) /\ Len(SubSeq(b, 1, n)) = n
      /\ \A i \in 1 .. n : SubSeq(b, 1, n)[i] = b[i]
  OBVIOUS
<1> QED
  BY <1>1 DEF Distinct

\* The reranker names a candidate once.
LEMMA RerankDistinct ==
  ASSUME NEW cands \in Seq(Block), Distinct(cands), NEW n \in Nat,
         NEW results \in [1 .. n -> Int], NEW r \in _apply_rerank_results(cands, results)
  PROVE  r \in Seq(Block) /\ Distinct(r)
<1> DEFINE K == { i \in DOMAIN results : /\ results[i] \in DOMAIN cands
                                         /\ \A j \in 1 .. (i - 1) : results[j] # results[i] }
           s == [i \in K |-> cands[results[i]]]
<1>1. PICK q \in Picked(s, K) : r = SubSeq(q, 1, IF Len(q) < TopN THEN Len(q) ELSE TopN)
  BY DEF _apply_rerank_results, TopOf
<1>2. K \in SUBSET (1 .. n) /\ DOMAIN cands = 1 .. Len(cands)
  OBVIOUS
<1>3. IsFiniteSet(K)
  <2>1. IsFiniteSet(1 .. n)
    BY FS_Interval
  <2> HIDE DEF K
  <2> QED
    BY <1>2, <2>1, FS_Subset
<1>4. \A k \in K : s[k] \in Block /\ s[k] = cands[results[k]] /\ results[k] \in 1 .. Len(cands)
  BY <1>2
<1>5. ASSUME NEW x \in K, NEW y \in K, x # y PROVE ~Same(s[x], s[y])
  <2>1. x \in Int /\ y \in Int /\ x >= 1 /\ y >= 1
    BY <1>2
  <2>2. results[x] # results[y]
    <3>1. CASE x < y
      BY <2>1, <3>1
    <3>2. CASE y < x
      BY <2>1, <3>2
    <3> QED
      BY <1>5, <2>1, <3>1, <3>2
  <2> QED
    BY <1>4, <2>2 DEF Distinct
<1> HIDE DEF s, K
<1>6. q \in Seq(Block) /\ Distinct(q)
  BY <1>3, <1>4, <1>5, PickedDistinct
<1>7. (IF Len(q) < TopN THEN Len(q) ELSE TopN) \in 0 .. Len(q)
  <2>1. Len(q) \in Nat
    BY <1>6
  <2> QED
    BY <2>1, BoundsAssumption DEF BoundsAssumption
<1> QED
  BY <1>1, <1>6, <1>7, PrefixDistinct

LEMMA RetrieveDistinct ==
  ASSUME NEW s \in Seq(Hits), \A i, j \in 1 .. Len(s) : i # j => s[i] # s[j], NEW b,
         b = [i \in DOMAIN s |-> [doc |-> s[i][1], chunk |-> s[i][2], text |-> s[i][2]]]
  PROVE  b \in Seq(Block) /\ Distinct(b)
<1>1. Len(s) \in Nat /\ DOMAIN s = 1 .. Len(s) /\ \A i \in 1 .. Len(s) : s[i] \in Docs \X Texts
  BY DEF Hits
<1>2. b \in [1 .. Len(s) -> Block]
  BY <1>1 DEF Block
<1>3. b \in Seq(Block) /\ Len(b) = Len(s)
  BY <1>1, <1>2
<1>4. \A i, j \in 1 .. Len(s) : b[i].doc = s[i][1] /\ b[i].text = s[i][2] /\ s[i] = <<s[i][1], s[i][2]>>
  BY <1>1
<1>5. ASSUME NEW i \in 1 .. Len(s), NEW j \in 1 .. Len(s), i # j PROVE ~Same(b[i], b[j])
  <2>1. s[i] # s[j]
    BY <1>5
  <2>2. s[i][1] # s[j][1] \/ s[i][2] # s[j][2]
    BY <1>4, <2>1
  <2> QED
    BY <1>4, <2>2 DEF Same
<1> QED
  BY <1>3, <1>5 DEF Distinct

\* The reranker's scores put the blocks in another order.
LEMMA PermutedDistinct ==
  ASSUME NEW r \in Seq(Block), Distinct(r), NEW rank \in Bijection(DOMAIN r, DOMAIN r),
         NEW b, b = [k \in DOMAIN r |-> r[rank[k]]]
  PROVE  b \in Seq(Block) /\ Distinct(b)
<1>1. Len(r) \in Nat /\ DOMAIN r = 1 .. Len(r) /\ \A i \in 1 .. Len(r) : r[i] \in Block
  OBVIOUS
<1>2. /\ rank \in [1 .. Len(r) -> 1 .. Len(r)]
      /\ \A i, j \in 1 .. Len(r) : i # j => rank[i] # rank[j]
  BY <1>1 DEF Bijection, Injection, IsInjective
<1>3. b \in [1 .. Len(r) -> Block]
  BY <1>1, <1>2
<1>4. b \in Seq(Block) /\ Len(b) = Len(r)
  BY <1>1, <1>3
<1>5. \A i, j \in 1 .. Len(r) : i # j => ~Same(b[i], b[j])
  BY <1>1, <1>2 DEF Distinct
<1> QED
  BY <1>4, <1>5 DEF Distinct

LEMMA GuardedDistinct ==
  ASSUME QueryInv, query.pc = "ranked", NEW kept \in Guarded
  PROVE  kept \in Seq(Block) /\ Distinct(kept)
<1>1. query.blocks \in Seq(Block) /\ Distinct(query.blocks)
  BY DEF QueryInv, Query
<1>2. PICK K \in SUBSET DOMAIN query.blocks : kept \in Picked(query.blocks, K)
  BY DEF Guarded
<1>3. Len(query.blocks) \in Nat /\ DOMAIN query.blocks = 1 .. Len(query.blocks)
  BY <1>1
<1>4. IsFiniteSet(1 .. Len(query.blocks))
  BY <1>3, FS_Interval
<1>5. IsFiniteSet(K)
  BY <1>2, <1>3, <1>4, FS_Subset
<1>6. /\ \A k \in K : query.blocks[k] \in Block
      /\ \A x, y \in K : x # y => ~Same(query.blocks[x], query.blocks[y])
  BY <1>1, <1>2, <1>3 DEF Distinct
<1> QED
  BY <1>2, <1>5, <1>6, PickedDistinct

-----------------------------------------------------------------------------
(* Every step *)

LEMMA QueryReset == query' = NoQuery => QueryInv'
<1>1. NoQuery \in Query /\ NoQuery.pc = "idle"
  BY DEF NoQuery, Query
<1> QED
  BY <1>1 DEF QueryInv

LEMMA AskedKeeps == QueryInv /\ ask => QueryInv'
<1> SUFFICES ASSUME QueryInv, ask PROVE QueryInv'
  OBVIOUS
<1>1. PICK mode \in {"advanced", "plain"} : query' = [query EXCEPT !.pc = "asked", !.mode = mode]
  BY DEF ask
<1>2. query' \in Query /\ query'.pc = "asked"
  BY <1>1 DEF QueryInv, Query
<1> QED
  BY <1>2 DEF QueryInv

LEMMA SimilarityKeeps == QueryInv /\ similarity_search => QueryInv'
<1> SUFFICES ASSUME QueryInv, similarity_search PROVE QueryInv'
  OBVIOUS
<1> DEFINE rows == Rows({c \in Chunk : c.embedded})
<1>1. PICK s \in Ranked(rows) : query' = [query EXCEPT !.pc = "dense", !.dense = s]
  BY DEF similarity_search
<1>2. rows \subseteq Hits
  BY RowsAreHits
<1> HIDE DEF rows
<1>3. s \in Seq(rows) /\ \A i, j \in 1 .. Len(s) : i # j => s[i] # s[j]
  BY <1>1, RankedRows
<1>4. s \in Seq(Hits)
  BY <1>2, <1>3
<1>5. query' \in Query /\ query'.pc = "dense" /\ query'.dense = s
  BY <1>1, <1>4 DEF QueryInv, Query
<1> QED
  BY <1>3, <1>5 DEF QueryInv

LEMMA LexicalKeeps == QueryInv /\ lexical_search => QueryInv'
<1> SUFFICES ASSUME QueryInv, lexical_search PROVE QueryInv'
  OBVIOUS
<1>1. PICK rows \in SUBSET Rows({c \in Chunk : c.of # "parent"}) :
        \E s \in Ranked(rows) : query' = [query EXCEPT !.pc = "found", !.lexical = s]
  BY DEF lexical_search
<1>2. PICK s \in Ranked(rows) : query' = [query EXCEPT !.pc = "found", !.lexical = s]
  BY <1>1
<1>3. rows \subseteq Hits
  BY RowsAreHits
<1>4. s \in Seq(Hits)
  BY <1>3, RankedRows
<1>5. query' \in Query /\ query'.pc = "found"
  BY <1>2, <1>4 DEF QueryInv, Query
<1> QED
  BY <1>5 DEF QueryInv

LEMMA RetrieveKeeps == QueryInv /\ retrieve => QueryInv'
<1> SUFFICES ASSUME QueryInv, retrieve PROVE QueryInv'
  OBVIOUS
<1> DEFINE b == [i \in DOMAIN query.dense |->
                   [doc |-> query.dense[i][1], chunk |-> query.dense[i][2], text |-> query.dense[i][2]]]
<1>1. query.dense \in Seq(Hits) /\ \A i, j \in 1 .. Len(query.dense) : i # j => query.dense[i] # query.dense[j]
  BY DEF QueryInv, Query, retrieve
<1>2. b \in Seq(Block) /\ Distinct(b)
  BY <1>1, RetrieveDistinct
<1>3. query' = [query EXCEPT !.pc = "ranked", !.dense = <<>>, !.blocks = b]
  BY DEF retrieve
<1> HIDE DEF b
<1>e. <<>> \in Seq(Hits)
  OBVIOUS
<1>4. query' \in Query /\ query'.pc = "ranked" /\ query'.blocks = b
  BY <1>2, <1>3, <1>e DEF QueryInv, Query
<1> QED
  BY <1>2, <1>4 DEF QueryInv

LEMMA ExpandKeeps == QueryInv /\ expand => QueryInv'
<1> SUFFICES ASSUME QueryInv, expand PROVE QueryInv'
  OBVIOUS
<1>1. PICK fused \in reciprocal_rank_fusion(query.dense, query.lexical) :
        \E parents \in expand_parents(fused) :
           query' = [query EXCEPT !.pc = "expanded", !.dense = <<>>, !.lexical = <<>>, !.blocks = parents]
  BY DEF expand
<1>2. PICK parents \in expand_parents(fused) :
           query' = [query EXCEPT !.pc = "expanded", !.dense = <<>>, !.lexical = <<>>, !.blocks = parents]
  BY <1>1
<1>3. query.dense \in Seq(Hits) /\ query.lexical \in Seq(Hits)
  BY DEF QueryInv, Query
<1>4. fused \in Seq(Hits)
  BY <1>3, FusedHits
<1>5. parents \in Seq(Block) /\ Distinct(parents)
  BY <1>4, ParentsDistinct
<1>e. <<>> \in Seq(Hits)
  OBVIOUS
<1>6. query' \in Query /\ query'.pc = "expanded" /\ query'.blocks = parents
  BY <1>2, <1>5, <1>e DEF QueryInv, Query
<1> QED
  BY <1>5, <1>6 DEF QueryInv

LEMMA RerankKeeps == QueryInv /\ rerank => QueryInv'
<1> SUFFICES ASSUME QueryInv, rerank PROVE QueryInv'
  OBVIOUS
<1>1. query.blocks \in Seq(Block) /\ Distinct(query.blocks) /\ Len(query.blocks) \in Nat
  BY DEF QueryInv, Query, rerank
<1>2. PICK n \in 0 .. 2 : \E results \in [1 .. n -> 0 .. (Len(query.blocks) + 1)] :
          \E r \in _apply_rerank_results(query.blocks, results) :
             \E rank \in Bijection(DOMAIN r, DOMAIN r) :
                query' = [query EXCEPT !.pc = "ranked",
                             !.blocks = IF r = <<>> THEN @ ELSE [k \in DOMAIN r |-> r[rank[k]]]]
  BY DEF rerank
<1>3. PICK results \in [1 .. n -> 0 .. (Len(query.blocks) + 1)] :
          \E r \in _apply_rerank_results(query.blocks, results) :
             \E rank \in Bijection(DOMAIN r, DOMAIN r) :
                query' = [query EXCEPT !.pc = "ranked",
                             !.blocks = IF r = <<>> THEN @ ELSE [k \in DOMAIN r |-> r[rank[k]]]]
  BY <1>2
<1>r. PICK r \in _apply_rerank_results(query.blocks, results) :
          \E rank \in Bijection(DOMAIN r, DOMAIN r) :
             query' = [query EXCEPT !.pc = "ranked",
                          !.blocks = IF r = <<>> THEN @ ELSE [k \in DOMAIN r |-> r[rank[k]]]]
  BY <1>3
<1>4. PICK rank \in Bijection(DOMAIN r, DOMAIN r) :
          query' = [query EXCEPT !.pc = "ranked",
                       !.blocks = IF r = <<>> THEN @ ELSE [k \in DOMAIN r |-> r[rank[k]]]]
  BY <1>r
<1>5. n \in Nat /\ results \in [1 .. n -> Int]
  BY <1>1
<1>6. r \in Seq(Block) /\ Distinct(r)
  BY <1>1, <1>5, RerankDistinct
<1> DEFINE p == [k \in DOMAIN r |-> r[rank[k]]]
           b == IF r = <<>> THEN query.blocks ELSE p
<1>7. p \in Seq(Block) /\ Distinct(p)
  BY <1>6, PermutedDistinct
<1> HIDE DEF p
<1>8. b \in Seq(Block) /\ Distinct(b)
  BY <1>1, <1>7
<1>9. query' = [query EXCEPT !.pc = "ranked", !.blocks = b]
  BY <1>4 DEF p
<1> HIDE DEF b
<1>10. query' \in Query /\ query'.pc = "ranked" /\ query'.blocks = b
  BY <1>8, <1>9 DEF QueryInv, Query
<1> QED
  BY <1>8, <1>10 DEF QueryInv

LEMMA MaybeRerankKeeps == QueryInv /\ _maybe_rerank => QueryInv'
<1> SUFFICES ASSUME QueryInv, _maybe_rerank PROVE QueryInv'
  OBVIOUS
<1>1. Distinct(query.blocks) /\ query' = [query EXCEPT !.pc = "ranked"]
  BY DEF QueryInv, _maybe_rerank
<1>2. query' \in Query /\ query'.pc = "ranked" /\ query'.blocks = query.blocks
  BY <1>1 DEF QueryInv, Query
<1> QED
  BY <1>1, <1>2 DEF QueryInv

LEMMA GuardKeeps == QueryInv /\ (_filter_guarded_candidates \/ _filter_guarded_chunks) => QueryInv'
<1> SUFFICES ASSUME QueryInv, _filter_guarded_candidates \/ _filter_guarded_chunks PROVE QueryInv'
  OBVIOUS
<1>1. query.pc = "ranked" /\ \E kept \in Guarded : query' = [query EXCEPT !.pc = "guarded", !.blocks = kept]
  BY DEF _filter_guarded_candidates, _filter_guarded_chunks
<1>2. PICK kept \in Guarded : query' = [query EXCEPT !.pc = "guarded", !.blocks = kept]
  BY <1>1
<1>3. kept \in Seq(Block) /\ Distinct(kept)
  BY <1>1, GuardedDistinct
<1>4. query' \in Query /\ query'.pc = "guarded" /\ query'.blocks = kept
  BY <1>2, <1>3 DEF QueryInv, Query
<1> QED
  BY <1>3, <1>4 DEF QueryInv

LEMMA BudgetKeeps == QueryInv /\ (build \/ compress) => QueryInv'
<1> SUFFICES ASSUME QueryInv, build \/ compress PROVE QueryInv'
  OBVIOUS
<1>0. query.pc = "guarded"
  BY DEF build, compress
<1>1. query.blocks \in Seq(Block) /\ Distinct(query.blocks) /\ Len(query.blocks) \in Nat
  BY <1>0 DEF QueryInv, Query
<1>2. \E n \in 0 .. Len(query.blocks) :
         query' = [query EXCEPT !.pc = "cited", !.blocks = SubSeq(query.blocks, 1, n)]
  <2>1. CASE build
    BY <1>1, <2>1 DEF build
  <2>2. CASE compress
    <3> DEFINE n == IF Len(query.blocks) < Budget THEN Len(query.blocks) ELSE Budget
    <3>1. n \in 0 .. Len(query.blocks)
      BY <1>1, BoundsAssumption DEF BoundsAssumption
    <3>2. query' = [query EXCEPT !.pc = "cited", !.blocks = SubSeq(query.blocks, 1, n)]
      BY <2>2 DEF compress
    <3> QED
      BY <3>1, <3>2
  <2> QED
    BY <2>1, <2>2
<1>3. PICK n \in 0 .. Len(query.blocks) :
         query' = [query EXCEPT !.pc = "cited", !.blocks = SubSeq(query.blocks, 1, n)]
  BY <1>2
<1> DEFINE b == SubSeq(query.blocks, 1, n)
<1>4. b \in Seq(Block) /\ Distinct(b)
  BY <1>1, PrefixDistinct
<1> HIDE DEF b
<1>5. query' \in Query /\ query'.pc = "cited" /\ query'.blocks = b
  BY <1>3, <1>4 DEF QueryInv, Query, b
<1> QED
  BY <1>4, <1>5 DEF QueryInv

\* No step of an upload, a deletion or a job touches the question.
LEMMA OthersLeave ==
  ASSUME NEW d \in Docs,
         Upload(d) \/ Delete(d) \/ claim(d) \/ Handler(d) \/ lost(d) \/ retry_dead_letter(d) \/ purge_staging(d)
  PROVE  query' = query
BY DEF Upload, ingest_document, refused, submit_sync, submit_queue, ingest_fails, commit_upload,
       Delete, delete_document, commit_delete, claim, Handler, not_indexable, already_indexed,
       fetch_upload_staging, set_processing, embed, commit_index, index_fails, cleanup_failed_indexing,
       complete, lost, retry_dead_letter, purge_staging

LEMMA QueryInvInit == Init => QueryInv
<1>1. NoQuery \in Query /\ NoQuery.pc = "idle"
  BY DEF NoQuery, Query
<1> QED
  BY <1>1 DEF Init, QueryInv

LEMMA QueryInvNext == QueryInv /\ [Next]_vars => QueryInv'
<1> SUFFICES ASSUME QueryInv, [Next]_vars PROVE QueryInv'
  OBVIOUS
<1>1. ASSUME query' = query PROVE QueryInv'
  BY <1>1 DEF QueryInv
<1>2. CASE \E d \in Docs : Upload(d) \/ Delete(d) \/ claim(d) \/ Handler(d) \/ lost(d)
                              \/ retry_dead_letter(d) \/ purge_staging(d)
  BY <1>1, <1>2, OthersLeave
<1>3. CASE Ask
  <2>1. CASE _empty_response \/ answer
    BY <2>1, QueryReset DEF _empty_response, answer
  <2> QED
    BY <1>3, <2>1, AskedKeeps, SimilarityKeeps, RetrieveKeeps, LexicalKeeps, ExpandKeeps, RerankKeeps,
       MaybeRerankKeeps, GuardKeeps, BudgetKeeps DEF Ask
<1>4. CASE UNCHANGED vars
  BY <1>1, <1>4 DEF vars
<1> QED
  BY <1>2, <1>3, <1>4 DEF Next

LEMMA QueryInvariance == Spec => []QueryInv
<1> QED
  BY QueryInvInit, QueryInvNext, PTL DEF Spec

\* Whatever the searches and the reranker return, whatever the guardrail drops and
\* the budget allows, no text of a document is numbered twice in a context.
THEOREM BlocksAreDistinct == Spec => []BlocksDistinct
<1>1. QueryInv => BlocksDistinct
  <2> SUFFICES ASSUME QueryInv, query.pc \in {"ranked", "guarded", "cited"},
                      NEW i \in DOMAIN query.blocks, NEW j \in DOMAIN query.blocks, i # j
               PROVE  <<query.blocks[i].doc, query.blocks[i].text>>
                         # <<query.blocks[j].doc, query.blocks[j].text>>
    BY DEF BlocksDistinct
  <2>1. query.blocks \in Seq(Block) /\ Distinct(query.blocks)
    BY DEF QueryInv, Query
  <2>2. ~Same(query.blocks[i], query.blocks[j])
    BY <2>1 DEF Distinct
  <2> QED
    BY <2>2 DEF Same
<1> QED
  BY <1>1, QueryInvariance, PTL

(***************************************************************************)
(* The proofs of VoiceSession. They use nothing of the ones above: the two *)
(* components share no variable. The invariant says which tasks a turn can *)
(* have at once, that a cancellation is delivered to the innermost of      *)
(* them, and that only the last turn has any that run.                     *)
(***************************************************************************)

\* Which tasks of a turn exist, by how far the one that awaits them has come: a task
\* ends only after the tasks it has created.
TasksNest(t) ==
    /\ task["process"][t] \in {"none", "start", "stt", "prepare", "chat", "done"}
    /\ task["process"][t] \in {"none", "start"} => task["stt"][t] = "none"
    /\ task["process"][t] = "stt" => task["stt"][t] \in {"run", "text", "done"}
    /\ task["process"][t] \in {"prepare", "chat", "done"} => Done("stt", t)
    /\ task["process"][t] \in {"none", "start", "stt", "prepare"} => task["llm"][t] = "none"
    /\ task["process"][t] = "chat" => task["llm"][t] \in {"start", "stream", "drain", "done"}
    /\ task["process"][t] = "done" => task["llm"][t] \in {"none", "done"}
    /\ task["llm"][t] \in {"none", "start"} => task["tts"][t] = "none"
    /\ task["llm"][t] \in {"stream", "drain"} => task["tts"][t] \in {"run", "done", "failed"}
    /\ task["llm"][t] = "done" => task["tts"][t] \in {"none", "done", "failed"}

\* A cancellation reached the task that awaits no other; that task stays where it is.
HitsInnermost == \A h \in hit : task[h[1]][h[2]] # "none" /\ Awaits(h[1], h[2]) = {}

\* Only the last turn has tasks that run, and none has begun after it.
OnlyLastRuns == \A t \in Turns : (t # turns => Done("process", t)) /\ (t > turns => task["process"][t] = "none")

\* A final chunk under way may still start a turn.
RoomForTurn ==
    /\ recv \in {"bargeIn", "handle"} /\ msg = "final" => turns < MaxTurns
    /\ recv = "supersede" => turns < MaxTurns

\* The registered synthesis task was created, and what was silenced has ended.
Spoken ==
    /\ handle.tts # 0 => task["tts"][handle.tts] # "none"
    /\ \A t \in silenced : task["tts"][t] \in {"done", "failed"}

VoiceInv ==
    /\ VoiceAssumption /\ VoiceTypeOK
    /\ \A t \in Turns : TasksNest(t)
    /\ HitsInnermost /\ OnlyLastRuns /\ RoomForTurn /\ Spoken
    /\ SpeakingIsInterruptible
-----------------------------------------------------------------------------
States == {"none", "start", "run", "stt", "text", "prepare", "chat", "stream", "drain", "done", "failed"}

LEMMA VoiceTypes ==
  VoiceInv =>
      /\ MaxTurns \in Nat /\ MaxWords \in Nat /\ turns \in 0 .. MaxTurns
      /\ task \in [Kinds -> [Turns -> States]]
      /\ hit \subseteq Kinds \X Turns /\ silenced \subseteq Turns
BY DEF VoiceInv, VoiceAssumption, VoiceTypeOK, States

LEMMA VoiceInitInv == VoiceAssumption /\ VoiceInit => VoiceInv
<1> SUFFICES ASSUME VoiceAssumption, VoiceInit PROVE VoiceInv
  OBVIOUS
<1>1. \A k \in Kinds, t \in Turns : task[k][t] = "none"
  BY DEF VoiceInit
<1>2. VoiceTypeOK
  <2>1. sess \in [is_active : BOOLEAN, connected : BOOLEAN, running : BOOLEAN]
    BY DEF VoiceInit
  <2>2. handle \in [stt : 0 .. MaxTurns, llm : 0 .. MaxTurns, tts : 0 .. MaxTurns] /\ turns \in 0 .. MaxTurns
    BY DEF VoiceAssumption, VoiceInit, NoHandles
  <2>3. text \in [Turns -> 0 .. MaxWords] /\ said \in [Turns -> 0 .. MaxWords]
    BY DEF VoiceAssumption, VoiceInit
  <2> QED
    BY <2>1, <2>2, <2>3 DEF VoiceInit, VoiceTypeOK
<1>3. \A t \in Turns : TasksNest(t) /\ Done("process", t) /\ Done("tts", t)
  BY <1>1 DEF TasksNest, Done, Kinds
<1>4. HitsInnermost /\ OnlyLastRuns /\ RoomForTurn /\ Spoken
  BY <1>1, <1>3 DEF VoiceInit, HitsInnermost, OnlyLastRuns, RoomForTurn, Spoken, NoHandles, Kinds
<1> QED
  BY <1>2, <1>3, <1>4 DEF VoiceInv, SpeakingIsInterruptible

\* A turn that is not the last has ended altogether.
LEMMA EndedTurn ==
  ASSUME VoiceInv, NEW t \in Turns, Done("process", t)
  PROVE  \A k \in Kinds : Done(k, t)
BY DEF VoiceInv, TasksNest, Done, Kinds

LEMMA OthersDone ==
  ASSUME VoiceInv, NEW t \in Turns, t # turns
  PROVE  \A k \in Kinds : Done(k, t)
BY EndedTurn DEF VoiceInv, OnlyLastRuns

\* Task.cancel reaches a task that exists and awaits no other.
LEMMA CancelledInnermost ==
  ASSUME VoiceInv, NEW ks \in SUBSET Kinds, NEW t \in 0 .. MaxTurns, NEW h \in Cancelled(ks, t)
  PROVE  h \in Kinds \X Turns /\ task[h[1]][h[2]] # "none" /\ Awaits(h[1], h[2]) = {}
<1>1. t \in Turns
  BY VoiceTypes DEF Cancelled, Turns
<1>2. PICK k \in ks : ~Done(k, t) /\ h = <<Target(k, t), t>>
  BY <1>1, VoiceTypes DEF Cancelled, Turns
<1>3. Target(k, t) \in Kinds /\ ~Done(Target(k, t), t) /\ Awaits(Target(k, t), t) = {}
  <2>1. CASE Awaits(k, t) = {}
    BY <1>2, <2>1 DEF Target
  <2>2. CASE k = "process" /\ task[k][t] = "stt" /\ ~Done("stt", t)
    <3>1. Awaits(k, t) = {"stt"} /\ Awaits("stt", t) = {}
      BY <2>2 DEF Awaits
    <3>2. Target(k, t) = "stt"
      BY <3>1 DEF Target
    <3> QED
      BY <2>2, <3>1, <3>2 DEF Kinds
  <2>3. CASE k = "process" /\ task[k][t] = "chat" /\ ~Done("llm", t)
    <3>1. Awaits(k, t) = {"llm"}
      BY <2>3 DEF Awaits
    <3>2. CASE Awaits("llm", t) = {}
      <4>1. Target(k, t) = "llm"
        BY <3>1, <3>2 DEF Target
      <4> QED
        BY <2>3, <3>2, <4>1 DEF Kinds
    <3>3. CASE Awaits("llm", t) # {}
      <4>1. Target(k, t) = "tts" /\ ~Done("tts", t) /\ Awaits("tts", t) = {}
        BY <3>1, <3>3 DEF Target, Awaits
      <4> QED
        BY <4>1 DEF Kinds
    <3> QED
      BY <3>2, <3>3
  <2>4. CASE k = "llm" /\ task[k][t] = "drain" /\ ~Done("tts", t)
    <3>1. Awaits(k, t) = {"tts"} /\ Awaits("tts", t) = {}
      BY <2>4 DEF Awaits
    <3>2. Target(k, t) = "tts"
      BY <3>1 DEF Target
    <3> QED
      BY <2>4, <3>1, <3>2 DEF Kinds
  <2> QED
    BY <2>1, <2>2, <2>3, <2>4 DEF Awaits
<1> QED
  BY <1>1, <1>2, <1>3 DEF Done

-----------------------------------------------------------------------------
(* Steps of a turn. *)

\* A step of the last turn: what it must show of its own tasks.
LEMMA TurnStep ==
  ASSUME VoiceInv, NEW t \in Turns, t = turns,
         task' \in [Kinds -> [Turns -> States]],
         \A k \in Kinds : \A s \in Turns \ {t} : task'[k][s] = task[k][s],
         UNCHANGED <<recv, msg, turns, sess, expiry, silenced>>,
         hit' \subseteq hit,
         TasksNest(t)',
         \A k \in Kinds : <<k, t>> \in hit' => task'[k][t] # "none" /\ Awaits(k, t)' = {},
         task'["process"][t] # "none",
         ~Done("tts", t)' => turn_active' /\ handle'.tts = t,
         task["tts"][t] # "none" => task'["tts"][t] # "none",
         task["tts"][t] \in {"done", "failed"} => task'["tts"][t] \in {"done", "failed"},
         handle' \in [stt : 0 .. MaxTurns, llm : 0 .. MaxTurns, tts : 0 .. MaxTurns],
         handle'.tts = handle.tts \/ (handle'.tts = t /\ task'["tts"][t] # "none"),
         turn_active' \in BOOLEAN,
         text' \in [Turns -> 0 .. MaxWords], said' \in [Turns -> 0 .. MaxWords]
  PROVE  VoiceInv'
<1>1. VoiceTypeOK' /\ VoiceAssumption'
  BY DEF VoiceInv, VoiceTypeOK, States, VoiceAssumption, Turns
<1>2. ASSUME NEW s \in Turns \ {t}
      PROVE  TasksNest(s)' /\ Done("process", s)' /\ Done("tts", s)'
  <2>1. \A k \in Kinds : task'[k][s] = task[k][s] /\ Done(k, s)
    BY OthersDone
  <2>2. TasksNest(s)'
    BY <2>1 DEF VoiceInv, TasksNest, Done, Kinds
  <2> QED
    BY <2>1, <2>2 DEF Done, Kinds
<1>3. \A s \in Turns : TasksNest(s)'
  BY <1>2
<1>4. HitsInnermost'
  <2> SUFFICES ASSUME NEW h \in hit' PROVE task'[h[1]][h[2]] # "none" /\ Awaits(h[1], h[2])' = {}
    BY DEF HitsInnermost
  <2>1. h \in hit /\ h[1] \in Kinds /\ h[2] \in Turns /\ h = <<h[1], h[2]>>
    BY VoiceTypes
  <2>2. CASE h[2] = t
    BY <2>1, <2>2
  <2>3. CASE h[2] # t
    <3>1. \A k \in Kinds : task'[k][h[2]] = task[k][h[2]]
      BY <2>1, <2>3
    <3>2. task[h[1]][h[2]] # "none" /\ Awaits(h[1], h[2]) = {}
      BY <2>1 DEF VoiceInv, HitsInnermost
    <3> QED
      BY <2>1, <3>1, <3>2 DEF Awaits, Done, Kinds
  <2> QED
    BY <2>2, <2>3
<1>5. OnlyLastRuns'
  <2> SUFFICES ASSUME NEW s \in Turns
               PROVE  (s # turns' => Done("process", s)') /\ (s > turns' => task'["process"][s] = "none")
    BY DEF OnlyLastRuns
  <2>1. turns' = t /\ ~(t > t)
    BY VoiceTypes DEF Turns
  <2>2. CASE s = t
    BY <2>1, <2>2
  <2>3. CASE s # t
    <3>1. task'["process"][s] = task["process"][s]
      BY <2>3 DEF Kinds
    <3> QED
      BY <1>2, <2>1, <2>3, <3>1 DEF VoiceInv, OnlyLastRuns
  <2> QED
    BY <2>2, <2>3
<1>6. RoomForTurn'
  BY DEF VoiceInv, RoomForTurn
<1>7. Spoken'
  <2>1. handle'.tts # 0 => task'["tts"][handle'.tts] # "none"
    <3>1. CASE handle'.tts = handle.tts /\ handle.tts # 0
      <4>1. handle.tts \in Turns /\ task["tts"][handle.tts] # "none"
        BY <3>1, VoiceTypes DEF VoiceInv, VoiceTypeOK, Spoken, Turns
      <4> QED
        BY <3>1, <4>1 DEF Kinds
    <3> QED
      BY <3>1
  <2>2. \A s \in silenced : task'["tts"][s] \in {"done", "failed"}
    BY VoiceTypes DEF VoiceInv, Spoken, Kinds
  <2> QED
    BY <2>1, <2>2 DEF Spoken
<1>8. SpeakingIsInterruptible'
  BY <1>2 DEF SpeakingIsInterruptible, Done
<1> QED
  BY <1>1, <1>3, <1>4, <1>5, <1>6, <1>7, <1>8 DEF VoiceInv

\* A task that runs is one of the last turn.
LEMMA RunsInLast ==
  ASSUME VoiceInv, NEW t \in Turns, NEW k \in Kinds, ~Done(k, t)
  PROVE  t = turns /\ task["process"][t] \notin {"none", "done"}
BY OthersDone, EndedTurn DEF Done, Kinds

\* One task moves.
LEMMA MovedTask ==
  ASSUME VoiceInv, NEW t \in Turns, NEW k \in Kinds, NEW st \in States, Moved(k, t, st)
  PROVE  /\ task' \in [Kinds -> [Turns -> States]]
         /\ task'[k][t] = st
         /\ \A j \in Kinds : \A s \in Turns : <<j, s>> # <<k, t>> => task'[j][s] = task[j][s]
BY VoiceTypes DEF Moved

\* One task moves on and nothing else but the words does.
LEMMA QuietStep ==
  ASSUME VoiceInv, NEW t \in Turns, NEW k \in Kinds, NEW st \in States \ {"none"}, Moved(k, t, st),
         ~Done(k, t), <<k, t>> \notin hit', hit' \subseteq hit,
         UNCHANGED <<recv, msg, turns, handle, sess, expiry, silenced>>,
         turn_active' = turn_active \/ (turn_active' = FALSE /\ Done("tts", t)),
         text' \in [Turns -> 0 .. MaxWords], said' \in [Turns -> 0 .. MaxWords],
         k = "tts" => st \in {"done", "failed"},
         TasksNest(t)'
  PROVE  VoiceInv'
<1>1. /\ task' \in [Kinds -> [Turns -> States]] /\ task'[k][t] = st
      /\ \A j \in Kinds : \A s \in Turns : <<j, s>> # <<k, t>> => task'[j][s] = task[j][s]
  BY MovedTask
<1>2. t = turns /\ task["process"][t] \notin {"none", "done"}
  BY RunsInLast
<1>3. \A j \in Kinds : \A s \in Turns \ {t} : task'[j][s] = task[j][s]
  BY <1>1
<1>4. ASSUME NEW j \in Kinds, <<j, t>> \in hit'
      PROVE  task'[j][t] # "none" /\ Awaits(j, t)' = {}
  <2>1. j # k /\ task'[j][t] = task[j][t] /\ task[j][t] # "none" /\ Awaits(j, t) = {}
    BY <1>1, <1>4 DEF VoiceInv, HitsInnermost
  <2>2. Awaits(j, t)' = {}
    <3>1. CASE j = "process"
      BY <1>1, <2>1, <3>1 DEF Awaits, Done, Kinds
    <3>2. CASE j = "llm"
      BY <1>1, <2>1, <3>2 DEF Awaits, Done, Kinds
    <3>3. CASE j \in {"stt", "tts"}
      BY <3>3 DEF Awaits
    <3> QED
      BY <3>1, <3>2, <3>3 DEF Kinds
  <2> QED
    BY <2>1, <2>2
<1>5. task'["process"][t] # "none"
  BY <1>1, <1>2 DEF Kinds
<1>6. \/ task'["tts"][t] = task["tts"][t]
      \/ task'["tts"][t] \in {"done", "failed"}
  BY <1>1 DEF Kinds
<1>7. ~Done("tts", t)' => turn_active' /\ handle'.tts = t
  BY <1>6 DEF VoiceInv, SpeakingIsInterruptible, Done
<1>8. handle' \in [stt : 0 .. MaxTurns, llm : 0 .. MaxTurns, tts : 0 .. MaxTurns] /\ turn_active' \in BOOLEAN
  BY DEF VoiceInv, VoiceTypeOK
<1>9. UNCHANGED <<recv, msg, turns, sess, expiry, silenced>> /\ handle'.tts = handle.tts
  OBVIOUS
<1>10. /\ task["tts"][t] # "none" => task'["tts"][t] # "none"
       /\ task["tts"][t] \in {"done", "failed"} => task'["tts"][t] \in {"done", "failed"}
  BY <1>6
<1> QED
  BY <1>1, <1>2, <1>3, <1>4, <1>5, <1>7, <1>8, <1>9, <1>10, TurnStep

LEMMA WordsTyped ==
  VoiceInv => text \in [Turns -> 0 .. MaxWords] /\ said \in [Turns -> 0 .. MaxWords]
BY DEF VoiceInv, VoiceTypeOK

\* The steps of _process_utterance and _run_stt.
LEMMA ProcessInv ==
  ASSUME VoiceInv, NEW t \in Turns, run_stt(t) \/ transcribed(t) \/ chat_turn_ends(t) \/ stream_ends(t) \/ turn_ends(t)
  PROVE  VoiceInv'
<1>1. TasksNest(t)
  BY DEF VoiceInv
<1>2. CASE run_stt(t)
  <2>1. PICK st \in {"text", "done"} : Moved("stt", t, st)
    BY <1>2 DEF run_stt
  <2>2. task["stt"][t] = "run" /\ <<"stt", t>> \notin hit'
    BY <1>2 DEF run_stt, Runs
  <2>3. task'["stt"][t] = st /\ \A j \in Kinds \ {"stt"} : task'[j][t] = task[j][t]
    BY <2>1, MovedTask DEF States, Kinds
  <2>4. TasksNest(t)'
    BY <1>1, <2>1, <2>2, <2>3 DEF TasksNest, Done, Kinds
  <2> QED
    BY <1>2, <2>1, <2>2, <2>4, QuietStep, WordsTyped DEF run_stt, Kinds, States, Done
<1>3. CASE transcribed(t)
  <2>1. PICK st \in {"prepare", "done"} : Moved("process", t, st)
    BY <1>3 DEF transcribed
  <2>2. task["process"][t] = "stt" /\ <<"process", t>> \notin hit' /\ Done("stt", t)
    BY <1>3 DEF transcribed, Runs
  <2>3. task'["process"][t] = st /\ \A j \in Kinds \ {"process"} : task'[j][t] = task[j][t]
    BY <2>1, MovedTask DEF States, Kinds
  <2>4. TasksNest(t)'
    BY <1>1, <2>1, <2>2, <2>3 DEF TasksNest, Done, Kinds
  <2> QED
    BY <1>3, <2>1, <2>2, <2>4, QuietStep, WordsTyped DEF transcribed, Kinds, States, Done
<1>4. CASE chat_turn_ends(t)
  <2>1. Moved("process", t, "done") /\ task["process"][t] = "chat" /\ <<"process", t>> \notin hit' /\ Done("llm", t)
    BY <1>4 DEF chat_turn_ends, Runs
  <2>2. task'["process"][t] = "done" /\ \A j \in Kinds \ {"process"} : task'[j][t] = task[j][t]
    BY <2>1, MovedTask DEF States, Kinds
  <2>3. TasksNest(t)'
    BY <1>1, <2>1, <2>2 DEF TasksNest, Done, Kinds
  <2> QED
    BY <1>4, <2>1, <2>3, QuietStep, WordsTyped DEF chat_turn_ends, Kinds, States, Done
<1>5. CASE stream_ends(t)
  <2>1. Moved("llm", t, "drain") /\ task["llm"][t] = "stream" /\ <<"llm", t>> \notin hit'
    BY <1>5 DEF stream_ends, Runs
  <2>2. task'["llm"][t] = "drain" /\ \A j \in Kinds \ {"llm"} : task'[j][t] = task[j][t]
    BY <2>1, MovedTask DEF States, Kinds
  <2>3. TasksNest(t)'
    BY <1>1, <2>1, <2>2 DEF TasksNest, Done, Kinds
  <2> QED
    BY <1>5, <2>1, <2>3, QuietStep, WordsTyped DEF stream_ends, Kinds, States, Done
<1>6. CASE turn_ends(t)
  <2>1. Moved("llm", t, "done") /\ task["llm"][t] = "drain" /\ <<"llm", t>> \notin hit' /\ Done("tts", t)
    BY <1>6 DEF turn_ends, Runs
  <2>2. task'["llm"][t] = "done" /\ \A j \in Kinds \ {"llm"} : task'[j][t] = task[j][t]
    BY <2>1, MovedTask DEF States, Kinds
  <2>3. TasksNest(t)'
    BY <1>1, <2>1, <2>2 DEF TasksNest, Done, Kinds
  <2>4. hit' \subseteq hit /\ turn_active' = FALSE /\ UNCHANGED <<recv, msg, turns, handle, sess, expiry, silenced, text, said>>
    BY <1>6 DEF turn_ends
  <2>5. ~Done("llm", t)
    BY <2>1 DEF Done
  <2> QED
    BY <2>1, <2>3, <2>4, <2>5, QuietStep, WordsTyped DEF Kinds, States
<1> QED
  BY <1>2, <1>3, <1>4, <1>5, <1>6

\* The tasks are where they were.
LEMMA StillStep ==
  ASSUME VoiceInv, UNCHANGED <<task, turns>>,
         \A h \in hit' : h \in hit \/ (h \in Kinds \X Turns /\ task[h[1]][h[2]] # "none" /\ Awaits(h[1], h[2]) = {}),
         RoomForTurn',
         handle' \in [stt : 0 .. MaxTurns, llm : 0 .. MaxTurns, tts : 0 .. MaxTurns],
         handle'.tts \in {0, handle.tts}, turn_active' \in BOOLEAN,
         sess' \in [is_active : BOOLEAN, connected : BOOLEAN, running : BOOLEAN],
         expiry' \in {"none", "sleep", "done"},
         text' \in [Turns -> 0 .. MaxWords], said' \in [Turns -> 0 .. MaxWords],
         \A t \in silenced' : t \in silenced \/ (t \in Turns /\ task["tts"][t] \in {"done", "failed"}),
         (turn_active' = turn_active /\ handle'.tts = handle.tts) \/ \A t \in Turns : Done("tts", t)
  PROVE  VoiceInv'
<1>1. hit' \subseteq Kinds \X Turns /\ silenced' \subseteq Turns
  BY VoiceTypes
<1>2. VoiceTypeOK' /\ VoiceAssumption'
  BY <1>1 DEF VoiceInv, VoiceTypeOK, VoiceAssumption
<1>3. /\ \A t \in Turns : TasksNest(t)' = TasksNest(t)
      /\ \A k \in Kinds, t \in Turns : Done(k, t)' = Done(k, t) /\ Awaits(k, t)' = Awaits(k, t)
  BY DEF TasksNest, Done, Awaits
<1>4. HitsInnermost'
  <2> SUFFICES ASSUME NEW h \in hit' PROVE task'[h[1]][h[2]] # "none" /\ Awaits(h[1], h[2])' = {}
    BY DEF HitsInnermost
  <2>1. h[1] \in Kinds /\ h[2] \in Turns
    BY <1>1
  <2> QED
    BY <1>3, <2>1 DEF VoiceInv, HitsInnermost
<1>5. OnlyLastRuns'
  BY <1>3 DEF VoiceInv, OnlyLastRuns, Kinds
<1>6. Spoken'
  BY DEF VoiceInv, Spoken
<1>7. SpeakingIsInterruptible'
  BY <1>3 DEF VoiceInv, SpeakingIsInterruptible, Kinds
<1> QED
  BY <1>2, <1>3, <1>4, <1>5, <1>6, <1>7 DEF VoiceInv

LEMMA Names ==
  /\ "process" \in Kinds /\ "stt" \in Kinds /\ "llm" \in Kinds /\ "tts" \in Kinds
  /\ "stt" \in States /\ "run" \in States /\ "chat" \in States /\ "start" \in States /\ "stream" \in States
BY DEF Kinds, States

LEMMA Kept ==
  ASSUME VoiceInv
  PROVE  /\ handle \in [stt : 0 .. MaxTurns, llm : 0 .. MaxTurns, tts : 0 .. MaxTurns]
         /\ turn_active \in BOOLEAN
         /\ sess \in [is_active : BOOLEAN, connected : BOOLEAN, running : BOOLEAN]
         /\ expiry \in {"none", "sleep", "done"}
BY DEF VoiceInv, VoiceTypeOK

\* A task creates another and registers it.
LEMMA CreateInv ==
  ASSUME VoiceInv, NEW t \in Turns, process_utterance(t) \/ run_chat_turn(t) \/ run_turn(t)
  PROVE  VoiceInv'
<1>1. TasksNest(t)
  BY DEF VoiceInv
<1>2. \A j \in Kinds : <<j, t>> \in hit => task[j][t] # "none" /\ Awaits(j, t) = {}
  BY DEF VoiceInv, HitsInnermost
<1>3. CASE process_utterance(t)
  <2>1. task["process"][t] = "start" /\ <<"process", t>> \notin hit /\ hit' = hit
    BY <1>3 DEF process_utterance, Runs
  <2>2. /\ task' \in [Kinds -> [Turns -> States]] /\ task'["process"][t] = "stt" /\ task'["stt"][t] = "run"
        /\ \A j \in Kinds : \A s \in Turns : s # t \/ j \notin {"process", "stt"} => task'[j][s] = task[j][s]
    BY <1>3, VoiceTypes, Names DEF process_utterance
  <2>3. t = turns
    BY <2>1, RunsInLast DEF Done, Kinds
  <2>4. TasksNest(t)'
    BY <1>1, <2>1, <2>2 DEF TasksNest, Done, Kinds
  <2>5. \A j \in Kinds : <<j, t>> \in hit' => task'[j][t] # "none" /\ Awaits(j, t)' = {}
    BY <1>1, <1>2, <2>1, <2>2 DEF TasksNest, Awaits, Done, Kinds
  <2>6. UNCHANGED <<recv, msg, turns, sess, expiry, silenced, turn_active, text, said>> /\ handle'.tts = handle.tts
    BY <1>3, Kept DEF process_utterance
  <2>7. handle' \in [stt : 0 .. MaxTurns, llm : 0 .. MaxTurns, tts : 0 .. MaxTurns]
    BY <1>3, Kept, VoiceTypes DEF process_utterance, Turns
  <2>8. task'["tts"][t] = task["tts"][t]
    BY <2>2 DEF Kinds
  <2>9. ~Done("tts", t)' => turn_active' /\ handle'.tts = t
    BY <2>6, <2>8 DEF VoiceInv, SpeakingIsInterruptible, Done
  <2>10. \A k \in Kinds : \A s \in Turns \ {t} : task'[k][s] = task[k][s]
    BY <2>2
  <2> QED
    BY <2>1, <2>2, <2>3, <2>4, <2>5, <2>6, <2>7, <2>8, <2>9, <2>10, TurnStep, Kept, WordsTyped
<1>4. CASE run_chat_turn(t)
  <2>1. task["process"][t] = "prepare" /\ <<"process", t>> \notin hit /\ hit' = hit
    BY <1>4 DEF run_chat_turn, Runs
  <2>2. UNCHANGED <<recv, msg, turns, sess, expiry, silenced, turn_active, text, said>>
    BY <1>4 DEF run_chat_turn
  <2>3. CASE Moved("process", t, "done") /\ UNCHANGED handle
    <3>1. task'["process"][t] = "done" /\ \A j \in Kinds \ {"process"} : task'[j][t] = task[j][t]
      BY <2>3, MovedTask DEF States, Kinds
    <3>2. TasksNest(t)'
      BY <1>1, <2>1, <3>1 DEF TasksNest, Done, Kinds
    <3>3. ~Done("process", t)
      BY <2>1 DEF Done
    <3> QED
      BY <2>1, <2>2, <2>3, <3>2, <3>3, QuietStep, WordsTyped DEF Kinds, States
  <2>4. CASE task' = [task EXCEPT !["process"][t] = "chat", !["llm"][t] = "start"] /\ handle' = [handle EXCEPT !.llm = t]
    <3>1. /\ task' \in [Kinds -> [Turns -> States]] /\ task'["process"][t] = "chat" /\ task'["llm"][t] = "start"
          /\ \A j \in Kinds : \A s \in Turns : s # t \/ j \notin {"process", "llm"} => task'[j][s] = task[j][s]
      BY <2>4, VoiceTypes, Names
    <3>2. t = turns
      BY <2>1, RunsInLast DEF Done, Kinds
    <3>3. TasksNest(t)'
      BY <1>1, <2>1, <3>1 DEF TasksNest, Done, Kinds
    <3>4. \A j \in Kinds : <<j, t>> \in hit' => task'[j][t] # "none" /\ Awaits(j, t)' = {}
      BY <1>1, <1>2, <2>1, <3>1 DEF TasksNest, Awaits, Done, Kinds
    <3>5. handle' \in [stt : 0 .. MaxTurns, llm : 0 .. MaxTurns, tts : 0 .. MaxTurns] /\ handle'.tts = handle.tts
      BY <2>4, Kept, VoiceTypes DEF Turns
    <3>6. task'["tts"][t] = task["tts"][t]
      BY <3>1 DEF Kinds
    <3>7. ~Done("tts", t)' => turn_active' /\ handle'.tts = t
      BY <2>2, <3>5, <3>6 DEF VoiceInv, SpeakingIsInterruptible, Done
    <3>8. \A k \in Kinds : \A s \in Turns \ {t} : task'[k][s] = task[k][s]
      BY <3>1
    <3> QED
      BY <2>1, <2>2, <3>1, <3>2, <3>3, <3>4, <3>5, <3>6, <3>7, <3>8, TurnStep, Kept, WordsTyped
  <2> QED
    BY <1>4, <2>3, <2>4 DEF run_chat_turn
<1>5. CASE run_turn(t)
  <2>1. task["llm"][t] = "start" /\ <<"llm", t>> \notin hit /\ hit' = hit
    BY <1>5 DEF run_turn, Runs
  <2>2. /\ task' \in [Kinds -> [Turns -> States]] /\ task'["llm"][t] = "stream" /\ task'["tts"][t] = "run"
        /\ \A j \in Kinds : \A s \in Turns : s # t \/ j \notin {"llm", "tts"} => task'[j][s] = task[j][s]
    BY <1>5, VoiceTypes, Names DEF run_turn
  <2>3. t = turns /\ task["process"][t] # "none"
    BY <2>1, RunsInLast DEF Done, Kinds
  <2>4. TasksNest(t)'
    BY <1>1, <2>1, <2>2 DEF TasksNest, Done, Kinds
  <2>5. \A j \in Kinds : <<j, t>> \in hit' => task'[j][t] # "none" /\ Awaits(j, t)' = {}
    BY <1>1, <1>2, <2>1, <2>2 DEF TasksNest, Awaits, Done, Kinds
  <2>6. UNCHANGED <<recv, msg, turns, sess, expiry, silenced, text, said>> /\ turn_active' = TRUE
    BY <1>5 DEF run_turn
  <2>7. handle' \in [stt : 0 .. MaxTurns, llm : 0 .. MaxTurns, tts : 0 .. MaxTurns] /\ handle'.tts = t
    BY <1>5, Kept, VoiceTypes DEF run_turn, Turns
  <2>8. task["tts"][t] = "none"
    BY <1>1, <2>1 DEF TasksNest
  <2>9. \A k \in Kinds : \A s \in Turns \ {t} : task'[k][s] = task[k][s]
    BY <2>2
  <2>10. task'["process"][t] # "none"
    BY <2>2, <2>3 DEF Kinds
  <2>11. /\ task["tts"][t] # "none" => task'["tts"][t] # "none"
         /\ task["tts"][t] \in {"done", "failed"} => task'["tts"][t] \in {"done", "failed"}
         /\ task'["tts"][t] # "none"
    BY <2>2, <2>8
  <2> QED
    BY <2>1, <2>2, <2>3, <2>4, <2>5, <2>6, <2>7, <2>9, <2>10, <2>11, TurnStep, WordsTyped
<1> QED
  BY <1>3, <1>4, <1>5

\* Text is queued and spoken; the synthesis ends or fails.
LEMMA SpeechInv ==
  ASSUME VoiceInv, NEW t \in Turns, delta(t) \/ try_flushes(t) \/ emit_tts_ends(t) \/ synthesize_fails(t)
  PROVE  VoiceInv'
<1>1. TasksNest(t)
  BY DEF VoiceInv
<1>2. CASE delta(t) \/ try_flushes(t)
  <2>1. text' \in [Turns -> 0 .. MaxWords] /\ said' \in [Turns -> 0 .. MaxWords]
    <3>1. CASE delta(t)
      BY <3>1, WordsTyped, VoiceTypes DEF delta
    <3>2. CASE try_flushes(t)
      <4>1. PICK upto \in said[t] + 1 .. text[t] : said' = [said EXCEPT ![t] = upto]
        BY <3>2 DEF try_flushes
      <4>2. upto \in 0 .. MaxWords
        BY WordsTyped, VoiceTypes
      <4> QED
        BY <3>2, <4>1, <4>2, WordsTyped DEF try_flushes
    <3> QED
      BY <1>2, <3>1, <3>2
  <2>2. UNCHANGED <<recv, msg, turns, task, hit, handle, turn_active, sess, expiry, silenced>>
    BY <1>2 DEF delta, try_flushes
  <2>3. RoomForTurn'
    BY <2>2 DEF VoiceInv, RoomForTurn
  <2> QED
    BY <2>1, <2>2, <2>3, StillStep, Kept
<1>3. CASE emit_tts_ends(t)
  <2>1. Moved("tts", t, "done") /\ task["tts"][t] = "run" /\ <<"tts", t>> \notin hit'
    BY <1>3 DEF emit_tts_ends, Runs
  <2>2. task'["tts"][t] = "done" /\ \A j \in Kinds \ {"tts"} : task'[j][t] = task[j][t]
    BY <2>1, MovedTask DEF States, Kinds
  <2>3. TasksNest(t)'
    BY <1>1, <2>1, <2>2 DEF TasksNest, Done, Kinds
  <2>4. said' \in [Turns -> 0 .. MaxWords] /\ text' = text
    BY <1>3, WordsTyped DEF emit_tts_ends, flush_rest
  <2>5. UNCHANGED <<recv, msg, turns, hit, handle, turn_active, sess, expiry, silenced>>
    BY <1>3 DEF emit_tts_ends
  <2>6. ~Done("tts", t)
    BY <2>1 DEF Done
  <2> QED
    BY <2>1, <2>3, <2>4, <2>5, <2>6, QuietStep, WordsTyped DEF Kinds, States
<1>4. CASE synthesize_fails(t)
  <2>1. Moved("tts", t, "failed") /\ task["tts"][t] = "run" /\ <<"tts", t>> \notin hit'
    BY <1>4 DEF synthesize_fails, Runs
  <2>2. task'["tts"][t] = "failed" /\ \A j \in Kinds \ {"tts"} : task'[j][t] = task[j][t]
    BY <2>1, MovedTask DEF States, Kinds
  <2>3. TasksNest(t)'
    BY <1>1, <2>1, <2>2 DEF TasksNest, Done, Kinds
  <2>5. UNCHANGED <<recv, msg, turns, hit, handle, turn_active, sess, expiry, silenced, text, said>>
    BY <1>4 DEF synthesize_fails
  <2>6. ~Done("tts", t)
    BY <2>1 DEF Done
  <2> QED
    BY <2>1, <2>3, <2>5, <2>6, QuietStep, WordsTyped DEF Kinds, States
<1> QED
  BY <1>2, <1>3, <1>4

\* A CancelledError arrives at a task that awaits no other, so that it leaves none behind.
LEMMA CancelInv ==
  ASSUME VoiceInv, NEW t \in Turns, NEW k \in Kinds, cancelled(k, t)
  PROVE  VoiceInv'
<1>1. TasksNest(t)
  BY DEF VoiceInv
<1>2. /\ <<k, t>> \in hit /\ hit' \subseteq hit /\ <<k, t>> \notin hit'
      /\ UNCHANGED <<recv, msg, turns, handle, sess, expiry, silenced, text, said>>
  BY DEF cancelled
<1>3. task[k][t] # "none" /\ Awaits(k, t) = {}
  BY <1>2 DEF VoiceInv, HitsInnermost
<1>6. turn_active' = turn_active \/ (turn_active' = FALSE /\ k = "llm" /\ task[k][t] = "drain" /\ Done("tts", t))
  <2>1. CASE k = "llm" /\ task[k][t] = "drain"
    <3>1. turn_active' = FALSE
      BY <2>1, Kept DEF cancelled
    <3>2. Done("tts", t)
      BY <1>3, <2>1 DEF Awaits
    <3> QED
      BY <2>1, <3>1, <3>2
  <2>2. CASE ~ (k = "llm" /\ task[k][t] = "drain")
    BY <2>2, Kept DEF cancelled
  <2> QED
    BY <2>1, <2>2
<1>4. CASE Done(k, t)
  <2>1. UNCHANGED task
    BY <1>4 DEF cancelled
  <2>2. RoomForTurn'
    BY <1>2 DEF VoiceInv, RoomForTurn
  <2>3. UNCHANGED turn_active
    BY <1>4, <1>6 DEF Done
  <2> QED
    BY <1>2, <2>1, <2>2, <2>3, StillStep, Kept, WordsTyped
<1>5. CASE ~Done(k, t)
  <2>1. PICK st \in {"drain", "done"} :
          Moved(k, t, st) /\ (st = "drain" <=> k = "llm" /\ task[k][t] = "stream")
    BY <1>5 DEF cancelled
  <2>2. task'[k][t] = st /\ \A j \in Kinds \ {k} : task'[j][t] = task[j][t]
    BY <2>1, MovedTask DEF States
  <2>3. TasksNest(t)'
    <3>1. CASE k = "process"
      <4>1. task["process"][t] # "chat" \/ Done("llm", t)
        BY <1>3, <3>1 DEF Awaits
      <4>2. task["process"][t] # "stt" \/ Done("stt", t)
        BY <1>3, <3>1 DEF Awaits
      <4>3. task'["process"][t] = "done"
        BY <2>1, <2>2, <3>1
      <4> QED
        BY <1>1, <1>3, <1>5, <2>2, <3>1, <4>1, <4>2, <4>3 DEF TasksNest, Done, Kinds
    <3>2. CASE k = "stt"
      BY <1>1, <1>3, <1>5, <2>1, <2>2, <3>2 DEF TasksNest, Done, Kinds
    <3>3. CASE k = "llm"
      <4>1. task["llm"][t] # "drain" \/ Done("tts", t)
        BY <1>3, <3>3 DEF Awaits
      <4> QED
        BY <1>1, <1>3, <1>5, <2>1, <2>2, <3>3, <4>1 DEF TasksNest, Done, Kinds
    <3>4. CASE k = "tts"
      BY <1>1, <1>3, <1>5, <2>1, <2>2, <3>4 DEF TasksNest, Done, Kinds
    <3> QED
      BY <3>1, <3>2, <3>3, <3>4 DEF Kinds
  <2>4. k = "tts" => st \in {"done", "failed"}
    BY <2>1
  <2> QED
    BY <1>2, <1>5, <1>6, <2>1, <2>3, <2>4, QuietStep, WordsTyped DEF States
<1> QED
  BY <1>4, <1>5

-----------------------------------------------------------------------------
(* Steps of the receive loop, the client and the clock. *)

\* Cancelling a turn or the registered tasks reaches only tasks that await no other.
LEMMA LoopHits ==
  ASSUME VoiceInv, (\E m \in {"audio", "final", "interrupt", "heartbeat", "end", "invalid"} : receive(m))
               \/ handle_audio_in \/ begin_finally
  PROVE  \A h \in hit' : h \in hit \/ (h \in Kinds \X Turns /\ task[h[1]][h[2]] # "none" /\ Awaits(h[1], h[2]) = {})
<1> SUFFICES ASSUME NEW h \in hit', h \notin hit
             PROVE  h \in Kinds \X Turns /\ task[h[1]][h[2]] # "none" /\ Awaits(h[1], h[2]) = {}
  OBVIOUS
<1>1. CASE h \in Cancelled({"process"}, turns)
  BY <1>1, CancelledInnermost, VoiceTypes, {"process"} \in SUBSET Kinds DEF Kinds
<1>2. CASE \E t \in Turns : h \in Cancelled({k \in {"tts", "llm", "stt"} : handle[k] = t}, t)
  <2>1. PICK t \in Turns : h \in Cancelled({k \in {"tts", "llm", "stt"} : handle[k] = t}, t)
    BY <1>2
  <2>2. {k \in {"tts", "llm", "stt"} : handle[k] = t} \in SUBSET Kinds
    BY DEF Kinds
  <2>3. t \in 0 .. MaxTurns
    BY VoiceTypes DEF Turns
  <2> QED
    BY <2>1, <2>2, <2>3, CancelledInnermost
<1>3. CASE \E m \in {"audio", "final", "interrupt", "heartbeat", "end", "invalid"} : receive(m)
  <2>1. hit' = hit \/ hit' = hit \cup UNION {Cancelled({k \in {"tts", "llm", "stt"} : handle[k] = t}, t) : t \in Turns}
    BY <1>3 DEF receive
  <2> QED
    BY <1>2, <2>1
<1> QED
  BY <1>1, <1>3 DEF handle_audio_in, begin_finally

\* When the registered synthesis task has ended, no synthesis runs.
LEMMA SpeechOver ==
  ASSUME VoiceInv, cancel_all_done \/ pending_turn_done
  PROVE  \A t \in Turns : Done("tts", t)
<1> SUFFICES ASSUME NEW t \in Turns, ~Done("tts", t) PROVE FALSE
  OBVIOUS
<1>1. handle.tts = t /\ t = turns /\ t # 0
  <2>1. handle.tts = t
    BY DEF VoiceInv, SpeakingIsInterruptible
  <2>2. "tts" \in Kinds
    BY DEF Kinds
  <2>3. t = turns
    BY <2>2, RunsInLast
  <2>4. t # 0
    BY VoiceTypes DEF Turns
  <2> QED
    BY <2>1, <2>3, <2>4
<1>2. Done("process", t) => Done("tts", t)
  BY EndedTurn DEF Kinds
<1> QED
  BY <1>1, <1>2 DEF cancel_all_done, pending_turn_done

LEMMA ReceiveInv ==
  ASSUME VoiceInv, NEW m \in {"audio", "final", "interrupt", "heartbeat", "end", "invalid"}, receive(m)
  PROVE  VoiceInv'
<1>1. UNCHANGED <<task, turns, handle, turn_active, text, said, sess, expiry, silenced>>
  BY DEF receive
<1>2. RoomForTurn'
  BY <1>1 DEF receive, RoomForTurn
<1>3. \A h \in hit' : h \in hit \/ (h \in Kinds \X Turns /\ task[h[1]][h[2]] # "none" /\ Awaits(h[1], h[2]) = {})
  BY LoopHits
<1> QED
  BY <1>1, <1>2, <1>3, StillStep, Kept, WordsTyped

LEMMA AudioInv == ASSUME VoiceInv, handle_audio_in PROVE VoiceInv'
<1>1. UNCHANGED <<task, turns, handle, turn_active, text, said, sess, expiry, silenced>>
  BY DEF handle_audio_in
<1>2. RoomForTurn'
  BY <1>1 DEF VoiceInv, handle_audio_in, RoomForTurn, Continue
<1>3. \A h \in hit' : h \in hit \/ (h \in Kinds \X Turns /\ task[h[1]][h[2]] # "none" /\ Awaits(h[1], h[2]) = {})
  BY LoopHits
<1> QED
  BY <1>1, <1>2, <1>3, StillStep, Kept, WordsTyped

LEMMA FinallyInv == ASSUME VoiceInv, begin_finally \/ end_finally PROVE VoiceInv'
<1>1. CASE begin_finally
  <2>1. UNCHANGED <<task, turns, handle, turn_active, text, said, sess, expiry, silenced>>
    BY <1>1 DEF begin_finally
  <2>2. RoomForTurn'
    BY <1>1 DEF begin_finally, RoomForTurn
  <2>3. \A h \in hit' : h \in hit \/ (h \in Kinds \X Turns /\ task[h[1]][h[2]] # "none" /\ Awaits(h[1], h[2]) = {})
    BY <1>1, LoopHits
  <2> QED
    BY <2>1, <2>2, <2>3, StillStep, Kept, WordsTyped
<1>2. CASE end_finally
  <2>1. \A t \in Turns : Done("tts", t)
    BY <1>2, SpeechOver DEF end_finally
  <2>2. UNCHANGED <<task, turns, hit, text, said, silenced>> /\ turn_active' = FALSE /\ expiry' = "done"
    BY <1>2 DEF end_finally
  <2>3. handle' \in [stt : 0 .. MaxTurns, llm : 0 .. MaxTurns, tts : 0 .. MaxTurns] /\ handle'.tts = 0
    BY <1>2, VoiceTypes DEF end_finally, NoHandles
  <2>4. sess' \in [is_active : BOOLEAN, connected : BOOLEAN, running : BOOLEAN]
    BY <1>2, Kept DEF end_finally
  <2>5. RoomForTurn'
    BY <1>2 DEF end_finally, RoomForTurn
  <2> QED
    BY <2>1, <2>2, <2>3, <2>4, <2>5, StillStep, Kept, WordsTyped
<1> QED
  BY <1>1, <1>2

LEMMA InterruptedInv == ASSUME VoiceInv, interrupted PROVE VoiceInv'
<1>1. \A t \in Turns : Done("tts", t)
  BY SpeechOver DEF interrupted
<1>2. UNCHANGED <<task, turns, hit, text, said, sess, expiry>> /\ turn_active' = FALSE
  BY DEF interrupted
<1>3. handle' \in [stt : 0 .. MaxTurns, llm : 0 .. MaxTurns, tts : 0 .. MaxTurns] /\ handle'.tts = 0
  BY VoiceTypes DEF interrupted, NoHandles
<1>4. RoomForTurn'
  BY DEF VoiceInv, interrupted, RoomForTurn
<1>5. ASSUME NEW t \in silenced', t \notin silenced
      PROVE  t \in Turns /\ task["tts"][t] \in {"done", "failed"}
  <2>1. t \in Turns /\ handle.tts = t
    BY <1>5 DEF interrupted
  <2>2. task["tts"][t] # "none" /\ Done("tts", t) /\ TasksNest(t)
    BY <1>1, <2>1, VoiceTypes DEF VoiceInv, Spoken, Turns
  <2>3. task["llm"][t] \in {"none", "start", "stream", "drain", "done"}
    BY <2>2 DEF TasksNest
  <2> QED
    BY <2>1, <2>2, <2>3 DEF TasksNest, Done
<1> QED
  BY <1>1, <1>2, <1>3, <1>4, <1>5, StillStep, Kept, WordsTyped

\* Steps that concern no turn.
LEMMA SocketInv ==
  ASSUME VoiceInv, voice_websocket \/ create \/ disconnect \/ tick \/ handle_control \/ session_end
               \/ receive_disconnect \/ expire_stale_sessions \/ UNCHANGED voiceVars
  PROVE  VoiceInv'
<1>1. UNCHANGED <<task, turns, hit, handle, turn_active, text, said, silenced>>
  BY DEF voice_websocket, create, disconnect, tick, handle_control, session_end, receive_disconnect,
         expire_stale_sessions, voiceVars, turnVars
<1>2. RoomForTurn'
  BY <1>1 DEF VoiceInv, RoomForTurn, voice_websocket, create, disconnect, tick, handle_control, session_end,
         receive_disconnect, expire_stale_sessions, voiceVars, turnVars, Continue
<1>3. expiry' \in {"none", "sleep", "done"}
  BY Kept DEF voice_websocket, create, disconnect, tick, handle_control, session_end, receive_disconnect,
         expire_stale_sessions, voiceVars
<1>4. sess' \in [is_active : BOOLEAN, connected : BOOLEAN, running : BOOLEAN]
  <2>1. CASE expire_stale_sessions
    BY <2>1, Kept DEF expire_stale_sessions
  <2>2. CASE create \/ disconnect \/ session_end
    BY <2>2, Kept DEF create, disconnect, session_end
  <2>3. CASE voice_websocket \/ tick \/ handle_control \/ receive_disconnect \/ UNCHANGED voiceVars
    BY <2>3, Kept DEF voice_websocket, tick, handle_control, receive_disconnect, voiceVars
  <2> QED
    BY <2>1, <2>2, <2>3
<1> QED
  BY <1>1, <1>2, <1>3, <1>4, StillStep, Kept, WordsTyped

\* A turn starts only after the one before it has ended.
LEMMA StartInv == ASSUME VoiceInv, start_turn PROVE VoiceInv'
<1> DEFINE t == turns + 1
<1>1. turns < MaxTurns /\ t \in Turns /\ turns' = t /\ t # turns
  BY VoiceTypes DEF VoiceInv, start_turn, RoomForTurn, Turns
<1>2. UNCHANGED <<msg, hit, handle, turn_active, text, said, sess, expiry, silenced>>
  BY DEF start_turn
<1>3. task["process"][t] = "none" /\ TasksNest(t)
  BY <1>1, VoiceTypes DEF VoiceInv, OnlyLastRuns
<1>4. \A k \in Kinds : task[k][t] = "none" \/ Done(k, t)
  BY <1>1, OthersDone
<1>5. task["stt"][t] = "none" /\ task["llm"][t] = "none" /\ task["tts"][t] = "none"
  BY <1>3 DEF TasksNest
<1>6. /\ task' \in [Kinds -> [Turns -> States]] /\ task'["process"][t] = "start"
      /\ \A j \in Kinds : \A s \in Turns : s # t \/ j # "process" => task'[j][s] = task[j][s]
  BY <1>1, VoiceTypes, Names DEF start_turn
<1>7. \A s \in Turns : Done("process", s)
  BY VoiceTypes DEF VoiceInv, start_turn, pending_turn_done, OnlyLastRuns, Turns
<1>8. \A s \in Turns : \A k \in Kinds : Done(k, s)
  BY <1>7, EndedTurn
<1>9. VoiceTypeOK' /\ VoiceAssumption'
  BY <1>1, <1>2, <1>6 DEF VoiceInv, VoiceTypeOK, States, VoiceAssumption, Turns
<1>10. ASSUME NEW s \in Turns PROVE TasksNest(s)'
  <2>1. CASE s = t
    BY <1>3, <1>5, <1>6, <2>1, Names DEF TasksNest, Done
  <2>2. CASE s # t
    <3>1. \A j \in Kinds : task'[j][s] = task[j][s]
      BY <1>6, <2>2
    <3> QED
      BY <3>1, Names DEF VoiceInv, TasksNest, Done
  <2> QED
    BY <2>1, <2>2
<1>11. HitsInnermost'
  <2> SUFFICES ASSUME NEW h \in hit PROVE task'[h[1]][h[2]] # "none" /\ Awaits(h[1], h[2])' = {}
    BY <1>2 DEF HitsInnermost
  <2>1. h[1] \in Kinds /\ h[2] \in Turns /\ task[h[1]][h[2]] # "none" /\ Awaits(h[1], h[2]) = {}
    BY VoiceTypes DEF VoiceInv, HitsInnermost
  <2>2. h[2] # t
    BY <1>3, <1>5, <2>1 DEF Kinds
  <2>3. \A k \in Kinds : task'[k][h[2]] = task[k][h[2]]
    BY <1>6, <2>1, <2>2
  <2> QED
    BY <2>1, <2>3 DEF Awaits, Done, Kinds
<1>12. OnlyLastRuns'
  <2>0. ~(t > t) /\ turns' = t
    BY <1>1, VoiceTypes
  <2> SUFFICES ASSUME NEW s \in Turns, s # t PROVE Done("process", s)' /\ (s > t => task'["process"][s] = "none")
    <3> HIDE DEF t
    <3> QED
      BY <2>0 DEF OnlyLastRuns
  <2>1. task'["process"][s] = task["process"][s]
    BY <1>6, Names
  <2> QED
    BY <1>7, <2>1, VoiceTypes DEF VoiceInv, OnlyLastRuns, Done, Turns
<1>13. RoomForTurn'
  BY DEF start_turn, RoomForTurn, Continue
<1>14. \A s \in Turns : task'["tts"][s] = task["tts"][s]
  BY <1>6, Names
<1>15. Spoken'
  <2>1. handle.tts # 0 => handle.tts \in Turns
    BY Kept, VoiceTypes DEF Turns
  <2> QED
    BY <1>2, <1>14, <2>1, VoiceTypes DEF VoiceInv, Spoken
<1>16. SpeakingIsInterruptible'
  BY <1>2, <1>14 DEF VoiceInv, SpeakingIsInterruptible, Done
<1> QED
  BY <1>9, <1>10, <1>11, <1>12, <1>13, <1>15, <1>16 DEF VoiceInv

LEMMA VoiceNextInv == ASSUME VoiceInv, [VoiceNext]_voiceVars PROVE VoiceInv'
<1>1. ASSUME NEW t \in Turns, Turn(t) \/ synthesize_fails(t) PROVE VoiceInv'
  BY <1>1, ProcessInv, CreateInv, SpeechInv, CancelInv DEF Turn
<1>2. CASE Loop
  BY <1>2, InterruptedInv, SocketInv, AudioInv, StartInv, FinallyInv DEF Loop
<1>3. CASE Client
  BY <1>3, SocketInv, ReceiveInv DEF Client
<1> QED
  BY <1>1, <1>2, <1>3, SocketInv DEF VoiceNext

LEMMA Invariance == VoiceSpec => []VoiceInv
<1>1. VoiceInit => VoiceInv
  BY VoiceInitInv, VoiceAssumption
<1>2. VoiceInv /\ [VoiceNext]_voiceVars => VoiceInv'
  BY VoiceNextInv
<1> QED
  BY <1>1, <1>2, PTL DEF VoiceSpec

LEMMA OneLive == VoiceInv => OneTurnAtATime
BY OthersDone DEF VoiceInv, OneTurnAtATime, Live

\* For any number of utterances, however fast the client commits them: _cancel_pending_turn
\* waits, and a task ends only after those it has created, so a turn starts after the last
\* task of the turn before it.
THEOREM OneReplyAtATime == VoiceSpec => []OneTurnAtATime
BY Invariance, OneLive, PTL

\* While emit_tts runs, the flag and the handle that a barge-in needs are its own: they are
\* dropped only by cancel_all, clear_session and run_turn after the task has ended.
THEOREM SpeechIsInterruptible == VoiceSpec => []SpeakingIsInterruptible
<1>1. VoiceInv => SpeakingIsInterruptible
  BY DEF VoiceInv
<1> QED
  BY <1>1, Invariance, PTL

LEMMA SilentStep == ASSUME VoiceInv, [VoiceNext]_voiceVars PROVE \A t \in silenced : said'[t] = said[t]
<1> SUFFICES ASSUME NEW t \in silenced PROVE said'[t] = said[t]
  OBVIOUS
<1>1. t \in Turns /\ task["tts"][t] \in {"done", "failed"}
  BY VoiceTypes DEF VoiceInv, Spoken
<1>2. ASSUME NEW s \in Turns, try_flushes(s) \/ emit_tts_ends(s) PROVE said'[t] = said[t]
  <2>1. s # t
    BY <1>1, <1>2 DEF try_flushes, emit_tts_ends, Runs
  <2> QED
    BY <1>1, <1>2, <2>1, WordsTyped DEF try_flushes, emit_tts_ends, flush_rest
<1>3. CASE Client \/ Loop \/ expire_stale_sessions \/ UNCHANGED voiceVars
  BY <1>3 DEF Client, Loop, voice_websocket, create, disconnect, tick, receive, interrupted, handle_control,
     session_end, handle_audio_in, start_turn, receive_disconnect, begin_finally, end_finally,
     expire_stale_sessions, voiceVars, turnVars
<1>4. ASSUME NEW s \in Turns, Turn(s) \/ synthesize_fails(s) PROVE said'[t] = said[t]
  BY <1>2, <1>4 DEF Turn, process_utterance, run_stt, transcribed, run_chat_turn, run_turn, delta, stream_ends,
     turn_ends, chat_turn_ends, cancelled, synthesize_fails
<1> QED
  BY <1>3, <1>4 DEF VoiceNext

\* After the interrupted frame no step of the connection sends audio of the reply it cut off.
THEOREM InterruptedIsSilent == VoiceSpec => BargeInSilences
<1>1. VoiceInv /\ [VoiceNext]_voiceVars => [\A t \in silenced : said'[t] = said[t]]_voiceVars
  BY SilentStep
<1> QED
  BY <1>1, Invariance, PTL DEF VoiceSpec, BargeInSilences
=============================================================================
