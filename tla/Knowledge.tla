---- MODULE Knowledge ----
(***************************************************************************)
(* Documents: upload, indexing inside the request or by a background job,  *)
(* deletion, and the retrieval that answers questions from the chunks.     *)
(*                                                                         *)
(* Every request and every run of the job handler is one database          *)
(* transaction, at READ COMMITTED: nothing of it is seen before its        *)
(* commit, and the first writer of a row makes the next one wait.  The job *)
(* is enqueued in a transaction of its own, committed at once.  A handler  *)
(* may be cancelled by its timeout or die with its process; runs of one    *)
(* job do not overlap (JobQueue).                                          *)
(***************************************************************************)
EXTENDS Integers, Sequences, FiniteSets, SequencesExt

CONSTANTS
    Docs,         \* documents, one per upload
    Children,     \* the embedded chunks of a document; all have one parent
    Quota,        \* effective_authenticated_daily_upload_quota
    MaxAttempts,  \* max_attempts of an indexing job
    MaxRetries,   \* bound: dead letters retried by an operator
    CandidateK,   \* rows a search returns
    RrfK,         \* settings.rrf_k
    TopN,         \* rerank_top_n
    Budget        \* blocks that fit in rag_context_max_chars

ASSUME BoundsAssumption ==
    /\ RrfK \in Nat \ {0} /\ TopN \in Nat \ {0} /\ MaxAttempts \in Nat \ {0} /\ Quota \in Nat
    /\ Budget \in Nat

VARIABLES
    runner,    \* settings.rag_indexing_runner: "sync" or "queue"
    doc,       \* committed status of each document row
    chunks,    \* committed chunks of each document, embedded or not
    staging,   \* documents with committed upload bytes
    used,      \* committed upload counter of the day
    accepted,  \* uploads whose transaction has committed
    lock,      \* who has written each document's row and not committed
    counter,   \* who has written the upload counter and not committed
    request,   \* the upload request of each document
    deleting,  \* the delete request of each document
    job,       \* the indexing job of each document
    handler,   \* the run of its handler
    retries,   \* dead letters retried so far
    forgone,   \* history: documents whose bytes went by retention or by a commit that raised
    query      \* the question being answered

docVars == <<doc, chunks, staging, used, accepted>>
vars == <<runner, docVars, lock, counter, request, deleting, job, handler, retries, forgone, query>>

None == "none"

ASSUME DocsAssumption == None \notin Docs

\* A chunk row: a child or the parent, with or without its embedding.
Chunk == [of : Children \cup {"parent"}, embedded : BOOLEAN]

\* What run_indexing_work stores: every child embedded, the parent not.
Indexed == { c \in Chunk : c.embedded <=> c.of # "parent" }

\* The row of an indexing job: cause says why its last run did not succeed.
Job == [status : {"none", "queued", "running", "succeeded", "dead"}, attempts : 0..MaxAttempts,
        cause : {"none", "document not found", "bytes not found", "indexing failed", "lost"}]

NoJob   == [status |-> "none", attempts |-> 0, cause |-> "none"]
NoQuery == [pc |-> "idle", mode |-> "none", dense |-> <<>>, lexical |-> <<>>, blocks |-> <<>>]

Init ==
    /\ runner \in {"sync", "queue"}
    /\ doc = [d \in Docs |-> "absent"]
    /\ chunks = [d \in Docs |-> {}]
    /\ staging = {}
    /\ used \in 0..Quota        \* earlier uploads of the day
    /\ accepted = used
    /\ lock = [d \in Docs |-> None]
    /\ counter = None
    /\ request = [d \in Docs |-> "new"]
    /\ deleting = [d \in Docs |-> "idle"]
    /\ job = [d \in Docs |-> NoJob]
    /\ handler = [d \in Docs |-> "idle"]
    /\ retries = 0
    /\ forgone = {}
    /\ query = NoQuery

-----------------------------------------------------------------------------
(* The document store: what its statements see and leave when committed *)

get_owned_document(d) == doc[d] # "absent"

store_upload_staging(d) == staging \cup {d}

delete_upload_staging(d) == staging \ {d}

\* The parent's text, by the id that its children carry.
get_chunk_contents_by_ids(d) == { c \in chunks[d] : c.of = "parent" }

-----------------------------------------------------------------------------
(* Upload *)

\* Faulty: the count is read without waiting for the row.
try_reserve_Unlocked(d) ==
    /\ used < Quota
    /\ counter' = d

\* reserve_upload: the upsert waits for the counter's row, then adds one while
\* the count is below the quota.
try_reserve(d) ==
    /\ counter = None
    /\ used < Quota
    /\ counter' = d

\* ingest_document up to the indexing runner: reserve, create the row, and in
\* queue mode store the bytes, all uncommitted.
ingest_document(d) ==
    /\ request[d] = "new"
    /\ try_reserve(d)
    /\ request' = [request EXCEPT ![d] = "created"]
    /\ UNCHANGED <<runner, docVars, lock, deleting, job, handler, retries, forgone, query>>

\* Not a supported type, too large, or over the quota: nothing was written.
refused(d) ==
    /\ request[d] = "new" /\ counter = None
    /\ request' = [request EXCEPT ![d] = "refused"]
    /\ UNCHANGED <<runner, docVars, lock, counter, deleting, job, handler, retries, forgone, query>>

\* SyncIndexingRunner.submit: the whole of run_indexing_work in the request.
submit_sync(d) ==
    /\ request[d] = "created" /\ runner = "sync"
    /\ request' = [request EXCEPT ![d] = "indexed"]
    /\ UNCHANGED <<runner, docVars, lock, counter, deleting, job, handler, retries, forgone, query>>

\* QueueIndexingRunner.submit: the job is committed here and now.
submit_queue(d) ==
    /\ request[d] = "created" /\ runner = "queue"
    /\ job' = [job EXCEPT ![d].status = "queued"]
    /\ request' = [request EXCEPT ![d] = "enqueued"]
    /\ UNCHANGED <<runner, docVars, lock, counter, deleting, handler, retries, forgone, query>>

\* An exception in parsing, embedding or storing, a rate limit on the queue, the
\* request's timeout or a crash.  The quota is released and the document marked
\* failed in the same transaction, which is then rolled back with the rest.
ingest_fails(d) ==
    /\ request[d] \in {"created", "indexed", "enqueued"}
    /\ counter' = None
    /\ request' = [request EXCEPT ![d] = "failed"]
    /\ UNCHANGED <<runner, docVars, lock, deleting, job, handler, retries, forgone, query>>

\* The session dependency commits after the route has returned.
commit_upload(d) ==
    /\ request[d] \in {"indexed", "enqueued"}
    /\ doc' = [doc EXCEPT ![d] = IF request[d] = "indexed" THEN "ready" ELSE "pending"]
    /\ chunks' = [chunks EXCEPT ![d] = IF request[d] = "indexed" THEN Indexed ELSE {}]
    /\ staging' = IF request[d] = "indexed" THEN staging ELSE store_upload_staging(d)
    /\ used' = used + 1
    /\ accepted' = accepted + 1
    /\ counter' = None
    /\ request' = [request EXCEPT ![d] = "accepted"]
    /\ UNCHANGED <<runner, lock, deleting, job, handler, retries, forgone, query>>

-----------------------------------------------------------------------------
(* Deletion *)

\* get_owned_document finds the row; the deletion of its chunks and of the row
\* itself waits for whoever has written the row.
delete_document(d) ==
    /\ request[d] = "accepted" /\ deleting[d] = "idle"
    /\ deleting' = [deleting EXCEPT ![d] = IF get_owned_document(d) THEN "waiting" ELSE "done"]
    /\ UNCHANGED <<runner, docVars, lock, counter, request, job, handler, retries, forgone, query>>

\* The foreign keys cascade to chunks and staged bytes.
commit_delete(d) ==
    /\ deleting[d] = "waiting" /\ lock[d] = None
    /\ doc' = [doc EXCEPT ![d] = "absent"]
    /\ chunks' = [chunks EXCEPT ![d] = {}]
    /\ staging' = delete_upload_staging(d)
    /\ deleting' = [deleting EXCEPT ![d] = "done"]
    /\ UNCHANGED <<runner, used, accepted, lock, counter, request, job, handler, retries, forgone, query>>

-----------------------------------------------------------------------------
(* The indexing job *)

Settled(d, status, cause) ==
    job' = [job EXCEPT ![d].status = status, ![d].cause = cause]

Unlocked(d) == lock' = [lock EXCEPT ![d] = IF @ = "handler" THEN None ELSE @]

\* A worker claims the job and starts its handler.
claim(d) ==
    /\ job[d].status = "queued" /\ handler[d] = "idle"
    /\ job' = [job EXCEPT ![d].status = "running", ![d].attempts = @ + 1]
    /\ handler' = [handler EXCEPT ![d] = "reading"]
    /\ UNCHANGED <<runner, docVars, lock, counter, request, deleting, retries, forgone, query>>

\* The handler's reads: no such document, or no bytes, is not worth a retry.
not_indexable(d) ==
    /\ handler[d] = "reading"
    /\ get_owned_document(d) => doc[d] # "ready" /\ d \notin staging
    /\ Settled(d, "dead", IF get_owned_document(d) THEN "bytes not found" ELSE "document not found")
    /\ handler' = [handler EXCEPT ![d] = "idle"]
    /\ UNCHANGED <<runner, docVars, lock, counter, request, deleting, retries, forgone, query>>

\* An earlier run has committed: only its bytes may be left.
already_indexed(d) ==
    /\ handler[d] = "reading" /\ doc[d] = "ready"
    /\ staging' = delete_upload_staging(d)
    /\ handler' = [handler EXCEPT ![d] = "indexed"]
    /\ UNCHANGED <<runner, doc, chunks, used, accepted, lock, counter, request, deleting,
                   job, retries, forgone, query>>

fetch_upload_staging(d) ==
    /\ handler[d] = "reading" /\ doc[d] \notin {"absent", "ready"} /\ d \in staging
    /\ handler' = [handler EXCEPT ![d] = "working"]
    /\ UNCHANGED <<runner, docVars, lock, counter, request, deleting, job, retries, forgone, query>>

\* run_indexing_work: set_status takes the row, unless it is gone by now.
set_processing(d) ==
    /\ handler[d] = "working" /\ lock[d] = None
    /\ lock' = [lock EXCEPT ![d] = IF doc[d] = "absent" THEN None ELSE "handler"]
    /\ handler' = [handler EXCEPT ![d] = "processing"]
    /\ UNCHANGED <<runner, docVars, counter, request, deleting, job, retries, forgone, query>>

\* add_chunks: the foreign key wants the document, the unique key no chunks yet.
Storable(d) == doc[d] # "absent" /\ chunks[d] = {}

\* The chunks are stored, then embedded by an external service, while the row
\* stays locked.
embed(d) ==
    /\ handler[d] = "processing" /\ Storable(d)
    /\ handler' = [handler EXCEPT ![d] = "embedded"]
    /\ UNCHANGED <<runner, docVars, lock, counter, request, deleting, job, retries, forgone, query>>

\* Chunks, embeddings, the status and the end of the bytes, in one commit.  The
\* commit may raise although it has taken effect, when the connection is lost
\* before its answer: it is inside the try, and cleaned up like any failure.
commit_index(d) ==
    /\ handler[d] = "embedded"
    /\ doc' = [doc EXCEPT ![d] = "ready"]
    /\ chunks' = [chunks EXCEPT ![d] = Indexed]
    /\ staging' = delete_upload_staging(d)
    /\ \/ handler' = [handler EXCEPT ![d] = "indexed"] /\ forgone' = forgone
       \/ handler' = [handler EXCEPT ![d] = "unsure"] /\ forgone' = forgone \cup {d}
    /\ Unlocked(d)
    /\ UNCHANGED <<runner, used, accepted, counter, request, deleting, job, retries, query>>

\* Faulty: an exception after the commit is cleaned up as well.
index_fails_AfterCommit(d) ==
    /\ handler[d] \in {"processing", "embedded", "indexed"}
    /\ handler' = [handler EXCEPT ![d] = "cleaning"]
    /\ Unlocked(d)
    /\ UNCHANGED <<runner, docVars, counter, request, deleting, job, retries, forgone, query>>

\* Any exception before the commit rolls the work back; cleanup_failed_indexing
\* then waits for the row.
index_fails(d) ==
    /\ handler[d] \in {"processing", "embedded"}
    /\ handler' = [handler EXCEPT ![d] = "cleaning"]
    /\ Unlocked(d)
    /\ UNCHANGED <<runner, docVars, counter, request, deleting, job, retries, forgone, query>>

\* Whether this was the last attempt.
Exhausted(d) == job[d].attempts >= MaxAttempts

\* Faulty: the bytes go with the first failure.
cleanup_failed_indexing_Bytes(d) ==
    /\ handler[d] \in {"cleaning", "unsure"} /\ lock[d] = None
    /\ doc' = [doc EXCEPT ![d] = IF @ = "absent" THEN @ ELSE "failed"]
    /\ chunks' = [chunks EXCEPT ![d] = {}]
    /\ staging' = delete_upload_staging(d)
    /\ handler' = [handler EXCEPT ![d] = "idle"]
    /\ Settled(d, IF Exhausted(d) THEN "dead" ELSE "queued", "indexing failed")
    /\ UNCHANGED <<runner, used, accepted, lock, counter, request, deleting, retries, forgone, query>>

\* cleanup_failed_indexing, and the bytes go with the last attempt.
cleanup_failed_indexing(d) ==
    /\ handler[d] \in {"cleaning", "unsure"} /\ lock[d] = None
    /\ doc' = [doc EXCEPT ![d] = IF @ = "absent" THEN @ ELSE "failed"]
    /\ chunks' = [chunks EXCEPT ![d] = {}]
    /\ staging' = IF Exhausted(d) THEN delete_upload_staging(d) ELSE staging
    /\ handler' = [handler EXCEPT ![d] = "idle"]
    /\ Settled(d, IF Exhausted(d) THEN "dead" ELSE "queued", "indexing failed")
    /\ UNCHANGED <<runner, used, accepted, lock, counter, request, deleting, retries, forgone, query>>

\* complete().
complete(d) ==
    /\ handler[d] = "indexed"
    /\ Settled(d, "succeeded", "none")
    /\ handler' = [handler EXCEPT ![d] = "idle"]
    /\ UNCHANGED <<runner, docVars, lock, counter, request, deleting, retries, forgone, query>>

\* The job's timeout cancels the handler, or its process dies: no clean-up, the
\* transaction is rolled back, and the worker, or the sweep once the lease has
\* expired, requeues the job or gives it up.
lost(d) ==
    /\ handler[d] # "idle"
    /\ handler' = [handler EXCEPT ![d] = "idle"]
    /\ Unlocked(d)
    /\ Settled(d, IF Exhausted(d) THEN "dead" ELSE "queued", "lost")
    /\ UNCHANGED <<runner, docVars, counter, request, deleting, retries, forgone, query>>

\* An operator retries a dead letter.
retry_dead_letter(d) ==
    /\ job[d].status = "dead" /\ retries < MaxRetries
    /\ job' = [job EXCEPT ![d] = [NoJob EXCEPT !.status = "queued"]]
    /\ retries' = retries + 1
    /\ UNCHANGED <<runner, docVars, lock, counter, request, deleting, handler, forgone, query>>

\* The retention job deletes bytes by their age alone, which nothing relates to
\* the state of the job that is to index them.
purge_staging(d) ==
    /\ d \in staging
    /\ staging' = delete_upload_staging(d)
    /\ forgone' = forgone \cup {d}
    /\ UNCHANGED <<runner, doc, chunks, used, accepted, lock, counter, request, deleting,
                   job, handler, retries, query>>

-----------------------------------------------------------------------------
(* Retrieval *)

\* The best rows of a search, in the order of their scores: at most CandidateK.
Ranked(rows) ==
    UNION { SetToSeqs(best) : best \in { b \in SUBSET rows :
               /\ IsFiniteSet(b)
               /\ Cardinality(b) = CandidateK \/ (b = rows /\ Cardinality(b) < CandidateK) } }

\* What s holds at the positions K, in their order: the one element of this set.
Picked(s, K) ==
    { [k \in DOMAIN at |-> s[at[k]]] :
         at \in { f \in SetToSeqs(K) : \A i, j \in DOMAIN f : i < j => f[i] < f[j] } }

\* The committed rows of the kinds S that a search may return.
Rows(S) == UNION { { <<d, c.of>> : c \in chunks[d] \cap S } : d \in Docs }

\* Retrieval takes the advanced pipeline or the plain one, by a setting.
ask ==
    /\ query.pc = "idle"
    /\ \E mode \in {"advanced", "plain"} : query' = [query EXCEPT !.pc = "asked", !.mode = mode]
    /\ UNCHANGED <<runner, docVars, lock, counter, request, deleting, job, handler, retries, forgone>>

\* similarity_search: the chunks that have an embedding.
similarity_search ==
    /\ query.pc = "asked"
    /\ \E s \in Ranked(Rows({c \in Chunk : c.embedded})) :
          query' = [query EXCEPT !.pc = "dense", !.dense = s]
    /\ UNCHANGED <<runner, docVars, lock, counter, request, deleting, job, handler, retries, forgone>>

\* The plain pipeline takes the chunks as they are.
retrieve ==
    /\ query.pc = "dense" /\ query.mode = "plain"
    /\ query' = [query EXCEPT !.pc = "ranked", !.dense = <<>>,
                    !.blocks = [i \in DOMAIN query.dense |->
                        [doc |-> query.dense[i][1], chunk |-> query.dense[i][2], text |-> query.dense[i][2]]]]
    /\ UNCHANGED <<runner, docVars, lock, counter, request, deleting, job, handler, retries, forgone>>

\* lexical_search: every chunk but the parents, embedded or not.
lexical_search ==
    /\ query.pc = "dense" /\ query.mode = "advanced"
    /\ \E rows \in SUBSET Rows({c \in Chunk : c.of # "parent"}) : \E s \in Ranked(rows) :
          query' = [query EXCEPT !.pc = "found", !.lexical = s]
    /\ UNCHANGED <<runner, docVars, lock, counter, request, deleting, job, handler, retries, forgone>>

\* reciprocal_rank_fusion: 1 / (k + rank) summed over the lists, on a common
\* denominator; ties keep the order of first appearance.  One sequence is so ordered.
reciprocal_rank_fusion(dense, lexical) ==
    LET all == Range(dense) \cup Range(lexical)
        n == Cardinality(all)
        scale[i \in 0..n] == IF i = 0 THEN 1 ELSE scale[i - 1] * (RrfK + i)
        share(s, x) == IF x \in Range(s)
                       THEN scale[n] \div (RrfK + (CHOOSE i \in DOMAIN s : s[i] = x)) ELSE 0
        score(x) == share(dense, x) + share(lexical, x)
        seen == dense \o SelectSeq(lexical, LAMBDA x : x \notin Range(dense))
        first(x) == CHOOSE i \in DOMAIN seen : seen[i] = x
        before(x, y) == score(x) > score(y) \/ (score(x) = score(y) /\ first(x) < first(y))
    IN  { s \in SetToSeqs(all) : \A i, j \in DOMAIN s : i < j => before(s[i], s[j]) }

\* expand_parents: the best child of each parent carries the parent's text, or
\* its own when the parent is gone by now.
expand_parents(cands) ==
    LET with_parent(x) ==
            [doc |-> x[1], chunk |-> x[2],
             text |-> IF get_chunk_contents_by_ids(x[1]) # {} THEN "parent" ELSE x[2]]
    IN  Picked([i \in DOMAIN cands |-> with_parent(cands[i])],
               { i \in DOMAIN cands : \A j \in 1..(i - 1) : cands[j][1] # cands[i][1] })

\* The first top_n of the candidates that the results at the positions K name.
TopOf(cands, results, K) ==
    { SubSeq(r, 1, IF Len(r) < TopN THEN Len(r) ELSE TopN) :
         r \in Picked([i \in K |-> cands[results[i]]], K) }

\* Faulty: an index that is repeated is taken again.
_apply_rerank_results_Repeats(cands, results) ==
    TopOf(cands, results, { i \in DOMAIN results : results[i] \in DOMAIN cands })

\* _apply_rerank_results: results may come in any order, repeat an index or name
\* one that does not exist; at most top_n are taken.
_apply_rerank_results(cands, results) ==
    TopOf(cands, results, { i \in DOMAIN results : /\ results[i] \in DOMAIN cands
                                                  /\ \A j \in 1..(i - 1) : results[j] # results[i] })

\* The hybrid result, expanded: the parents are read in a statement of their own.
expand ==
    /\ query.pc = "found"
    /\ \E fused \in reciprocal_rank_fusion(query.dense, query.lexical) :
         \E parents \in expand_parents(fused) :
            query' = [query EXCEPT !.pc = "expanded", !.dense = <<>>, !.lexical = <<>>,
                                   !.blocks = parents]
    /\ UNCHANGED <<runner, docVars, lock, counter, request, deleting, job, handler, retries, forgone>>

\* rerank: a failure or an unusable answer keeps the order; otherwise the scores
\* that came with the results decide, whatever the order they came in.
rerank ==
    /\ query.pc = "expanded"
    /\ \E n \in 0..2 : \E results \in [1..n -> 0..(Len(query.blocks) + 1)] :
          \E r \in _apply_rerank_results(query.blocks, results) :
             \E rank \in Bijection(DOMAIN r, DOMAIN r) :
                query' = [query EXCEPT !.pc = "ranked",
                             !.blocks = IF r = <<>> THEN @ ELSE [k \in DOMAIN r |-> r[rank[k]]]]
    /\ UNCHANGED <<runner, docVars, lock, counter, request, deleting, job, handler, retries, forgone>>

\* No reranker, no candidates, or one that raises: the order is kept, and all of it.
_maybe_rerank ==
    /\ query.pc = "expanded"
    /\ query' = [query EXCEPT !.pc = "ranked"]
    /\ UNCHANGED <<runner, docVars, lock, counter, request, deleting, job, handler, retries, forgone>>

\* The guardrail drops blocks one by one.
Guarded == UNION { Picked(query.blocks, K) : K \in SUBSET DOMAIN query.blocks }

\* In the advanced pipeline after the reranking ...
_filter_guarded_candidates ==
    /\ query.pc = "ranked" /\ query.mode = "advanced"
    /\ \E kept \in Guarded : query' = [query EXCEPT !.pc = "guarded", !.blocks = kept]
    /\ UNCHANGED <<runner, docVars, lock, counter, request, deleting, job, handler, retries, forgone>>

\* ... and in the plain one after the search.
_filter_guarded_chunks ==
    /\ query.pc = "ranked" /\ query.mode = "plain"
    /\ \E kept \in Guarded : query' = [query EXCEPT !.pc = "guarded", !.blocks = kept]
    /\ UNCHANGED <<runner, docVars, lock, counter, request, deleting, job, handler, retries, forgone>>

\* _empty_response: nothing retrieved, or nothing left, and no call of the LLM.
_empty_response ==
    /\ query.pc = "guarded" /\ query.blocks = <<>>
    /\ query' = NoQuery
    /\ UNCHANGED <<runner, docVars, lock, counter, request, deleting, job, handler, retries, forgone>>

\* The plain pipeline drops blocks from the end until the rest fits the budget.
build ==
    /\ query.pc = "guarded" /\ query.mode = "plain" /\ query.blocks # <<>>
    /\ \E n \in 0..Len(query.blocks) :
          query' = [query EXCEPT !.pc = "cited", !.blocks = SubSeq(@, 1, n)]
    /\ UNCHANGED <<runner, docVars, lock, counter, request, deleting, job, handler, retries, forgone>>

\* What fits the budget, in rank order; the citations number the same blocks.
compress ==
    /\ query.pc = "guarded" /\ query.mode = "advanced" /\ query.blocks # <<>>
    /\ query' = [query EXCEPT !.pc = "cited",
                    !.blocks = SubSeq(@, 1, IF Len(@) < Budget THEN Len(@) ELSE Budget)]
    /\ UNCHANGED <<runner, docVars, lock, counter, request, deleting, job, handler, retries, forgone>>

\* The response.
answer ==
    /\ query.pc = "cited"
    /\ query' = NoQuery
    /\ UNCHANGED <<runner, docVars, lock, counter, request, deleting, job, handler, retries, forgone>>

-----------------------------------------------------------------------------
Upload(d) ==
    \/ ingest_document(d) \/ refused(d) \/ submit_sync(d) \/ submit_queue(d)
    \/ ingest_fails(d) \/ commit_upload(d)

Delete(d) == delete_document(d) \/ commit_delete(d)

Handler(d) ==
    \/ not_indexable(d) \/ already_indexed(d) \/ fetch_upload_staging(d) \/ set_processing(d)
    \/ embed(d) \/ commit_index(d) \/ index_fails(d) \/ cleanup_failed_indexing(d) \/ complete(d)

Ask ==
    \/ ask \/ similarity_search \/ retrieve \/ lexical_search \/ expand \/ rerank \/ _maybe_rerank
    \/ _filter_guarded_candidates \/ _filter_guarded_chunks \/ _empty_response
    \/ build \/ compress \/ answer

Next ==
    \/ \E d \in Docs : Upload(d) \/ Delete(d) \/ claim(d) \/ Handler(d) \/ lost(d)
                          \/ retry_dead_letter(d) \/ purge_staging(d)
    \/ Ask

Spec == Init /\ [][Next]_vars

-----------------------------------------------------------------------------
(* Properties *)

TypeOK ==
    /\ doc \in [Docs -> {"absent", "pending", "ready", "failed"}]
    /\ \A d \in Docs : chunks[d] \subseteq Chunk
    /\ staging \subseteq Docs
    /\ lock \in [Docs -> {None, "handler"}] /\ counter \in Docs \cup {None}
    /\ job \in [Docs -> Job]

\* A document that was once ready is never taken back by a later run of its job:
\* not by a run after a crash between the commit and complete(), and not by a
\* dead letter that is retried.  Only its owner's delete removes it, and the
\* clean-up after a commit that took effect and raised.
ReadyStaysReady ==
    [][\A d \in Docs : doc[d] = "ready" =>
          \/ doc'[d] = "ready" /\ chunks'[d] = chunks[d]
          \/ doc'[d] = "absent" /\ deleting[d] = "waiting"
          \/ handler[d] = "unsure"]_vars

\* Rows keep their types, and while the job of an accepted document may run again, the bytes it needs are
\* there: not taken by a failed attempt or by a run that was lost.  They may be
\* gone only when they outlived the retention while the job waited, when the commit
\* that deleted them was taken for a failure, or after a dead letter was retried.
BytesKeptForRetry ==
    /\ TypeOK
    /\ \A d \in Docs \ forgone :
        /\ doc[d] \in {"pending", "failed"}
        /\ job[d].status \in {"queued", "running"} /\ retries = 0
        => d \in staging

\* No more uploads are accepted in a day than the quota, however many are under
\* way at once and whichever of them fail.
UploadsWithinQuota == accepted <= Quota

\* No text is repeated among the numbered blocks of an answer, whatever the
\* searches and the reranker return and whatever is deleted meanwhile.
BlocksDistinct ==
    query.pc \in {"ranked", "guarded", "cited"} =>
        \A i, j \in DOMAIN query.blocks :
            i # j => <<query.blocks[i].doc, query.blocks[i].text>>
                        # <<query.blocks[j].doc, query.blocks[j].text>>

====
