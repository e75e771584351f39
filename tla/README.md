# TLA+ verification of fullstack-ai-platform

A verification project for the Python backend of the platform
(`src/backend-python/app`): TLA+ modules translated from the source, TLC
configurations that check them on small instances, and TLAPS proofs of the
results that matter most for every value of the constants.

Paths below are relative to `src/backend-python/app` unless they start with
`src/`.

1. [The system](#1-the-system)
2. [Modules and the code they model](#2-modules-and-the-code-they-model)
3. [Runs](#3-runs)
4. [Fairness](#4-fairness)
5. [Proofs](#5-proofs)
6. [Where the code and its documents disagree](#6-where-the-code-and-its-documents-disagree)
7. [Plan](#7-plan)
8. [Not modelled](#8-not-modelled)

## 1. The system

The backend is a FastAPI application over PostgreSQL.  Several processes may run
it at once.  Inside a process everything is asyncio, so state can change under a
reader at every `await`; between processes it changes with every committed
transaction.  Most components keep their state in tables and talk to each other
through them; a few keep it in the memory of one process.

| Component | State | Operations | Interacts with | What is hard | What makes it correct |
| --- | --- | --- | --- | --- | --- |
| Background job queue and worker (`ai/jobs/queue.py`, `worker.py`, `retry.py`) | `background_jobs` rows: status, attempts, version, run_at, lease; the copies workers hold | enqueue, claim with lease, dispatch, settle, cancel, operator retry, retention | scheduler, every handler | takeover of leases, late settlements, crashes, lost commits, shutdown | one handler per job at a time; only the claimant settles; attempts bounded; every job settles |
| Job scheduler (`ai/jobs/scheduler.py`, `schedule_store.py`, `background.py`) | `background_job_schedules` row; idempotency keys | reconcile settings, list due, enqueue and advance | job queue | several schedulers, stale reads, clock skew, rolling deployments | one job per tick, missed ticks skipped; disabled is silent |
| Human-in-the-loop approvals (`ai/hitl`, `routers/approvals.py`, sweep handlers) | `agent_tool_approvals` row with pause snapshot and checklist; placeholder chat message | pause, read, revise, stage, approve and resume, reject, cancel, expire, orphan sweep | agent runtime, tools, job queue, chat | racing deciders, a transaction open while tools run, failure after side effects | a decision is final; refused calls never run; approved calls run with the recorded arguments |
| Workflow engine (`ai/workflow/engine`, `manager.py`, `providers`, `retry`) | runs, node executions, checkpoints; per-process register of active runs | start, execute, pause, decide, cancel, resume, recover | HITL, tools, agent runtime | parallel branches on one session, two executors on one run, recovery from partial checkpoints | cancellation and results stay; effects are not repeated; the run settles |
| Workflow definitions (`ai/workflow/graph`, `manager.py`, the workflow tool) | definitions by version, runs by idempotency key | validate, create, update, archive, launch | workflow engine | the validator's graph algorithms, repeated launches | what is executed was validated; a launch is one run |
| Chat turns (`services/chat_service.py`, `unified_chat_service.py`, `tool_chat_service.py`, `db/chat.py`) | sessions, numbered messages, summaries, guest quota | turn on four routes, retry by client_message_id, stream, stop, summarise, delete | agent runtime, memory, HITL | concurrent turns of a session, disconnected streams, retries | numbers without gap; a retry gets its own reply; the context is whole |
| Agent runtime and tools (`ai/agent`, `ai/tools`, the tool loops of the chat services) | one execution: status, budgets, scratchpad, calls in flight, event stream | plan, run calls, retry, reflect, pause, resume, stream | tools, HITL, providers | parallel calls, failures and cancellation half way, budgets over a pause | every call is answered; nothing flagged runs unapproved; the run ends |
| Voice sessions (`ai/voice`, `routers/voice.py`) | one connection, the tasks of its turns, interrupt state | open, transcribe, answer, speak, interrupt, expire, tear down | chat | tasks that wait for and cancel one another | one turn at a time; an interrupted reply is silent; nothing outlives the connection |
| Plugins and MCP servers (`ai/plugins`, `ai/mcp`, `ai/tools/registry.py`, `main.py`) | registries, subprocess pipe, request ids | load, stage, commit, roll back, connect, discover, call, disconnect | tools | threads that go on after their timeout, late answers, two callers on one pipe | all or nothing per plugin; an answer is one's own; startup and shutdown end |
| Documents and retrieval (`services/knowledge_service.py`, `ai/rag`, `ai/jobs/handlers/rag_indexing.py`) | documents, staged bytes, chunks, upload counter, one question | upload, index, retry, delete, search, fuse, expand, rerank, cite | job queue | lost handlers, clean-up, deletion meanwhile | ready stays ready; bytes outlive the attempts; the quota holds |
| Memory (`ai/memory`) | records with lifecycle state | extract, deduplicate, persist, consolidate, archive, expire, delete, retrieve | chat | fire-and-forget passes over rows others change | nothing is forgotten by housekeeping; duplicates settle |
| Roles, quotas, rate limits, identity (`ai/security`, `middleware/rate_limit.py`, `services/auth_service.py`, `core/caller.py`) | assignments, accounts, guests, windows, counters, audit | log in, link, admit, reserve, grant, revoke, bootstrap | every router | check-then-act, caches, rounding | always an owner; who waits as told is admitted |

`PROJECT.json` lists these and the remaining parts with the reason each is left
out.  Its `hazards` are the places where the behaviour is hard to test, each at
its line with the properties that cover it.

## 2. Modules and the code they model

| Module | What it is |
| --- | --- |
| `JobQueue`, `JobQueueProofs` | the `background_jobs` table and the workers that poll it; proofs, the refinement included |
| `JobLifecycle` | abstract specification: what the queue promises of one job |
| `JobScheduler`, `JobSchedulerProofs` | processes that poll one recurring schedule; proofs, with those of `Memory` |
| `AgentApproval`, `AgentApprovalProofs` | one approval with its requests and sweeps; proofs, with those of `AccessLimits` |
| `WorkflowGraph` | which nodes of a definition are ready, grouped or skipped |
| `WorkflowRun`, `WorkflowRunProofs` | one workflow run, its executors and requests; proofs |
| `WorkflowDefinitions`, `WorkflowDefinitionsProofs` | the graph validator, the definitions and the launch of runs; proofs, with those of `Integrations` |
| `ChatTurn`, `ChatTurnProofs` | concurrent chat turns over the tables of one chat; proofs |
| `AgentRun`, `AgentRunProofs` | one agent execution, or one of the plain tool loops; proofs |
| `VoiceSession` | one voice connection and its asyncio tasks |
| `Integrations` | the process from startup to shutdown: plugins, MCP servers, tool calls |
| `Knowledge`, `KnowledgeProofs` | documents from upload to deletion, and a question answered meanwhile; proofs, with those of `VoiceSession` |
| `Memory` | memories of one user and the passes over them |
| `AccessLimits` | requests from the rate limit to the audit record |
| `MC...` | instances for TLC |

Operators marked *Faulty* are wrong forms of the definition that follows them (or
of the one their name begins with).  No specification uses them; each is a
plausible slip, and TLC finds a property violated when it takes the place of the
right form.

Several named parts are checked together where they share an instance: `JobsSafe`,
`TicksExact`, `ApprovalSafe`, `RunEndsOnce` and the like are conjunctions whose
conjuncts are the statements to read.

`VoiceSession`, `Integrations`, `Memory` and `AccessLimits` prefix the names of their
specification (`VoiceSpec`, `LifespanSpec`, `MemorySpec`, `AccessSpec`, and so on),
because a module of proofs extends each of them beside another component.  The two
share no variable, and neither proof uses the other's definitions.

### JobQueue

`row` is the table, one record per job; `disp[w][j]` is the copy of job `j` that
worker `w` got from `claim_due` and has not settled; `wstate` and `shutdown` are
the control state of `JobWorker.run_forever`.

* One committed transaction is one action: `enqueue`, `claim_due` (the sweep of
  exhausted leases and the claim of at most `BatchSize` due or expired rows),
  `settle` (`complete` or `fail` with retry, backoff or dead letter), `cancel`,
  `retry_dead_letter`, `delete_background_jobs`.
* Between them the worker moves a copy from claimed to handling (`dispatch`) to
  returned (`handler_returns`, `handler_timeout`).
* Failures: `Crash` loses a worker with its copies; `settle_error` loses the
  settling transaction; `claim_due_error` is a failure after the claim committed,
  which also ends the loop, since `run_forever` does not catch it.
* Timestamps are relative to `now()`, and `Tick` ages them down to the oldest
  value a query can tell apart: time is unbounded although the state is not.

Assumptions. `LeaseAssumption` (`DispatchSlack + HandlerTimeout <= LeaseSeconds`)
is stronger than the start-up check of the settings, `timeout < lease`: the
margin has to cover the delay between the claim and the start of the handler,
which the code leaves to the event loop.  All jobs have one `max_attempts`.
`retry_at` is computed on the worker's clock, which the model takes to agree with
the database's.  The retention `DELETE` is atomic; under READ COMMITTED its
subquery does not lock, so a dead letter retried in between could be deleted.
The version of a row is bounded by `MaxVersion` through the operator's retry, the
only way to make it grow for ever.

### JobLifecycle

Eight transitions over status and attempts, with no workers, leases, versions or
clocks.  `JobQueue!ImplementsLifecycle` maps each row to its status and attempt
count.  `Knowledge` uses the queue as `JobLifecycle` describes it: its job is
claimed, lost, retried and dead-lettered without workers or leases.

### JobScheduler

One schedule (schedules are independent rows), polled by `Procs`.  A process
starts, reconciles the row's status with its own settings (`get_by_name`,
`set_status` with a version check and `ReconcileAttempts` tries) and then loops:
`tick_once` reads a clock that may be `Skew` off, `list_due` reads the row,
`process_schedule` is the transaction that enqueues the tick's job and advances
the schedule, rolled back when the version moved.  `keys` is the unique index on
the idempotency key, which retention empties again; `fired` is a history variable
that remembers what it forgets.

### AgentApproval

`row` is the committed approval with its placeholder message; `draft` is what the
transaction that holds the row lock (`lock`) has written; `txn` is what each
request or sweep is doing and the row it last read.

* A request's first read is `Begin`; `expire_if_due` is the lazy expiry of
  `get_for_owner`; `resolve_approval_for_decider` is the second read of a decider;
  then one compare-and-swap action per operation (`cas_revise`, `cas_cancel`,
  `decide_rejected`, `record_stage_approval`, `approve_and_resume`).
* An approval goes on inside the same transaction: `execute_approved_calls`,
  `ContinuationEnds` or `ContinuationRaises`, `Commit` or `Rollback`.
* `list_orphaned_approved_snapshots` and `claim_pause_snapshot` are the orphan
  sweep with its attempts; `list_pending_past_timeout_hours` and
  `cas_expire_pending_sweep` the expiry sweep.
* `Disconnect` cancels the request's task: the session dependency then commits or
  rolls back, depending on whether a database call was broken off.  `Crash` loses
  the transaction.

Abstractions. The arguments of the proposed calls are one payload and each edit
another.  `now()` is the start of the transaction, so only the first read of a
request can find the deadline passed.  A failing tool is reported in the result;
an exhausted quota or rate limit raises (`ai/tools/executor.py:204`, `:227`), which
is `ContinuationRaises` before anything was executed.  Access checks are left out:
every request is one its caller may make.  Reads that change nothing are not actions.
`rollback_last_stage_decision` is not modelled: the row lock taken by
`append_stage_decision` is held when `cas_decide` runs, so that statement cannot
miss.

### WorkflowGraph and WorkflowRun

`WorkflowGraph` is `ai/workflow/graph/traversal.py`: pure operators over a
definition (`Nodes`, `Edges`, `Kind`, fork, join and policy of each) and a run
record.  The work list of `collect_nodes_to_skip` is a recursive function over the
acyclic graph; the region between a fork and its join is a least fixed point,
written as the intersection of the closed sets.

`run` is the `workflow_runs` row: `done` are the keys of `context.variables`,
`output` the edges a router or an approval selected.  `rows` are the committed
`workflow_node_executions`.  Three things carry the model:

* **The session.** `append_node_execution` only flushes.  What an executor has
  flushed is in `pend[e]`, visible to its own branches, locked for everyone else
  (`Free`), and committed by the next checkpoint of *any* of its branches.  When
  the coroutine ends, or the process is lost, it is gone.
* **The checkpoint.** `_checkpoint_with_retry` re-reads the run and repeats its
  compare-and-swap on `checkpoint_version`, so `Checkpoint` is one atomic update of
  the fresh run; a cancelled run is left alone.
* **The step loop.** `ex[e]` is `execute_run` with the run and the executions it
  read; after a parallel group the run is read again and the executions are not.
  `task[e][n]` is `_execute_node` of one node; each `await` of it is a step, so
  branches interleave.

`apply_decision`, `continue_from_approval` and `schedule_run` are the three
transactions or steps of one decision request.  `reconcile_orphaned_runs` is the
start-up that follows `Crash`, `resume_interrupted_node` and `RefuseRecovery` what
crash recovery does with a `running` row.  `StoreError` is a failing statement,
after which the other branches of the shared session may fail too.

Assumptions. `GraphAssumption`: the graph is acyclic and fork regions are disjoint
and entered at their fork, so nested forks are not covered and one group is ready
at a time.  `Overlap` is a parameter of the environment: whether a decision or a
resume may come while an executor is still active.  The code does not prevent it,
so the run has it on; the history `overlapped` remembers that it happened, and the
properties that fail from then on say so in their formulas (`OneAtATime`).
A task that reports an error had no effect; a timeout or an exception may come
after it.  Bounds: `MaxAttempts`, `MaxResumes`, and `MaxLosses` for crashes and
database errors together; `MaxRetries` is the retry policy of each node.  One process
runs the executors.

### WorkflowDefinitions

The first half is `GraphValidator`, one operator per check, with its reachability
computations (`Reached`, `_compute_approval_protected_nodes`).  A graph is a record
with its nodes, edges, kinds, fork and join pairs, conditional edges and configured
decision edges; a node's configuration is the set of its fields with a wrong shape.
The second half has the requests: create, update (in place while there are no runs,
otherwise as a new version, with the second count of the store), archive, and the
launch by `start_run` or by the workflow tool.  `executed` and `launched` remember
which graphs a run was executed with and how often its launch scheduled it; `Restart`
takes up the unfinished runs, and `workflow_run_retention_cleanup` deletes a finished
one, which frees its key and the histories with it.  One owner and one workflow name:
a definition is known by its version.

### ChatTurn

A request runs in one transaction that the router commits after the response, or
rolls back when an exception leaves the handler; `slot[p].tx` is what it has
written.  `allocate_seq` takes the session's row lock for the rest of the
transaction.  A turn is `accept`ed, checks the quota, resolves the session, finds a
`replay` or appends the user's message, and is then served on its route
(`GuestRoutes`, `UserRoutes`): a whole answer, a stream, a fixed answer, a fixed
answer on a stream, the guest denial, or a pause for approval.  `abort` is an
exception or a disconnection at any moment; `summarize` writes the rolling summary
after the answer; sessions are created, deleted, their summaries cleared, guests
linked, and `midnight` starts another quota day.  Contents, titles, sources and
token counts are left out.

### AgentRun

`cfg` says which machine runs: the agent, or one of the two plain tool loops
(without approvals, retries and reflection), with or without stream, parallel
calls, reflection, approvals, guest.  One action per step of `AgentExecutor.run`;
`call` holds the tasks of the calls in flight, which outlive the run when `gather`
raises.  A run that pauses may be resumed (`resume_from_approval`), and that
resumption may break before it reaches the executor: the approved calls are executed
after `HumanInTheLoopService` has made a scratchpad for the run and before the
`finally` that takes it away, so that a tool's quota or rate limit abandons it there
(`abandoned`).  An illegal status transition, which the code raises, blocks the model's
run, and `RunEnds` would then fail.  `open` is the conversation reduced to its calls
without a tool message.  `spent` and `granted` are observers.

### VoiceSession

Every asyncio task is a process: the receive loop, the expiry task, and for each
utterance `_process_utterance`, `_run_stt`, `run_turn` and `emit_tts`.
`Task.cancel()` is handed down to the task that is awaited (`Target`), waits in
`hit`, and is delivered by `cancelled`.  Words stand for text and audio.  The
manager is built per request, so one connection is the whole state.

### Integrations

The lifespan function in order: plugin directories (manifest, import, `register()` in
a daemon thread with a timeout, commit into four registries or rollback), the built-in
tools, the MCP servers one after the other (spawn, handshake, discovery), serving,
shutdown.  A server answers late, twice (`answer_again`), out of order, oddly or
never, and may exit at any moment.  Requests of two callers share a pipe with nothing
between them: `readline` takes the next line, whoever it is for, and `verdict` is the
comparison of ids.  `Registered` are the contributions of a plugin as they would be in
the registries; a tool of a server is registered under the name `_map_tool` gives it,
and `execute` runs a call only while that name is there.

### Knowledge

Upload with both indexing runners, the handler run by run (`fetch_upload_staging`,
`set_processing`, `embed`, `commit_index`, `cleanup_failed_indexing`, `complete`),
lost handlers, dead letters retried by hand, deletion, retention of staged bytes,
and one question through the plain or the advanced pipeline: dense and lexical
search, reciprocal rank fusion with exact arithmetic, parent expansion, reranking
with whatever an external service returns, guardrail, budget, citation.  Scores are
the orders they induce: a search returns any sequence without repetition of the rows
it may find (`Ranked`), and a step that keeps a part of a sequence keeps the order of
the positions it picks (`Picked`), which lets the pipeline be reasoned about without
recursion.  Retention deletes staged bytes by their age alone (`purge_staging`), and a
commit may take effect and raise all the same (`unsure`); `forgone` remembers the
documents to which one of the two happened.

### Memory

Two turns extract candidates (contents are numbers in the order of their scores),
deduplicate, persist with retries, and schedule a lifecycle pass that consolidates,
archives and expires, record by record, each write waiting for the transaction that
holds the row and then overwriting what it left.  The user may delete a record at any
time.  Similarity above the threshold is equality of contents.  `place` is the order
in which the store returns records of equal score, the same for every pass, and
`created` the order in which they were made: both listings a pass relies on return the
newest `Limit` rows only (100 in the code), archived ones included.  `missed`
remembers the records a pass did not get to see for that reason.

### AccessLimits

A request of any kind arrives, finds its bucket and limit (with the role cache), is
admitted or refused by the sliding window, and goes through its transaction:
login with the linking of a guest, a guest identity, a reservation of the daily
quota, or a change of roles with its checks, the advisory lock of the last-owner
query and the audit record that commits on its own.  Time is in half seconds, so
that the rounding of `Retry-After` matters.

## 3. Runs

| Run | Instance | Distinct states | Shows |
| --- | --- | --- | --- |
| `jobqueue` | 1 job, 2 workers, 3 attempts, lease 2, timeout 1, slack 1 | 113 k | `JobsSafe`, `OnlyClaimantSettles`, refinement of `JobLifecycle`, `WorkFinishes` |
| `scheduler` | 2 processes whose settings disagree, interval 2, skew 1, 2 starts, time to 3 | 333 k | `TicksExact`, `DueTickFires` |
| `approval` | 2 stages, 2 clients, 2 orphan sweeps, expiry sweep, 3 requests, 1 crash, exceptions and disconnects | 833 k | `ApprovalSafe`, `DecisionStands`, `OrphanResolved` |
| `workflow` | approval, router, fork of two branches with an any-join that cancels the rest; overlapping requests, 1 crash or database error, 1 resume, duration limit | 361 k | `RunSafe`, `NothingUndone`, `RunEndsOnce` |
| `workflow_definitions` | all graphs over an entry, an approval and a flagged task, and some with forks, plugins, wrong fields; 2 clients, 4 requests, 1 restart, retention | 931 k | `ApprovalPrecedes`, `DecisionHasEdge`, `LaunchedOnce` |
| `chat_turn` | 1 user, 1 guest, 2 requests at once, 2 turns, 2 sessions, 1 key, quota 1, 2 days | 471 k | `SeqsGapFree`, `RetryFindsItsAnswer`, `QuotaOverrunBounded`, `ContextIsWhole`, `EveryTurnEnds` |
| `agent_run` | a free, a flagged and a rejected call, 2 iterations, 1 reflection, 2 attempts, 2 resumptions, all configurations | 205 k | `ConversationAnswered`, `FlaggedNeedsApproval`, `BudgetsHold`, `RunEnds` |
| `voice_session` | 2 utterances, replies of 1 word, expiry after one tick | 137 k | `OneTurnAtATime`, `SpeakingIsInterruptible`, `BargeInSilences`, `ConnectionReleased` |
| `integrations` | 2 plugins whose tools collide, 1 allowed and 1 denied server, 2 callers, 4 messages | 1.7 M | `PluginsAllOrNothing`, `AnswerIsOwn`, `NoStrayServer`, `StartsAndStops` |
| `knowledge` | 2 documents of two chunks and a parent, quota 2, 2 attempts, 1 retried dead letter; up to renaming of documents and of chunks | 2.7 M | `BytesKeptForRetry`, `UploadsWithinQuota`, `BlocksDistinct`, `ReadyStaysReady` |
| `memory` | 2 turns in one or two sessions, 2 contents, listings of 3 records, 1 deletion, 1 crash | 438 k | `KeepsOne`, `DuplicatesSettle` |
| `access_limits` | 2 accounts, 1 guest, 2 requests, window of 1 s, 4 instants | 2.8 M | `OwnerRemains`, `RetryAfterSuffices` |

Why the bounds are enough.  Two workers and two attempts are what a takeover
needs, the third attempt lets a retry follow a takeover; `MaxVersion` 7 admits
claim, loss, takeover, exhaustion, an operator's retry and a claim after it, with a
stale copy of the first claim still around.  Lease, timeout and slack are the
smallest values for which the lease can expire after a crash and the inequality of
`LeaseAssumption` is tight.  Jobs interact only through the batch of a claim, and
the proofs of section 5 are for any number of jobs.  The scheduler's times admit a
tick missed by more than one interval and a restart between two ticks.  The
approval needs two stages so that two approvals of one stage can fill the
checklist, two clients so that one waits for the row lock of the other, three
requests so that a revision, a stage decision and the final decision all happen,
and two sweeps so that they compete for a snapshot.  The workflow's graph has every
node type, a branch of two nodes beside one of one (so that the join is ready while
a branch still works) and a decision with two outcomes; were `MaxAttempts` to cut a
behaviour short, `RunSettles` would fail.  Two chat requests are what it takes to
wait for a row lock, to race for one `client_message_id` and to pass one quota
check together.  The agent's three calls are one of each verdict, two iterations
let a plan follow a reflection or a resumption.  Two utterances let one supersede
the other.  Two MCP callers and four messages let an answer come late and be read
by another caller.  Two documents compete for the quota and for places in an
answer.  Two turns are two passes with different snapshots.  Two requests are two
owners that revoke each other; the accounts are enough for each to be the last.

Four memories and listings of three are what it takes for a pass to miss one; the
`memory` run fixes one order of creation and of places, in which the older turn has the
better record of one content and the worse of the other.

What the properties leave out is in their formulas, never in a hypothesis about the
instance, and the code behind it is in section 6:

* `CommittedRunsMatch` (in `ApprovalSafe`) allows the two executions the code allows,
  where the plans want one;
* of a workflow run, `OneAtATime`, which `SucceededNeverReruns`, `FailsClosed`,
  `RepeatsUnderOneReceipt` and `OutcomeIsFinal` ask for: no second executor was started,
  and no decision taken, while one was active, and no approval is in a branch.
  `DecisionKept`, `CompletedIsResolved` and `RunSettles` ask for the first of the two.
  `FailsClosed` leaves out tools that are retried after a timeout, by design whatever
  they know of receipts; `CompletedIsResolved` the nodes behind a skipped router or
  approval (`LeftBehind`) and runs that lost a process or a session or were resumed;
  `RunSettles` a database error and a crash that left half-written rows;
  `RepeatsUnderOneReceipt` retried nodes and skips a crash may lose;
  `OutcomeIsFinal` an overdue run that is resumed;
* `DecisionHasEdge` the node whose only edge serves both decisions;
* `RetryFindsItsAnswer` the turns that stored no reply: a message stored whose reply was
  cut off is answered with what follows it;
* `EveryTurnEnds` a turn behind one that pauses for approval, the deadlock of
  `ai/hitl/service.py:484`, for which there is no property;
* `RunEnds` the scratchpad of an abandoned resumption;
* `PluginsAllOrNothing` the MCP servers a plugin contributes: the formula is about
  its tools, prompts and workflow nodes;
* `NoStrayServer` a handshake that raised what `connect` does not catch;
  `StartsAndStops` a plugin whose import hangs, before there is a thread to time out;
* `BytesKeptForRetry` dead letters retried by hand and, with `ReadyStaysReady`, the
  documents in `forgone`;
* `DuplicatesSettle` failed passes, crashes and the records in `missed`;
* `RetryAfterSuffices` limits lowered meanwhile.

The `workflow` run has one executor: a decision may be taken while it is active, and
it may be restarted, but no second one runs beside it.  What is claimed of two at once
is `NothingUndone`, and that is proved for any number.  Its graph has no approval in a
branch and its tasks fail without timing out, so that the exclusions above take nothing
away before requests overlap; it has a merge behind a router that may be skipped, the
case of `LeftBehind`.

Deadlock is checked for `jobqueue`, where `Tick` never stops.  Elsewhere bounds on
requests and time, or the end of the run, end the behaviour, so the configurations
turn it off.

## 4. Fairness

* **JobQueue.** Weak fairness on the steps of a live loop (`poll_once`,
  `claim_due`, `dispatch`, `handler_timeout`, settling, `run_forever_exit`) and on
  `Tick`: the loops run as long as their process lives and asyncio runs every
  ready task.  Strong fairness per job on being claimed: `claim_due` orders by
  `run_at` and skips rows only while another short transaction has them locked.
  Nothing is assumed of handlers (the timeout ends them), operators, enqueuers,
  retention, errors or crashes; `EveryJobSettles` is conditional on some worker
  being alive, and because an error of `claim_due` ends the loop, that is a real
  condition.
* **JobScheduler.** Weak fairness on a live process's steps and on `Tick`; strong
  fairness on `process_schedule`, i.e. the tick's transaction does not fail on
  every try.  `DueTickFires` is conditional on there being a live process from
  some time on.
* **AgentApproval.** Weak fairness on the steps of a transaction that has started,
  on the orphan sweep (the scheduler enqueues it for ever, which is what
  `DueTickFires` and `EveryJobSettles` say) and on the grace period passing.  Which
  of `ContinuationEnds` and `ContinuationRaises` happens is open: the sweep has to
  get there although every continuation raises.  Nothing is assumed of requests.
* **WorkflowRun.** Weak fairness on `Work`: as long as some coroutine of the process
  can go on, or the process is down, something of it does, and a node ends at the
  latest when its timeout expires.  Nobody has to decide, resume or cancel; the
  number of crashes is bounded.
* **ChatTurn.** Weak fairness on the steps of each request in progress: every call of
  a provider is under a timeout, and a lock wait ends when its holder's transaction
  does.  Nobody has to send a turn or disconnect.
* **AgentRun.** Weak fairness on the run, on each call and on the reader of the
  stream; model calls and tools are under timeouts.  Nobody has to approve.
* **VoiceSession.** Weak fairness on the receive loop's own steps and on each turn's
  tasks.  Not on the client, on ticks or on the expiry task.
* **Integrations.** Weak fairness on the lifespan function and on the timeouts of
  requests.  Nothing is assumed of a plugin's thread or of a subprocess.
* **Memory.** Weak fairness on extractions and passes once scheduled and on a
  deletion that has written.

## 5. Proofs

All proofs are for arbitrary sets of jobs, workers, processes, requests, stages,
calls, documents, callers and graphs and for arbitrary durations, budgets and quotas
that satisfy the named assumptions of the component's module.  Those assumptions say
that bounds and settings are natural numbers (`VoiceAssumption`, `BoundsAssumption`,
`LimitsAssumption`, with limits, windows and ranks at least one), that `None` is none
of the identities it stands beside (`NoneAssumption`, `DocsAssumption`,
`ChatAssumption`, `LimitsAssumption`), that the plugin directories are a list without
repetition and no two of directories, servers, the core and the startup's own caller
have one name (`IntegrationsAssumption`), and of the chat that at least one and
finitely many requests are served at once.  Each inductive invariant was an invariant
of TLC on the instance of its component's run before it was proved.  Every safety
invariant that a run checks is stated by a theorem.

Four of the modules hold the proofs of a second component after those of the first:
`AgentApprovalProofs` those of `AccessLimits`, `KnowledgeProofs` of `VoiceSession`,
`JobSchedulerProofs` of `Memory`, `WorkflowDefinitionsProofs` of `Integrations`.  The
invariant of the second is named after it (`AccessInv`, `VoiceInv`, `MemoryInv`,
`LifespanInv`).

**JobQueueProofs** (`InvariantHolds == Spec => []IInv`, then the rest).  The
safety properties are not inductive: that a settlement by another worker misses
depends on what versions it may hold.  `IInv` adds `CopiesNotNewer` (a worker's
copy is never newer than the row), `CopiesAgree` (while the versions are equal and
the row runs, the row is locked by that worker with that attempt count),
`LeaseTiming` (the age of the lease is at most the time the copy has spent, which
`Prompt` bounds by slack plus timeout) and `AbsentIsNew`.  From it: `TypeCorrect`,
`LeaseIsEnough` (the only use of `LeaseAssumption`), `NoOverlap`, `Fencing`,
`BoundedAndLocked`, together `QueueIsSafe`; `LateSettleIsHarmless`; and
`Refinement`: every step maps, job by job, to a step of `JobLifecycle` or leaves
the job alone.

**JobSchedulerProofs.** `IInv` adds `ReadsAgree` (what a process has read of the
schedule is not newer than the row, equals it when the versions are equal, and is
an enabled tick due on the clock the process read) and `FiredBehind` (every tick
that fired lies before `next_run_at`).  `TickOnce` then needs no idempotency key:
`next_run_at` only grows and the version check makes the tick that is enqueued the
row's own.  `AtomicTick` and `DisabledIsSilent` follow from the same facts; the
status need not be tested because `set_status` moves the version.
`MissedAreSkipped` is the arithmetic of `compute_advanced_next_run_at`
(`AdvanceSkips`: the floor division lands on the first boundary after the clock).
`TicksAreExact` puts them together.

**AgentApprovalProofs.** `IInv` says what the row lock protects: who holds it
(`LockHeld`), that row and draft are each consistent (`Sound`), that the draft is
a legal successor of the committed row (`Follows`), what the draft of a
transaction looks like at each step (`Drafts`), and that a decider waiting for
the lock has read no more stage decisions than the row has by now (`Reads`).  The
last is why `StagesCounted` holds although the count is stale, and also why it
says no more than a count: section 6.  `SingleExecutor`, `RunsMatch`,
`MessageAgrees`, `DecisionIsFinal` and `RefusedIsSilent` follow, and from them
`ApprovalIsSafe` and `DecisionIsObeyed`.

**WorkflowRunProofs.** For any graph that satisfies `GraphAssumption`, any number of
executors on one run and any requests, overlapping or not.  `TypeCorrect` first,
since every later step updates records.  Then `RunStep`, a relation every step
satisfies: results and skips only grow (`Extends`), and a cancelled run is left
alone (`FinalStep`).  It holds because all writes of executors go through
`Checkpoint` or `Conclude`, which start from the fresh run.  The one write that does
not, `start_run`, needs `AbsentIsIdle`: before the run exists no executor, branch or
request works on it.  `CancellationIsFinal` and `NoResultLost` are the two halves of
`RunStep`, `NothingIsUndone` is both.

The other two theorems need no hypothesis about graph or environment beyond
`GraphAssumption`: their properties speak of runs that one executor at a time has driven
so far and whose branches wait for no approval (`OneAtATime`), for without the first
`NoRerun` would be false, without the second `RunIsSafe` (section 6).  `AloneInv` is what
`overlapped` records: as long as it is not set, at most one executor is active, however
many there are.  `SoleInv` ties that executor to the row: between two groups no node
is under way and the run is as the executor has read it (`LoopAt`), a node under way
is not done, and once entered the run knows of it (`NodeAt`), an approval is entered
alone, and only it makes the run wait (`ApprovalAt`), so that a decision finds no node
under way.  `NoRerun` (`SucceededNeverReruns`) follows.  `RunIsSafe` (`FailsClosed`)
is about tools that know no receipts and are not retried after a timeout (`Unaware`).
Its invariant `OnceInv` says of such a tool that it has taken
effect under one receipt and once, that the run then lists its node as started or has
ended, that the executor looking for ready nodes has read so, and that whoever is still
on the way to the tool's invocation finds it unused.  A node leaves the started ones
only by an ignored failure, after which its tool has had no effect (`StartedKept`);
recovery, the one step that begins a node already started, refuses these tools.

**WorkflowDefinitionsProofs.** The validator first.  `Protects` is the equation that
`_compute_approval_protected_nodes` solves; `ProtectionExists` shows that it has a
solution on every graph, cyclic ones included, as the complement of the least set of
exposed nodes, so that the `CHOOSE` of the model denotes one.  `AcceptedIsGuarded`
then follows without an induction over paths: the unprotected nodes and the entry are
a set closed under edges that leave no approval node, and the nodes that some path
reaches unapproved are within every such set.  `AcceptedDecides` is the edge rule,
with the one graph shape in which both decisions take the same edge. `IInv` adds what
the requests must carry for these to reach a run: every stored and every drafted
definition was accepted (`ValidRows`), a run's graph is that of such a row, and a key
has one run that one request at most schedules (`ValidRuns`).  From it
`ApprovalAlwaysPrecedes`, `DecisionsHaveEdges` and `RunLaunchedOnce`.

**ChatTurnProofs.** The four safety properties rest on one invariant, since each
needs the row lock.  `Written`: a transaction that has allocated a number holds the
lock of its session, its rows continue the stored ones where `next_seq` stands, and
with them keys stay unique and keyed messages answered.  `Stored`: the same of
committed rows; every summary stands for all messages it covers, and one is the
latest.  `Stage`: what a request has at each step, in particular that only the second
transaction of a streamed denial writes a reply without a number of its own yet.
`Unanswered`: a turn has no row before its message is appended, and a keyed row that
its turn has committed is followed by one of that turn.  `Apart`: turns and created
sessions belong to one request.  `Quotas` counts, with what is recorded, the requests
that may still be recorded for that day (`Counting`): the check admits one only while
the counter is below the quota, so the sum stays below quota plus requests, also for
turns that midnight carries into the next day.  `Room` is what the bound on sessions
needs.  `RequestKept` says once what a step of one request leaves to the others, and
every way to end a turn goes through `CommitInv` or `RefuseInv`.  From `IInv`:
`SeqsAreGapFree`, `RetryIsAnswered`, `OverrunIsBounded` and `ContextAlwaysWhole`.  That
the default session of a guest exists needs a smallest number of a set; `Smallest`
takes it from the library's well-founded order on the naturals.

**AgentRunProofs.** `IInv` says where calls may be open (`Conversation`), that a plan
that runs or waits has been judged by the policy and nothing else is under way
(`Judged`), that the status fits the place in the code (`StatusFits`), and that what
was spent is what the state that survives a pause records (`Budgets`).  From it
`ApprovalBeforeAttempt`, `BudgetsAlwaysHold`, `ConversationAlwaysAnswered` and
`TransitionsAreLegal`: `AgentStateManager.transition` never raises.

**KnowledgeProofs.** `Counted`: the uploads under way hold the counter's row one at a
time, and the one that holds it was admitted below the quota.  `Documents`: a document
exists only after its upload committed, a deleted one has left nothing, a run of the
handler that works does not find it ready and nobody deletes it between the update of
its row and the commit, and a job that may run again has its bytes; the last two but for
the documents in `forgone`.  From these
`QuotaIsNeverExceeded`, `BytesAreKept`, the action property `ReadyIsKept`, and
`DeletionIsFinal`.  `QueryInv` follows an answer on its own: a search ranks a row once,
and from the expansion on no text of a document stands in two blocks; fusion,
expansion, reranking, guardrail and budget return permutations or selections by
position, for which one lemma each suffices (`Enumeration`, `Selection`,
`PickedDistinct`).  `BlocksAreDistinct` is its last part.

**AccessLimits** (in `AgentApprovalProofs`).  `OwnersGuarded` is what the advisory lock
of the last-owner query protects: a request that has passed the check holds the lock
until its transaction ends, and another owner remains; since every other revocation
waits, and assignments only add, `AnOwnerRemains`.  `PromisesKept` is the limiter: a
refused bucket holds as many timestamps as its limit, and the oldest has left the
window by the instant the caller was told to come back.  `WaitingSuffices`
then says that a caller who does, and finds its bucket left alone, is not refused
again; that the rounding of `Retry-After` never falls short is arithmetic proved for
any window and any limit.

**VoiceSession** (in `KnowledgeProofs`).  Tasks nest (`TasksNest`): a task ends only
after those it has created.  A cancellation is delivered to the task that awaits no
other (`HitsInnermost`), and only the last turn has tasks that run (`OnlyLastRuns`).
From it `OneReplyAtATime`, `SpeechIsInterruptible` (the flag and the handle are given
up only when the synthesis has ended) and the action property `InterruptedIsSilent`.

**Memory** (in `JobSchedulerProofs`).  What is retired, committed or about to be, is
superseded by a better stored record of the same content (`Losers`), passes and the
user write only over what is stored (`Rewrites`), and what is stored was extracted
(`Learned`).  Two passes with different snapshots cannot retire each other's survivor,
since both follow the one order of `find_consolidation_groups`, whatever part of the
records its listing returned, and a set of records
without a best one would have no smallest place.  `HousekeepingKeepsOne`.

**Integrations** (in `WorkflowDefinitionsProofs`).  Three invariants side by side.
`IdsAreOwn`: an id has been issued once on its transport, so the comparison in
`send_request` admits a request's own answer only (`AnswersAreOwn`).  `BusyInTime`,
`ToolsHaveServer`, `ProcsHaveKeeper`: only the startup connects servers, tools are
registered after their server, and every subprocess is in `_clients`, in the hands of
the startup or one of those whose handshake raised (`NoServerStrays`).  `QueuedOnce`,
`Contributed`: a directory is loaded once, and the registries hold of a plugin what its
record lists, all of it or nothing (`PluginsAreAllOrNothing`); the rollback removes by
key, and is right because none of the keys was there before the commit.

Only model-checked:

* the liveness properties, and with them the bundles that have one: fairness is
  outside what the prover handles;
* of the workflow `DecisionKept`, `RepeatsUnderOneReceipt`, `CompletedIsResolved` and
  `OutcomeIsFinal`.  Their inductive invariants relate the attempts an executor has
  flushed to those committed, or need an induction over the graph.  They hold of the
  graph and the single executor of the `workflow` run and are not claimed for every
  graph or for any number of executors: see *A node left behind*, *Late pause* and
  *Unmarked skip* in section 6;
* that the recursive operators compute what they should: an induction over data.

## 6. Where the code and its documents disagree

Found while modelling.  TLC gives a counterexample for each of the first four when
the statement is put into the module of its component.

* **An approved call may be executed twice.**  `approve_and_resume`
  (`ai/hitl/service.py:875`) leaves the pause snapshot in place,
  `clear_pause_snapshot` has no caller, and after the grace period the orphan sweep
  takes the finished approval for one lost in a crash; the plans of epics 9 and 10
  (`src/docs/plans/post-mvp-v2-epic-09-human-in-the-loop.md:1315`,
  `src/docs/plans/post-mvp-v2-epic-10-background-jobs.md:1703`) want exactly one
  execution.  What does hold is `CommittedRunsMatch`: at most one further time, and
  with the recorded arguments.
* **A stage may be skipped.**  `append_stage_decision` (`ai/hitl/store.py:472`)
  appends the stage its caller read before the lock, so that two approvers of one
  stage fill two places of the checklist, against `ai/hitl/rules.py:95`.
* **A node left behind.**  `_incoming_branch_edges_selected`
  (`ai/workflow/graph/traversal.py:269`) cannot tell a router or approval that was
  skipped from one that selected another edge: a merge behind a skipped approval is
  neither ready nor skipped, and the run completes without it.  No crash or race is
  needed.
* **Two executors on one run.**  A decision that comes between an executor's pausing
  checkpoint and its re-read lets that executor go on while the request schedules
  another (`ai/workflow/manager.py:697`), and `resume_run` asks only for the run's status
  (`:781`).  Nodes that have succeeded are invoked again; the second executor may begin
  the attempt anew that waits for a decision or has been decided; and a decision in that
  gap may leave nodes unresolved in a completed run.

Others, by component.  The models contain the behaviour; the properties are stated
so that they say what holds besides it.

*Approvals.*  The decision is committed only after the continuation; when that
raises, the tools have run and the decision is rolled back (`db/session.py:24`).  The
lazy expiry of a decide, revise or cancel is rolled back by the error it raises
(`ai/hitl/store.py:197`).  Expired workflow approvals are in no inbox, and approvals
of cancelled runs stay pending though nobody can decide them.

*Jobs and scheduler.*  Due evaluation uses the application's clock
(`ai/jobs/scheduler.py:79`), so ticks may be early.  A database error in `claim_due`
or `list_due` ends the loop of that process for good.  `retry_dead_letter` carries no
version (`VersionFences` and `OnlyClaimantSettles` show that it does no harm).

*Workflow runs.*

* A crash, or a resume, between a decision and the skip of the other branch lets the
  run complete without its merge node (`ai/workflow/manager.py:690`, `:781`).
* A retry is invoked before its row is committed; after a crash the first attempt is
  found running and its receipt reused, although the tool took effect under the
  retry's (`ai/workflow/engine/executor.py:332`), and a retry after recovery has a
  fresh receipt.
* *Late pause.*  A branch that pauses after its sibling failed the run moves it from
  `failed` to `waiting_approval` (`executor.py:703`).  The failure has cleared the
  current nodes: when the approval is decided and the run goes on, the sibling's node
  is ready again, and a tool that timed out after its effect takes effect once more.
  No crash is needed; hence `ApprovalsOutsideForks` in `OneAtATime`.
* *Unmarked skip.*  `_skip_branch_node` is two checkpoints (`executor.py:600`): the
  first takes the node out of the current ones, the second marks it skipped.  A crash
  in between leaves it ready, and it is started under a new receipt; when it was
  itself the repetition of an interrupted attempt, its tool sees two receipts.
* A sibling's commit publishes a branch's pause, failure or success before the
  branch's own checkpoint; after a crash the node is neither interrupted nor ready,
  every executor abandons the run, and resuming does not help (`executor.py:197`,
  `:549`).
* A crash while the second of two parallel approvals is still entering leaves a
  `waiting_approval` run that start-up does not reconcile (`engine/background.py:62`).
* The duration is tested before the status (`executor.py:147`): a second executor that
  starts late turns a completed, overdue run into a failed one.
* A database error ends the executor and leaves the run `running` until somebody
  resumes it or the process restarts.

*Workflow definitions.*  An update in place counts runs and then writes, so that a run
launched in between executes the replaced graph; `expected_version` never detects
anything, since no update changes the version; approved and rejected edges are
compared only when both are configured (`ai/workflow/graph/validator.py:331`), so that a
node whose only unconditional edge is named as the rejected one goes the same way
whatever is decided; a tool behind the rejected edge counts as
protected; a workflow tool whose last commit fails leaves its run `running`; two
updates of a version with runs end in a unique violation; join policies and forks
without branches are not validated.

*Chat.*  A retry after a cancelled stream answers with the message at seq + 1, which
may be the next turn's (`services/chat_service.py:1120`, `:1398`): `RetryFindsItsAnswer`
therefore speaks of turns that stored a reply.  The guest denial on a stream is stored
twice (`services/unified_chat_service.py:866`).  Two first turns of a guest create two
sessions (`services/chat_service.py:866`; `db/chat.py:76` promises exactly one).  A
stale title may overwrite a newer one (`:793`).  Memory extraction is scheduled before
the router's commit.  A pause for approval waits for the row its own request has locked
(`ai/hitl/service.py:484`, `db/chat.py:150`, `ai/deps.py:356`), and everything behind
that row waits with it.

*Agent and tools.*  `gather` without `return_exceptions` leaves siblings running after
the run has ended; RETRY_STEP executes calls that succeeded once more; timed-out calls
are retried although they may have had their effect; `_reflect_with_llm` is never
reached; a resumption whose approved calls raise leaves its scratchpad behind
(`ai/hitl/service.py:1037`, `:1065`); the approval policy is not applied in the tool
loops; the streamed loop gives a signed-in user the guests' denial.

*Voice.*  The session manager is built per request (`ai/deps.py:713`), so that one
active session per user is not enforced across connections.  With the default settings
the idle timeout cannot be reached.  An interrupt between the transcript and the
registration of the chat task finds no task: the client is told `interrupted` and the
reply is spoken all the same (`routers/voice.py:399`).  The expiry task cancels itself
before it closes the socket.  `session_end` does not wait for speech to stop.  Audio
buffered before the turn is active is thrown away by the barge-in.

*Plugins and MCP.*  After a timeout every later request on that server reads its
predecessor's answer and fails, for good (`ai/mcp/transport/stdio.py:232`).  Two calls
at once on a pipe end in an `unknown_error`.  A handshake that raises anything but the
two types caught leaks its subprocess (`:309`).

*Documents.*  The queue runner's job is committed before the upload's transaction
(`ai/deps.py:503`): a worker may claim it first, find no document and dead-letter the
job, and the document stays pending.  A failed ingestion in the request is rolled back
entirely, the failed status included.  A last attempt that is lost leaves the document
pending with its bytes.  Retention deletes staged bytes by age whatever the job's
status (`ai/jobs/handlers/workflow_retention.py:74-87`): a job that waits longer than
the retention period fails with `upload staging bytes not found`.  The commit of an
indexing run is inside the `try` whose handler cleans up
(`ai/jobs/handlers/rag_indexing.py:98-105`): one that raises after it took effect
demotes a ready document to failed.  The hybrid retriever uses one `AsyncSession` from
two coroutines.  With no block left the advanced pipeline still asks the model.

*Memory.*  `update_lifecycle_state` (`ai/memory/providers/pgvector.py:221`) validates
the row as read and flushes without lock or version: a delete that commits meanwhile
is overwritten, and the deleted memory is back.  Deduplication passes the session, so
memories of the user are never found (`ai/memory/manager.py:810`).  A failed insert
rolls back candidates flushed before it and already counted (`:665`).  Consolidation
groups user and project records together.  Passes see the newest 100 records
(`ai/memory/providers/pgvector.py:145`, `:178`; archived ones count): a duplicate
outside that window is never consolidated and stays active beside the newer record.
An exception in a pass is swallowed and the part that was done is committed.  Two
passes that lock rows in different orders may deadlock.

*Access.*  The audit record says `success` before the commit.  The role behind a rate
limit is up to `CacheTtl` old and never invalidated.  `Retry-After` is too short when
the limit was lowered below what was used.  A guest that is linked already is linked to
the next account that logs in with its token.  A refusal by
`_ensure_role_management_is_allowed` is not audited.

## 7. Plan

Done: the modules of section 2.  What would add most now, in this order:

1. `WorkflowRun` with two executors at once checked on a smaller graph, for what holds
   of the results of both;
2. the composition of `Knowledge` with `JobLifecycle` as a module, instead of its own
   job record;
3. proofs of `RepeatsUnderOneReceipt`, from the receipts of flushed and committed
   attempts, and of `DecisionKept`, for graphs in which no branch waits for an approval;
4. a proof that the region of a fork and the skipped nodes leave a well-formed graph
   resolved (`CompletedIsResolved`), once an induction over the graph can be written.

## 8. Not modelled

* Data: prompts, model answers, tool arguments, embeddings and scores.  The
  properties do not depend on their content.
* Evaluation (an offline command line tool over the other components) and
  observability (spans, metrics and costs that no component reads back).
* LLM providers: where a module calls one, it answers, fails or times out.
* Redaction, secrets, pattern matching of guardrails, token signatures: computations
  without state.
* Schemas, mapping of errors and migrations; the transaction of a request and the
  order of a router's steps are part of the component it drives.
* The rules that flag a single call for approval (constants of `AgentRun`) and
  notifications (best effort).
* Condition expressions, nested forks and listings of the workflow engine.
* Preferences (one row written by one request) and the project record update of memory,
  which no route calls.
* The Node.js backend (a stateless proxy) and the front end.
