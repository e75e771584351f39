----------------------------- MODULE WorkflowRun -----------------------------
(***************************************************************************)
(* WorkflowManager, WorkflowExecutor and PostgresWorkflowStore: one run of *)
(* one definition, the executors that drive it, the requests that start,   *)
(* decide, resume or cancel it, and the loss of the process.               *)
(*                                                                         *)
(* An executor has one database session, shared by its parallel branches.  *)
(* append_node_execution only flushes: what it writes stays in the session *)
(* (pend), with the row locked, until a checkpoint of any branch commits.  *)
(* A checkpoint re-reads the run and repeats its compare-and-swap on       *)
(* checkpoint_version, so it is one atomic update of the fresh run; it     *)
(* does nothing, not even commit, when the run has been cancelled.         *)
(***************************************************************************)
EXTENDS WorkflowGraph

CONSTANTS Selects,         \* edges an approval selects for each decision
          ReceiptAware,    \* tasks whose tool is execution_receipt_aware
          MaxRetries,      \* max_retries of each node's retry policy
          Errors,          \* how a task may fail
          Executors,       \* background tasks that run execute_run
          Requests,        \* requests and expiry sweeps under way
          Overlap,         \* requests may come while an executor is active
          MaxAttempts,     \* bound: attempts of one node
          MaxResumes,      \* bound: resume requests
          MaxLosses,       \* bound: losses of the process and of sessions, by a database error
          DurationGuard    \* whether the run may exceed its duration

Attempts == 1 .. MaxAttempts
Keys == Nodes \X Attempts
Decisions == {"approved", "rejected", "expired"}

ASSUME WorkflowAssumption ==
  /\ Selects \in [Nodes -> [Decisions -> SUBSET Edges]]
  /\ MaxRetries \in [Nodes -> Nat]
  /\ MaxAttempts \in Nat \ {0}
  /\ Errors \subseteq {"retryable", "nonretryable", "timeout", "exception"}
  /\ Overlap \in BOOLEAN /\ DurationGuard \in BOOLEAN
  /\ MaxResumes \in Nat /\ MaxLosses \in Nat

VARIABLES run,      \* the workflow_runs row
          rows,     \* the committed workflow_node_executions rows
          pend,     \* what each executor's session has only flushed
          ex,       \* each executor's step loop
          task,     \* _execute_node of each executor and node
          req,      \* what each request still has to do
          up,       \* the process is up
          overdue,  \* the run has exceeded its maximal duration
          effects,  \* history: how often a node's tool took effect under each receipt
          overlapped, \* history: a decision taken or an executor started while one was active
          resumes, crashes, errors

loopvars == <<ex, task>>
dbvars == <<run, rows, pend>>
envvars == <<req, up, overdue, overlapped, resumes, crashes, errors>>
vars == <<run, rows, pend, ex, task, req, up, overdue, effects, overlapped,
          resumes, crashes, errors>>

Terminal == {"completed", "failed", "cancelled"}

\* A decided row is succeeded or failed together with its decision.
RowStatus == {"none", "running", "waiting_approval", "succeeded", "failed", "skipped"} \cup Decisions
Row == [status : RowStatus, receipt : 0 .. MaxAttempts]
Latest == [attempt : 0 .. MaxAttempts, status : RowStatus, receipt : 0 .. MaxAttempts]

LoopPc == {"idle", "scheduled", "loop", "recover", "recovering", "sequential", "parallel"}

Executor == [pc : LoopPc, seen : Run, latest : [Nodes -> Latest], todo : SUBSET Nodes]

TaskPc == {"none", "attempt", "enter", "invoked", "returned", "succeeding", "pausing",
           "failing", "branch", "ignored", "skip", "done", "raised"} \cup Errors

Task == [pc : TaskPc, attempt : 0 .. MaxAttempts, receipt : 0 .. MaxAttempts, retries : Nat,
         listed : BOOLEAN,   \* the node is in the branch's run.current_node_ids
         seen : Run]

Request == [pc : {"idle", "skip", "schedule"}, seen : Run, node : Nodes]

NoRun == [status |-> "absent", done |-> {}, output |-> [n \in Nodes |-> {}],
          skipped |-> {}, current |-> {}]
NoRow == [status |-> "none", receipt |-> 0]
NoRows == [k \in Keys |-> NoRow]
NoTask == [pc |-> "none", attempt |-> 0, receipt |-> 0, retries |-> 0,
           listed |-> FALSE, seen |-> NoRun]
NoTasks == [n \in Nodes |-> NoTask]
NoLatest == [attempt |-> 0, status |-> "none", receipt |-> 0]
NoExecutor == [pc |-> "idle", seen |-> NoRun, latest |-> [n \in Nodes |-> NoLatest],
               todo |-> {}]
NoRequest == [pc |-> "idle", seen |-> NoRun, node |-> Entry]

\* The state stays within its types: no checkpoint, branch or request leaves
\* a run, an execution row or a step loop the code does not know.
TypeOK ==
  /\ run \in Run
  /\ rows \in [Keys -> Row]
  /\ pend \in [Executors -> [Keys -> Row]]
  /\ ex \in [Executors -> Executor]
  /\ task \in [Executors -> [Nodes -> Task]]
  /\ req \in [Requests -> Request]
  /\ up \in BOOLEAN /\ overdue \in BOOLEAN /\ overlapped \in BOOLEAN
  /\ effects \in [Nodes -> [Attempts -> Nat]]
  /\ resumes \in Nat /\ crashes \in Nat /\ errors \in Nat

Init ==
  /\ run = NoRun /\ rows = NoRows
  /\ pend = [e \in Executors |-> NoRows]
  /\ ex = [e \in Executors |-> NoExecutor]
  /\ task = [e \in Executors |-> NoTasks]
  /\ req = [d \in Requests |-> NoRequest]
  /\ up = TRUE /\ overdue = FALSE /\ overlapped = FALSE
  /\ effects = [n \in Nodes |-> [a \in Attempts |-> 0]]
  /\ resumes = 0 /\ crashes = 0 /\ errors = 0

-----------------------------------------------------------------------------
(* The store *)

Over(p, base) == [k \in Keys |-> IF p[k].status = "none" THEN base[k] ELSE p[k]]
View(e) == Over(pend[e], rows)

\* append_node_execution: insert or update one row of the session
Append(p, n, a, status, receipt) == [p EXCEPT ![<<n, a>>] = [status |-> status, receipt |-> receipt]]

\* A row another session has written but not committed is locked.
Free(e, n, a) == \A o \in Executors \ {e} : pend[o][<<n, a>>].status = "none"

\* Faulty: the checkpoint does not look whether the run was cancelled.
CheckpointBlindly(e, p, new) ==
  run' = new /\ rows' = Over(p, rows) /\ pend' = [pend EXCEPT ![e] = NoRows]

\* checkpoint_run after the session has flushed p
Checkpoint(e, p, new) ==
  IF run.status = "cancelled"
  THEN pend' = [pend EXCEPT ![e] = p] /\ UNCHANGED <<run, rows>>
  ELSE run' = new /\ rows' = Over(p, rows) /\ pend' = [pend EXCEPT ![e] = NoRows]

\* Skipped rows have attempt 1, whatever that row was before.
AppendSkipped(p, S) ==
  [k \in Keys |-> IF k \in S \X {1} THEN [status |-> "skipped", receipt |-> 0] ELSE p[k]]

latest_execution_by_node(v) ==
  [n \in Nodes |->
    LET Has(a) == v[<<n, a>>].status # "none"
        Last(a) == Has(a) /\ \A b \in Attempts : Has(b) => b <= a
        last == CHOOSE a \in Attempts : Last(a)
    IN IF \E a \in Attempts : Last(a)
       THEN [attempt |-> last, status |-> v[<<n, last>>].status, receipt |-> v[<<n, last>>].receipt]
       ELSE NoLatest]

-----------------------------------------------------------------------------
(* _execute_node *)

Pc(e, n) == task[e][n].pc
At(e, n, pc) == Pc(e, n) = pc
Goto(e, n, pc) == task' = [task EXCEPT ![e][n].pc = pc]
Flush(e, n, status) ==
  LET t == task[e][n] IN
  /\ Free(e, n, t.attempt)
  /\ pend' = [pend EXCEPT ![e] = Append(@, n, t.attempt, status, t.receipt)]
  /\ UNCHANGED <<run, rows>>

\* _execute_node returns; its caller looks at the status of what it returns.
Return(e, n, status) ==
  task' = [task EXCEPT ![e][n] = [NoTask EXCEPT !.pc = "done", !.seen.status = status]]

\* _stop_if_cancelled
StopIfCancelled(e, n) ==
  /\ Pc(e, n) \in {"attempt", "returned"}
  /\ run.status = "cancelled"
  /\ Return(e, n, "cancelled")
  /\ UNCHANGED <<dbvars, ex, effects, envvars>>

\* The insert waits for another session's insert of the same attempt and then
\* breaks the unique key.
BeginAttempt(e, n) ==
  LET a == task[e][n].attempt IN
  /\ At(e, n, "attempt")
  /\ run.status # "cancelled"
  /\ IF Free(e, n, a) THEN Flush(e, n, "running") /\ Goto(e, n, "enter")
     ELSE /\ View(e)[<<n, a>>].status = "none"
          /\ Goto(e, n, "raised")
          /\ UNCHANGED dbvars
  /\ UNCHANGED <<ex, effects, envvars>>

\* Only a node the branch does not see as current is checkpointed first.
EnterNode(e, n) ==
  /\ At(e, n, "enter")
  /\ \/ task[e][n].listed /\ UNCHANGED dbvars
     \/ /\ ~ task[e][n].listed
        /\ Checkpoint(e, pend[e], [run EXCEPT !.current = @ \cup {n}])
  /\ task' = [task EXCEPT ![e][n].pc = "invoked", ![e][n].listed = TRUE]
  /\ UNCHANGED <<ex, effects, envvars>>

TakesEffect(e, n) == effects' = [effects EXCEPT ![n][task[e][n].receipt] = @ + 1]

NodeReturns(e, n) ==
  /\ At(e, n, "invoked")
  /\ Goto(e, n, "returned")
  /\ IF Kind[n] = "task" THEN TakesEffect(e, n) ELSE UNCHANGED effects
  /\ UNCHANGED <<dbvars, ex, envvars>>

\* A router fails when no edge matches.  A reported error has no effect; a
\* timeout or an unexpected exception may come after it.
NodeFails(e, n, err) ==
  /\ At(e, n, "invoked")
  /\ \/ Kind[n] = "task"
     \/ Kind[n] = "router" /\ err = "nonretryable"
  /\ Goto(e, n, err)
  /\ \/ UNCHANGED effects
     \/ err \in {"timeout", "exception"} /\ TakesEffect(e, n)
  /\ UNCHANGED <<dbvars, ex, envvars>>

RecordResult(e, n) ==
  /\ At(e, n, "returned")
  /\ run.status # "cancelled"
  /\ \/ Kind[n] = "approval" /\ Flush(e, n, "waiting_approval") /\ Goto(e, n, "pausing")
     \/ Kind[n] # "approval" /\ Flush(e, n, "succeeded") /\ Goto(e, n, "succeeding")
  /\ UNCHANGED <<ex, effects, envvars>>

pause_for_approval(e, n) ==
  /\ At(e, n, "pausing")
  /\ Checkpoint(e, pend[e], [run EXCEPT !.status = "waiting_approval"])
  /\ Return(e, n, run'.status)
  /\ UNCHANGED <<ex, effects, envvars>>

Succeeded(n, selected) ==
  [run EXCEPT !.done = @ \cup {n}, !.output[n] = selected, !.current = @ \ {n}]

Outputs(n) == IF Kind[n] = "router" THEN SUBSET Out(n) \ {{}} ELSE {{}}

succeed_node(e, n) ==
  /\ At(e, n, "succeeding")
  /\ \E selected \in Outputs(n) : Checkpoint(e, pend[e], Succeeded(n, selected))
  /\ IF run.status # "cancelled" /\ SkippedAfter(run', n) # {}
     THEN task' = [task EXCEPT ![e][n].pc = "branch", ![e][n].seen = run']
     ELSE Return(e, n, run'.status)
  /\ UNCHANGED <<ex, effects, envvars>>

\* The context given to a checkpoint is merged over the fresh one.
MergeContext(seen) ==
  [run EXCEPT !.done = @ \cup seen.done,
              !.output = [n \in Nodes |-> IF n \in seen.done THEN seen.output[n] ELSE @[n]],
              !.skipped = @ \cup seen.skipped]

\* The branches a router did not select, or a join leaves behind
skip_unselected_branches(e, n) ==
  LET seen == task[e][n].seen
      S == SkippedAfter(seen, n)
  IN /\ At(e, n, "branch")
     /\ \A x \in S : Free(e, x, 1)
     /\ Checkpoint(e, AppendSkipped(pend[e], S), [MergeContext(seen) EXCEPT !.skipped = @ \cup S])
     /\ Return(e, n, run'.status)
     /\ UNCHANGED <<ex, effects, envvars>>

Ignorable(e, n) == Pc(e, n) \in {"retryable", "nonretryable"} /\ IgnoredFailure(run, n)

IgnoreFailure(e, n) ==
  /\ Ignorable(e, n)
  /\ Flush(e, n, "skipped")
  /\ Goto(e, n, "ignored")
  /\ UNCHANGED <<ex, effects, envvars>>

MayRetry(e, n) == Pc(e, n) \in {"retryable", "timeout"} /\ ~ Ignorable(e, n) /\ task[e][n].retries > 0

Retry(e, n) ==
  LET t == task[e][n] IN
  /\ MayRetry(e, n) /\ t.attempt < MaxAttempts
  /\ Flush(e, n, "failed")
  /\ task' = [task EXCEPT ![e][n] = [t EXCEPT !.pc = "attempt", !.attempt = t.attempt + 1,
                                              !.receipt = t.attempt + 1, !.retries = t.retries - 1]]
  /\ UNCHANGED <<ex, effects, envvars>>

fail_node(e, n) ==
  /\ Pc(e, n) \in Errors /\ ~ Ignorable(e, n) /\ ~ MayRetry(e, n)
  /\ IF run.status = "cancelled" THEN Return(e, n, "cancelled") /\ UNCHANGED dbvars
     ELSE Flush(e, n, "failed") /\ Goto(e, n, "failing")
  /\ UNCHANGED <<ex, effects, envvars>>

Failed == [run EXCEPT !.status = "failed", !.current = {}]

FailRun(e, n) ==
  /\ At(e, n, "failing")
  /\ Checkpoint(e, pend[e], Failed)
  /\ Return(e, n, run'.status)
  /\ UNCHANGED <<ex, effects, envvars>>

\* skip_branch_node: two checkpoints
skip_branch_node(e, n) ==
  /\ At(e, n, "ignored")
  /\ Checkpoint(e, pend[e], [run EXCEPT !.current = @ \ {n}])
  /\ IF n \in run'.skipped THEN Return(e, n, run'.status)
     ELSE task' = [task EXCEPT ![e][n].pc = "skip", ![e][n].seen = run']
  /\ UNCHANGED <<ex, effects, envvars>>

MarkSkipped(e, n) ==
  /\ At(e, n, "skip")
  /\ Checkpoint(e, pend[e], [MergeContext(task[e][n].seen) EXCEPT !.skipped = @ \cup {n}])
  /\ Return(e, n, run'.status)
  /\ UNCHANGED <<ex, effects, envvars>>

\* A statement fails; once one has, the others of the session may fail too.
StoreError(e, n) ==
  /\ Pc(e, n) \notin {"none", "invoked", "done", "raised"}
  /\ \/ errors + crashes < MaxLosses /\ errors' = errors + 1
     \/ (\E o \in Nodes : At(e, o, "raised")) /\ UNCHANGED errors
  /\ Goto(e, n, "raised")
  /\ UNCHANGED <<dbvars, ex, effects, req, up, overdue, overlapped, resumes, crashes>>

ExecuteNode(e, n) ==
  \/ StopIfCancelled(e, n) \/ BeginAttempt(e, n)
  \/ EnterNode(e, n) \/ NodeReturns(e, n) \/ (\E err \in Errors : NodeFails(e, n, err))
  \/ RecordResult(e, n) \/ pause_for_approval(e, n) \/ succeed_node(e, n)
  \/ skip_unselected_branches(e, n) \/ IgnoreFailure(e, n) \/ Retry(e, n)
  \/ fail_node(e, n) \/ FailRun(e, n) \/ skip_branch_node(e, n) \/ MarkSkipped(e, n)

-----------------------------------------------------------------------------
(* execute_run: the step loop *)

\* The coroutine ends and its session is closed: what was flushed is lost.
Close(e) ==
  /\ ex' = [ex EXCEPT ![e] = NoExecutor]
  /\ task' = [task EXCEPT ![e] = NoTasks]
  /\ pend' = [pend EXCEPT ![e] = NoRows]

\* The last checkpoint of the coroutine
Conclude(e, new) ==
  /\ Close(e)
  /\ IF run.status = "cancelled" THEN UNCHANGED <<run, rows>>
     ELSE run' = new /\ rows' = View(e)
  /\ UNCHANGED <<effects, envvars>>

Exit(e) == Close(e) /\ UNCHANGED <<run, rows, effects, envvars>>

Looking(e) == ex[e].pc = "loop" /\ run.status # "cancelled" /\ ~ overdue
Ready(e) == resolve_ready_nodes(ex[e].seen)

find_interrupted_executions(e) ==
  {n \in ex[e].seen.current : ex[e].latest[n].status = "running"}

\* The branch gets the executions its caller has read, and the run.
Launch(e, S, latest, r) ==
  /\ \A n \in S : latest[n].attempt < MaxAttempts
  /\ task' = [task EXCEPT ![e] = [n \in Nodes |->
       IF n \notin S THEN NoTask
       ELSE [pc |-> "attempt", attempt |-> latest[n].attempt + 1, receipt |-> latest[n].attempt + 1,
             retries |-> MaxRetries[n], listed |-> n \in r.current, seen |-> NoRun]]]

\* get_run_with_executions, and the test of the while
Refresh(e) ==
  IF run.status # "running" THEN Exit(e)
  ELSE /\ ex' = [ex EXCEPT ![e] = [NoExecutor EXCEPT !.pc = "loop", !.seen = run,
                                     !.latest = latest_execution_by_node(View(e))]]
       /\ task' = [task EXCEPT ![e] = NoTasks]
       /\ UNCHANGED <<dbvars, effects, envvars>>

Begin(e) ==
  /\ ex[e].pc = "scheduled" /\ ~ overdue
  /\ Refresh(e)

StopLoop(e) == ex[e].pc = "loop" /\ run.status = "cancelled" /\ Exit(e)

\* Before the loop the guard is tested without looking at the status.
fail_run_duration(e) ==
  /\ ex[e].pc \in {"scheduled", "loop"} /\ overdue
  /\ Conclude(e, Failed)

Recover(e) ==
  /\ Looking(e) /\ find_interrupted_executions(e) # {}
  /\ ex' = [ex EXCEPT ![e].pc = "recover", ![e].todo = find_interrupted_executions(e)]
  /\ UNCHANGED <<dbvars, task, effects, envvars>>

Proceeding(e) == Looking(e) /\ find_interrupted_executions(e) = {}

Stall(e) ==
  /\ Proceeding(e) /\ Ready(e) = {} /\ ex[e].seen.current # {}
  /\ Exit(e)

complete_run(e) ==
  /\ Proceeding(e) /\ Ready(e) = {} /\ ex[e].seen.current = {}
  /\ Conclude(e, [run EXCEPT !.status = "completed", !.current = {}])

\* Regions are entered at their fork, so one group is ready at a time.
execute_nodes_parallel(e) ==
  /\ Proceeding(e)
  /\ \E g \in group_parallel_ready_nodes(Ready(e)) : Launch(e, g, ex[e].latest, ex[e].seen)
  /\ ex' = [ex EXCEPT ![e].pc = "parallel"]
  /\ UNCHANGED <<dbvars, effects, envvars>>

ExecuteSequential(e) ==
  /\ Proceeding(e) /\ Ready(e) # {} /\ group_parallel_ready_nodes(Ready(e)) = {}
  /\ \E n \in sequential_head(Ready(e)) : Launch(e, {n}, ex[e].latest, ex[e].seen)
  /\ ex' = [ex EXCEPT ![e].pc = "sequential"]
  /\ UNCHANGED <<dbvars, effects, envvars>>

Results(e) == {n \in Nodes : Pc(e, n) # "none"}
Finished(e) == \A n \in Results(e) : Pc(e, n) \in {"done", "raised"}

Raised(e) ==
  /\ \E n \in Nodes : At(e, n, "raised")
  /\ Finished(e)
  /\ Exit(e)

AllDone(e, pc) == ex[e].pc = pc /\ \A n \in Results(e) : At(e, n, "done")

SequentialDone(e) == AllDone(e, "sequential") /\ Refresh(e)

\* After a group the run is read again, the executions are not.
ParallelDone(e) ==
  /\ AllDone(e, "parallel")
  /\ IF \/ run.status # "running"
        \/ \E n \in Results(e) : task[e][n].seen.status \in {"cancelled", "failed"}
     THEN Exit(e)
     ELSE /\ ex' = [ex EXCEPT ![e].pc = "loop", ![e].seen = run]
          /\ task' = [task EXCEPT ![e] = NoTasks]
          /\ UNCHANGED <<dbvars, effects, envvars>>

-----------------------------------------------------------------------------
(* _resume_interrupted_node *)

\* Faulty: every task may be repeated.
AnyTaskRecovers(n) == Kind[n] # "approval"

crash_recovery_allowed(n) ==
  \/ Kind[n] \in {"router", "fork", "join", "terminal"}
  \/ Kind[n] = "task" /\ n \in ReceiptAware

RefuseRecovery(e, n) ==
  /\ ex[e].pc = "recover" /\ n \in ex[e].todo
  /\ ~ crash_recovery_allowed(n)
  /\ Conclude(e, Failed)

\* The interrupted attempt is marked failed and a new one takes its receipt.
resume_interrupted_node(e, n) ==
  LET x == ex[e].latest[n]
      p == Append(pend[e], n, x.attempt, "failed", x.receipt)
      a == latest_execution_by_node(Over(p, rows))[n].attempt + 1
  IN /\ ex[e].pc = "recover" /\ n \in ex[e].todo
     /\ crash_recovery_allowed(n)
     /\ Free(e, n, x.attempt) /\ a \in Attempts
     /\ pend' = [pend EXCEPT ![e] = p]
     /\ ex' = [ex EXCEPT ![e].pc = "recovering", ![e].todo = @ \ {n}]
     /\ task' = [task EXCEPT ![e] = [NoTasks EXCEPT ![n] =
          [NoTask EXCEPT !.pc = "attempt", !.attempt = a, !.receipt = x.receipt,
                         !.retries = MaxRetries[n], !.listed = n \in run.current]]]
     /\ UNCHANGED <<run, rows, effects, envvars>>

\* The interrupted executions still to do are the ones found at first.
RecoveryDone(e) ==
  /\ AllDone(e, "recovering")
  /\ IF \E n \in Results(e) : task[e][n].seen.status # "running" THEN Exit(e)
     ELSE IF ex[e].todo = {} THEN Refresh(e)
     ELSE /\ ex' = [ex EXCEPT ![e].pc = "recover"]
          /\ task' = [task EXCEPT ![e] = NoTasks]
          /\ UNCHANGED <<dbvars, effects, envvars>>

StepLoop(e) ==
  \/ Begin(e) \/ StopLoop(e) \/ fail_run_duration(e) \/ Recover(e) \/ Stall(e) \/ complete_run(e)
  \/ execute_nodes_parallel(e) \/ ExecuteSequential(e) \/ Raised(e) \/ SequentialDone(e)
  \/ ParallelDone(e) \/ RecoveryDone(e)
  \/ \E n \in Nodes : RefuseRecovery(e, n) \/ resume_interrupted_node(e, n)

-----------------------------------------------------------------------------
(* WorkflowManager *)

Quiet == Overlap \/ \A e \in Executors : ex[e].pc = "idle"

Observe == overlapped' = (overlapped \/ \E e \in Executors : ex[e].pc # "idle")

\* Start an executor, whether or not another one is active.
Schedule(e) ==
  /\ ex[e].pc = "idle"
  /\ ex' = [ex EXCEPT ![e].pc = "scheduled"]
  /\ Observe

Ask(d, pc, seen, n) == req' = [req EXCEPT ![d] = [pc |-> pc, seen |-> seen, node |-> n]]

\* get_or_create_run: a repeated idempotency key finds the run and ends.
start_run(d) ==
  /\ up /\ req[d].pc = "idle" /\ run.status = "absent"
  /\ run' = [NoRun EXCEPT !.status = "running"]
  /\ Ask(d, "schedule", NoRun, Entry)
  /\ UNCHANGED <<rows, pend, loopvars, effects, up, overdue, overlapped, resumes, crashes, errors>>

RunStatusAfterDecision(n, decision) ==
  IF decision # "approved" /\ Selects[n][decision] = {} THEN "failed"
  ELSE IF \E o \in run.current \ {n} : Kind[o] = "approval" THEN "waiting_approval"
  ELSE "running"

Decided(n, decision) ==
  [Succeeded(n, Selects[n][decision]) EXCEPT !.status = RunStatusAfterDecision(n, decision)]

\* record_approval_decision: compare-and-swaps on the execution and on the run in one transaction;
\* a miss of either rolls back.
record_approval_decision(n, a, decision) ==
  /\ run.status = "waiting_approval" /\ rows[<<n, a>>].status = "waiting_approval"
  /\ \A e \in Executors : pend[e][<<n, a>>].status = "none"
  /\ rows' = [rows EXCEPT ![<<n, a>>].status = decision]
  /\ run' = Decided(n, decision)

\* A decision of a person or of the expiry sweep.
apply_decision(d, n, a, decision) ==
  /\ up /\ Quiet /\ req[d].pc = "idle"
  /\ Kind[n] = "approval"
  /\ record_approval_decision(n, a, decision)
  /\ IF run'.status = "failed" THEN UNCHANGED req ELSE Ask(d, "skip", run', n)
  /\ Observe
  /\ UNCHANGED <<pend, loopvars, effects, up, overdue, resumes, crashes, errors>>

\* The skip of the branches not selected is a transaction of its own, and
\* left out when no edge was selected.  A cancelled run is left alone, but a
\* request's session commits at its end.
continue_from_approval(d) ==
  LET seen == req[d].seen
      n == req[d].node
      S == IF seen.output[n] = {} THEN {} ELSE SkippedAfter(seen, n)
  IN /\ req[d].pc = "skip"
     /\ \A x \in S, e \in Executors : pend[e][<<x, 1>>].status = "none"
     /\ IF run.status = "cancelled"
        THEN UNCHANGED run /\ rows' \in {rows, AppendSkipped(rows, S)}
        ELSE IF S = {} THEN UNCHANGED <<run, rows>>
        ELSE /\ run' = [MergeContext(seen) EXCEPT !.skipped = @ \cup S]
             /\ rows' = AppendSkipped(rows, S)
     /\ IF seen.status = "running" THEN Ask(d, "schedule", NoRun, Entry)
        ELSE Ask(d, "idle", NoRun, Entry)
     /\ UNCHANGED <<pend, loopvars, effects, up, overdue, overlapped, resumes, crashes, errors>>

schedule_run(d, e) ==
  /\ req[d].pc = "schedule" /\ Schedule(e)
  /\ req' = [req EXCEPT ![d] = NoRequest]
  /\ UNCHANGED <<dbvars, task, effects, up, overdue, resumes, crashes, errors>>

cancel_run ==
  /\ up /\ run.status \in {"running", "waiting_approval"}
  /\ run' = [run EXCEPT !.status = "cancelled"]
  /\ UNCHANGED <<rows, pend, loopvars, effects, envvars>>

\* resume does not ask whether an executor is active.
resume(e) ==
  /\ up /\ Quiet /\ resumes < MaxResumes
  /\ run.status = "running" /\ Schedule(e)
  /\ resumes' = resumes + 1
  /\ UNCHANGED <<dbvars, task, effects, req, up, overdue, crashes, errors>>

-----------------------------------------------------------------------------
(* Time and the process *)

DurationPasses ==
  /\ DurationGuard /\ ~ overdue /\ run.status # "absent"
  /\ overdue' = TRUE
  /\ UNCHANGED <<dbvars, loopvars, effects, req, up, overlapped, resumes, crashes, errors>>

Crash ==
  /\ up /\ errors + crashes < MaxLosses
  /\ up' = FALSE /\ crashes' = crashes + 1
  /\ pend' = [e \in Executors |-> NoRows]
  /\ ex' = [e \in Executors |-> NoExecutor]
  /\ task' = [e \in Executors |-> NoTasks]
  /\ req' = [d \in Requests |-> NoRequest]
  /\ UNCHANGED <<run, rows, effects, overdue, overlapped, resumes, errors>>

\* Faulty: startup schedules nothing.
ReconcileNothing ==
  /\ ~ up /\ up' = TRUE
  /\ UNCHANGED <<dbvars, loopvars, effects, req, overdue, overlapped, resumes, crashes, errors>>

\* Startup reconciles the runs persisted as running, no others.
reconcile_orphaned_runs ==
  /\ ~ up /\ up' = TRUE
  /\ IF run.status = "running"
     THEN \E e \in Executors : Schedule(e)
     ELSE UNCHANGED <<ex, overlapped>>
  /\ UNCHANGED <<dbvars, task, effects, req, overdue, resumes, crashes, errors>>

Next ==
  \/ \E e \in Executors : StepLoop(e) \/ resume(e)
  \/ \E e \in Executors, n \in Nodes : ExecuteNode(e, n) \/ StoreError(e, n)
  \/ \E d \in Requests : start_run(d) \/ continue_from_approval(d)
  \/ \E d \in Requests, n \in Nodes, a \in Attempts, decision \in Decisions :
       apply_decision(d, n, a, decision)
  \/ \E d \in Requests, e \in Executors : schedule_run(d, e)
  \/ cancel_run \/ DurationPasses \/ Crash \/ reconcile_orphaned_runs

Spec == Init /\ [][Next]_vars

\* What the event loop runs, and the restart of the process.
Work ==
  \/ \E e \in Executors : StepLoop(e) \/ \E n \in Nodes : ExecuteNode(e, n)
  \/ \E d \in Requests : continue_from_approval(d) \/ \E e \in Executors : schedule_run(d, e)
  \/ reconcile_orphaned_runs

\* The event loop does not stand still while a coroutine can go on, a node ends
\* at the latest when its timeout expires, and the process is started again.
\* Nobody has to decide, resume or cancel.
Fairness == WF_vars(Work)

FairSpec == Spec /\ Fairness

-----------------------------------------------------------------------------
(* Properties *)

\* A cancelled run is final: whatever executors, branches and requests are
\* under way, its row does not change again and no attempt is recorded, but
\* for the branches the request of an earlier decision marks as skipped.
CancelledIsFinal ==
  [][run.status = "cancelled" =>
       /\ run' = run
       /\ \A k \in Keys : rows'[k] # rows[k] => rows'[k].status = "skipped"]_vars

\* Checkpoints of parallel branches, of two executors and of decisions never
\* lose each other's results: what has succeeded or been skipped stays so.
ResultsKept ==
  [][run.done \subseteq run'.done /\ run.skipped \subseteq run'.skipped]_vars

\* A recorded approval decision is not overwritten by one who decides at the
\* same time, nor by the executor that paused or that goes on, and the edges it
\* selected stay the run's output for the node.  A second executor that
\* has read the run before the pause may begin the decided attempt anew.
DecisionKept ==
  [][\A n \in Nodes, a \in Attempts : ~ overlapped /\ rows[<<n, a>>].status \in Decisions =>
       /\ rows'[<<n, a>>] = rows[<<n, a>>]
       /\ run'.output[n] = run.output[n]]_vars

\* No branch of a fork waits for an approval.
ApprovalsOutsideForks == \A n \in Nodes : Kind[n] = "approval" => n \notin InRegion

\* So far one executor at a time has driven the run, none was still active when a
\* decision was taken, and no pause could revive the run after a sibling had
\* failed it.  The code sees to none of these: README, section 6.
OneAtATime == ~ overlapped /\ ApprovalsOutsideForks

\* A node that has succeeded is not invoked again by a resumed or reconciled
\* run or after a decision, as long as no second executor is started while one
\* is active: one that goes on from what it read before repeats the other's nodes.
SucceededNeverReruns ==
  [][OneAtATime =>
       \A e \in Executors, n \in Nodes :
         At(e, n, "enter") /\ task'[e][n].pc = "invoked" => n \notin run.done]_vars

ReceiptsUsed(n) == {a \in Attempts : effects[n][a] > 0}

\* A retry policy repeats a timed-out call whatever its tool knows of receipts.
RetriedAfterTimeout(n) == MaxRetries[n] > 0 /\ "timeout" \in Errors

\* A tool that cannot recognise a receipt takes effect at most once however
\* the process crashes, since recovery fails the run instead; but for two
\* executors on the run, approvals in a branch, and a retry after a timeout.
FailsClosed ==
  OneAtATime =>
    \A n \in Nodes \ ReceiptAware : ~ RetriedAfterTimeout(n) =>
      Cardinality(ReceiptsUsed(n)) <= 1 /\ \A a \in ReceiptsUsed(n) : effects[n][a] = 1

\* A node whose failure is ignored and that its join does not skip may be started
\* anew after a crash between the two checkpoints of its skip.
SkipMayBeLost(n) ==
  \E f \in Forks : n \in Region[f] /\ Needs[JoinOf[f]] > 0 /\ JoinOf[f] \notin CancelRemaining

\* A tool that recognises receipts is asked to repeat what a crash interrupted
\* under the receipt it has seen, so that it can tell, while one executor at a
\* time drives the run; retries, which are attempts with receipts of their own,
\* are not granted, and no skip may be lost.
RepeatsUnderOneReceipt ==
  OneAtATime =>
    \A n \in ReceiptAware :
      MaxRetries[n] = 0 /\ ~ SkipMayBeLost(n) => Cardinality(ReceiptsUsed(n)) <= 1

\* A merge behind a branch that was skipped with its router or approval is
\* neither ready nor skipped, and so is what follows it.
LeftBehind(r) ==
  LET behind[n \in Nodes] ==
        \E s \in Sources[n] : behind[s] \/ (Kind[s] \in {"router", "approval"} /\ s \in r.skipped)
  IN {n \in Nodes \ Resolved(r) : behind[n]}

\* A run is completed only when every node has succeeded or been skipped or is
\* left behind by a skipped router or approval.  This leaves out runs whose
\* process or session was lost on the way, that somebody resumed between a
\* decision and the skips it entails, or that two executors drove.
CompletedIsResolved ==
  run.status = "completed" /\ ~ overlapped /\ crashes + errors + resumes = 0 =>
    Nodes = Resolved(run) \cup LeftBehind(run)

\* Once failed or completed, a run keeps that status while one executor at a
\* time drives it; but an executor tests the duration before the status, so
\* that a resumed run that is overdue may be failed after it has completed.
OutcomeIsFinal ==
  [][run.status \in {"completed", "failed"} /\ OneAtATime /\ ~ (overdue /\ resumes > 0) =>
       run'.status = run.status]_vars

\* The state stays within its types, and no tool that cannot tell a repetition takes
\* effect twice, whatever is lost, repeated or recovered on the way.
RunSafe == TypeOK /\ FailsClosed

\* What no checkpoint, decision or recovery takes back: a cancellation, a
\* result, a skip.
NothingUndone == CancelledIsFinal /\ ResultsKept

\* _workflow_audit_status: what the approvals inbox calls an execution; "none" is not shown.
workflow_audit_status(row) ==
  IF row.status \in Decisions THEN row.status
  ELSE IF row.status = "waiting_approval" THEN "pending" ELSE "none"

\* _workflow_inbox_predicate: an expired approval is in no inbox.
workflow_inbox_predicate(row) == workflow_audit_status(row) \in {"pending", "approved", "rejected"}

\* ApprovalsStore.list_for_owner, filtered by status; the run's own status is not asked.
list_for_owner(status) ==
  {k \in Keys : /\ Kind[k[1]] = "approval" /\ workflow_inbox_predicate(rows[k])
                /\ workflow_audit_status(rows[k]) = status}

\* The owner's inbox shows an approval the run waits for.
Decidable == run.status = "waiting_approval" /\ list_for_owner("pending") # {}

\* A branch's result is published by a neighbour's commit before the checkpoint
\* that acts on it: after a crash the node is neither interrupted nor ready.
HalfWritten ==
  \E n \in run.current \cap InRegion : latest_execution_by_node(rows)[n].status # "running"

\* A run that is running, or that waits for an approval, ends or comes to wait
\* for a decision that can be taken.  Three things leave it without an executor
\* for good, or until a resume or a restart: a database error, a crash that
\* finds a parallel branch half written, and a second executor, which may begin
\* the attempt anew that waits for the decision.
RunSettles ==
  run.status # "absent" ~> \/ run.status \in Terminal \/ Decidable
                           \/ errors > 0 \/ (crashes > 0 /\ HalfWritten) \/ overlapped

\* A run comes to its end, once: it settles, what has succeeded on the way is not
\* done again, what a crash interrupted is repeated under the receipt it had, what
\* was decided is kept, nothing is left behind, and the outcome stays.
RunEndsOnce ==
  /\ RunSettles /\ SucceededNeverReruns /\ DecisionKept /\ OutcomeIsFinal
  /\ [](RepeatsUnderOneReceipt /\ CompletedIsResolved)

=============================================================================
