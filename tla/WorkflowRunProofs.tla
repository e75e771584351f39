-------------------------- MODULE WorkflowRunProofs --------------------------
(***************************************************************************)
(* Proofs about WorkflowRun for any workflow graph, any number of          *)
(* executors and requests, and any bounds.                                 *)
(***************************************************************************)
EXTENDS WorkflowRun, TLAPS, FiniteSetTheorems

DbOK == /\ run \in Run
        /\ rows \in [Keys -> Row]
        /\ pend \in [Executors -> [Keys -> Row]]

ExOK == ex \in [Executors -> Executor]
TaskOK == task \in [Executors -> [Nodes -> Task]]
EffectsOK == effects \in [Nodes -> [Attempts -> Nat]]
EnvOK == /\ req \in [Requests -> Request]
         /\ up \in BOOLEAN /\ overdue \in BOOLEAN /\ overlapped \in BOOLEAN
         /\ resumes \in Nat /\ crashes \in Nat /\ errors \in Nat

LEMMA TypeParts ==
  /\ TypeOK <=> DbOK /\ ExOK /\ TaskOK /\ EffectsOK /\ EnvOK
  /\ TypeOK' <=> DbOK' /\ ExOK' /\ TaskOK' /\ EffectsOK' /\ EnvOK'
  BY DEF TypeOK, DbOK, ExOK, TaskOK, EffectsOK, EnvOK, Attempts

-----------------------------------------------------------------------------
(* The operators of the model stay within their types. *)

LEMMA EmptyValues ==
  /\ NoRun \in Run /\ NoRows \in [Keys -> Row] /\ NoTask \in Task
  /\ NoTasks \in [Nodes -> Task] /\ NoLatest \in Latest
  /\ NoExecutor \in Executor /\ NoRequest \in Request
<1>1. NoRun \in Run
  BY DEF NoRun, Run, RunStatus
<1>2. NoRow \in Row /\ NoLatest \in Latest
  BY WorkflowAssumption DEF NoRow, Row, RowStatus, NoLatest, Latest
<1>3. NoRows \in [Keys -> Row]
  BY <1>2 DEF NoRows
<1>4. NoTask \in Task
  BY <1>1, WorkflowAssumption DEF NoTask, Task, TaskPc
<1>5. NoTasks \in [Nodes -> Task]
  BY <1>4 DEF NoTasks
<1>6. NoExecutor \in Executor
  BY <1>1, <1>2 DEF NoExecutor, Executor, LoopPc
<1>7. NoRequest \in Request
  BY <1>1, GraphAssumption DEF NoRequest, Request
<1> QED
  BY <1>1, <1>2, <1>3, <1>4, <1>5, <1>6, <1>7

\* Changing one field of a run leaves it one.
LEMMA RunUpdates ==
  \A r \in Run :
    /\ \A x \in RunStatus : [r EXCEPT !.status = x] \in Run
    /\ \A x \in SUBSET Nodes : [r EXCEPT !.current = x] \in Run
    /\ \A x \in SUBSET Nodes : [r EXCEPT !.skipped = x] \in Run
  BY DEF Run

LEMMA SkippedNodes ==
  ASSUME NEW r \in Run, NEW n \in Nodes
  PROVE  SkippedAfter(r, n) \subseteq Nodes
<1>1. Region[ForkOf[n]] \subseteq Nodes
  BY GraphAssumption DEF Region
<1>2. collect_incomplete_fork_branch_nodes_to_skip(r, n) \subseteq Nodes
  BY <1>1 DEF collect_incomplete_fork_branch_nodes_to_skip
<1>3. collect_nodes_to_skip(r, n, r.output[n]) \subseteq Nodes
  BY DEF collect_nodes_to_skip
<1> QED
  BY <1>2, <1>3 DEF SkippedAfter

LEMMA OverType ==
  ASSUME NEW p \in [Keys -> Row], NEW q \in [Keys -> Row]
  PROVE  Over(p, q) \in [Keys -> Row]
  BY DEF Over

LEMMA AppendType ==
  ASSUME NEW p \in [Keys -> Row], NEW n \in Nodes, NEW a,
         NEW status \in RowStatus, NEW receipt \in 0 .. MaxAttempts
  PROVE  Append(p, n, a, status, receipt) \in [Keys -> Row]
<1>1. [status |-> status, receipt |-> receipt] \in Row
  BY DEF Row
<1> QED
  BY <1>1 DEF Append

LEMMA AppendSkippedType ==
  ASSUME NEW p \in [Keys -> Row], NEW S \in SUBSET Nodes
  PROVE  AppendSkipped(p, S) \in [Keys -> Row]
<1>1. [status |-> "skipped", receipt |-> 0] \in Row
  BY WorkflowAssumption DEF Row, RowStatus
<1> QED
  BY <1>1 DEF AppendSkipped

LEMMA LatestType ==
  ASSUME NEW v \in [Keys -> Row]
  PROVE  latest_execution_by_node(v) \in [Nodes -> Latest]
<1> DEFINE Has(n, a) == v[<<n, a>>].status # "none"
           Last(n, a) == Has(n, a) /\ \A b \in Attempts : Has(n, b) => b <= a
           last(n) == CHOOSE a \in Attempts : Last(n, a)
           entry(n) == IF \E a \in Attempts : Last(n, a)
                       THEN [attempt |-> last(n), status |-> v[<<n, last(n)>>].status,
                             receipt |-> v[<<n, last(n)>>].receipt]
                       ELSE NoLatest
<1>1. ASSUME NEW n \in Nodes PROVE entry(n) \in Latest
  <2>1. CASE \E a \in Attempts : Last(n, a)
    <3>1. last(n) \in Attempts
      BY <2>1
    <3> HIDE DEF last
    <3>2. v[<<n, last(n)>>] \in Row
      BY <3>1 DEF Keys
    <3>3. last(n) \in 0 .. MaxAttempts
      BY <3>1, WorkflowAssumption DEF Attempts
    <3> QED
      BY <2>1, <3>2, <3>3 DEF Row, Latest
  <2>2. CASE ~ \E a \in Attempts : Last(n, a)
    BY <2>2, EmptyValues
  <2> QED
    BY <2>1, <2>2
<1>2. latest_execution_by_node(v) = [n \in Nodes |-> entry(n)]
  BY DEF latest_execution_by_node
<1> HIDE DEF entry
<1> QED
  BY <1>1, <1>2

-----------------------------------------------------------------------------
(* The steps of _execute_node keep the types. *)

LEMMA SetTask ==
  ASSUME TaskOK, NEW e \in Executors, NEW n \in Nodes, NEW t \in Task,
         task' = [task EXCEPT ![e][n] = t]
  PROVE  TaskOK'
  BY DEF TaskOK

LEMMA GotoType ==
  ASSUME TaskOK, NEW e \in Executors, NEW n \in Nodes, NEW pc \in TaskPc, Goto(e, n, pc)
  PROVE  TaskOK'
<1>1. task[e][n] \in Task
  BY DEF TaskOK
<1>2. [task[e][n] EXCEPT !.pc = pc] \in Task
  BY <1>1 DEF Task
<1>3. task' = [task EXCEPT ![e][n] = [task[e][n] EXCEPT !.pc = pc]]
  BY DEF Goto, TaskOK
<1> QED
  BY <1>2, <1>3, SetTask

LEMMA ReturnType ==
  ASSUME TaskOK, NEW e \in Executors, NEW n \in Nodes, NEW status \in RunStatus,
         Return(e, n, status)
  PROVE  TaskOK'
<1>1. [NoTask EXCEPT !.pc = "done", !.seen.status = status] \in Task
  <2>1. [NoRun EXCEPT !.status = status] \in Run
    BY EmptyValues, RunUpdates
  <2>2. NoTask.seen = NoRun
    BY DEF NoTask
  <2> QED
    BY <2>1, <2>2, EmptyValues DEF Task, TaskPc
<1> QED
  BY <1>1, SetTask DEF Return

LEMMA SeenType ==
  ASSUME TaskOK, NEW e \in Executors, NEW n \in Nodes, NEW pc \in TaskPc, NEW r \in Run,
         task' = [task EXCEPT ![e][n].pc = pc, ![e][n].seen = r]
  PROVE  TaskOK'
<1>1. task[e][n] \in Task
  BY DEF TaskOK
<1>2. [task[e][n] EXCEPT !.pc = pc, !.seen = r] \in Task
  BY <1>1 DEF Task
<1>3. task' = [task EXCEPT ![e][n] = [task[e][n] EXCEPT !.pc = pc, !.seen = r]]
  BY DEF TaskOK
<1> QED
  BY <1>2, <1>3, SetTask

LEMMA FlushType ==
  ASSUME DbOK, TaskOK, NEW e \in Executors, NEW n \in Nodes, NEW status \in RowStatus,
         Flush(e, n, status)
  PROVE  DbOK'
<1>1. task[e][n] \in Task
  BY DEF TaskOK
<1>2. Append(pend[e], n, task[e][n].attempt, status, task[e][n].receipt) \in [Keys -> Row]
  BY <1>1, AppendType DEF DbOK, Task
<1>3. pend' = [pend EXCEPT ![e] = Append(pend[e], n, task[e][n].attempt, status, task[e][n].receipt)]
  BY DEF Flush
<1> QED
  BY <1>2, <1>3 DEF DbOK, Flush

LEMMA CheckpointType ==
  ASSUME DbOK, NEW e \in Executors, NEW p \in [Keys -> Row], NEW new \in Run,
         Checkpoint(e, p, new)
  PROVE  DbOK'
  BY OverType, EmptyValues DEF DbOK, Checkpoint

LEMMA SucceededType ==
  ASSUME run \in Run, NEW n \in Nodes, NEW selected \in SUBSET Edges
  PROVE  Succeeded(n, selected) \in Run
  BY DEF Succeeded, Run

LEMMA MergeContextType ==
  ASSUME run \in Run, NEW seen \in Run
  PROVE  MergeContext(seen) \in Run
<1>1. [n \in Nodes |-> IF n \in seen.done THEN seen.output[n] ELSE run.output[n]] \in [Nodes -> SUBSET Edges]
  BY DEF Run
<1> QED
  BY <1>1 DEF MergeContext, Run

LEMMA ExecuteNodeType ==
  ASSUME TypeOK, NEW e \in Executors, NEW n \in Nodes, ExecuteNode(e, n)
  PROVE  TypeOK'
<1>1. DbOK /\ ExOK /\ TaskOK /\ EffectsOK /\ EnvOK
  BY TypeParts
<1>2. run \in Run /\ pend[e] \in [Keys -> Row] /\ task[e][n] \in Task
  BY <1>1 DEF DbOK, TaskOK
<1> DEFINE Rest == UNCHANGED <<ex, envvars>>
<1>3. Rest => ExOK' /\ EnvOK'
  BY <1>1 DEF ExOK, EnvOK, envvars
<1>4. UNCHANGED effects => EffectsOK'
  BY <1>1 DEF EffectsOK
<1>5. UNCHANGED dbvars => DbOK'
  BY <1>1 DEF DbOK, dbvars
<1>6. \A x \in RowStatus : Flush(e, n, x) => DbOK'
  BY <1>1, FlushType
<1>7. \A new \in Run : Checkpoint(e, pend[e], new) => DbOK'
  BY <1>1, <1>2, CheckpointType
<1>8. \A pc \in TaskPc : Goto(e, n, pc) => TaskOK'
  BY <1>1, GotoType
<1>9. \A x \in RunStatus : Return(e, n, x) => TaskOK'
  BY <1>1, ReturnType
<1>10. DbOK' => run'.status \in RunStatus
  BY DEF DbOK, Run
<1>11. ASSUME NEW r \in Run, NEW pc \in TaskPc,
              task' = [task EXCEPT ![e][n].pc = pc, ![e][n].seen = r]
       PROVE  TaskOK'
  BY <1>1, <1>11, SeenType
<1>12. SUFFICES DbOK' /\ TaskOK' /\ EffectsOK' /\ Rest
  BY <1>3, TypeParts
<1> HIDE DEF Rest
<1>a. CASE StopIfCancelled(e, n)
  BY <1>a, <1>4, <1>5, <1>9 DEF StopIfCancelled, Rest, RunStatus
<1>b. CASE BeginAttempt(e, n)
  <2>1. CASE Free(e, n, task[e][n].attempt)
    BY <1>b, <2>1, <1>4, <1>6, <1>8 DEF BeginAttempt, Rest, RowStatus, TaskPc
  <2>2. CASE ~ Free(e, n, task[e][n].attempt)
    BY <1>b, <2>2, <1>4, <1>5, <1>8 DEF BeginAttempt, Rest, TaskPc
  <2> QED
    BY <2>1, <2>2
<1>d. CASE EnterNode(e, n)
  <2>1. DbOK'
    <3>1. [run EXCEPT !.current = @ \cup {n}] \in Run
      BY <1>2 DEF Run
    <3> QED
      BY <1>d, <3>1, <1>5, <1>7 DEF EnterNode
  <2>2. TaskOK'
    <3>1. [task[e][n] EXCEPT !.pc = "invoked", !.listed = TRUE] \in Task
      BY <1>2 DEF Task, TaskPc
    <3>2. task' = [task EXCEPT ![e][n] = [task[e][n] EXCEPT !.pc = "invoked", !.listed = TRUE]]
      BY <1>d, <1>1 DEF EnterNode, TaskOK
    <3> QED
      BY <1>1, <3>1, <3>2, SetTask
  <2> QED
    BY <1>d, <1>4, <2>1, <2>2 DEF EnterNode, Rest
<1>13. TakesEffect(e, n) => EffectsOK'
  <2>1. [effects[n] EXCEPT ![task[e][n].receipt] = @ + 1] \in [Attempts -> Nat]
    <3> DEFINE f == effects[n]
               r == task[e][n].receipt
    <3>1. f \in [Attempts -> Nat]
      BY <1>1 DEF EffectsOK
    <3> HIDE DEF f, r
    <3>2. CASE r \in Attempts
      <4>1. f[r] + 1 \in Nat
        BY <3>1, <3>2
      <4> QED
        BY <3>1, <4>1 DEF f, r
    <3>3. CASE r \notin Attempts
      <4>1. [f EXCEPT ![r] = @ + 1] = f
        BY <3>1, <3>3
      <4> QED
        BY <3>1, <4>1 DEF f, r
    <3> QED
      BY <3>2, <3>3
  <2>2. TakesEffect(e, n) => effects' = [effects EXCEPT ![n] = [effects[n] EXCEPT ![task[e][n].receipt] = @ + 1]]
    BY <1>1 DEF TakesEffect, EffectsOK
  <2> QED
    BY <1>1, <2>1, <2>2 DEF EffectsOK
<1>e. CASE NodeReturns(e, n)
  BY <1>e, <1>4, <1>5, <1>8, <1>13 DEF NodeReturns, Rest, TaskPc
<1>f. ASSUME NEW err \in Errors, NodeFails(e, n, err) PROVE DbOK' /\ TaskOK' /\ EffectsOK' /\ Rest
  BY <1>f, <1>4, <1>5, <1>8, <1>13 DEF NodeFails, Rest, TaskPc
<1>g. CASE RecordResult(e, n)
  BY <1>g, <1>4, <1>6, <1>8 DEF RecordResult, Rest, RowStatus, TaskPc
<1>h. CASE pause_for_approval(e, n)
  <2>1. [run EXCEPT !.status = "waiting_approval"] \in Run
    BY <1>2, RunUpdates DEF RunStatus
  <2>2. DbOK'
    BY <1>h, <2>1, <1>7 DEF pause_for_approval
  <2> QED
    BY <1>h, <2>2, <1>4, <1>9, <1>10 DEF pause_for_approval, Rest
<1>i. CASE succeed_node(e, n)
  <2>1. \A x \in Outputs(n) : Succeeded(n, x) \in Run
    BY <1>2, SucceededType DEF Outputs, Out
  <2>2. DbOK'
    BY <1>i, <2>1, <1>7 DEF succeed_node
  <2>3. run' \in Run
    BY <2>2 DEF DbOK
  <2>4. TaskOK'
    <3>1. CASE run.status # "cancelled" /\ SkippedAfter(run', n) # {}
      BY <1>i, <3>1, <2>3, <1>11 DEF succeed_node, TaskPc
    <3>2. CASE ~ (run.status # "cancelled" /\ SkippedAfter(run', n) # {})
      BY <1>i, <3>2, <2>2, <1>9, <1>10 DEF succeed_node
    <3> QED
      BY <3>1, <3>2
  <2> QED
    BY <1>i, <2>2, <2>4, <1>4 DEF succeed_node, Rest
<1>j. CASE skip_unselected_branches(e, n)
  <2> DEFINE seen == task[e][n].seen
             S == SkippedAfter(seen, n)
  <2>1. seen \in Run
    BY <1>2 DEF Task
  <2>2. S \in SUBSET Nodes
    BY <2>1, SkippedNodes
  <2>3. AppendSkipped(pend[e], S) \in [Keys -> Row]
    BY <2>2, <1>2, AppendSkippedType
  <2>4. [MergeContext(seen) EXCEPT !.skipped = @ \cup S] \in Run
    BY <2>1, <2>2, <1>2, MergeContextType DEF Run
  <2>5. DbOK'
    <3>1. Checkpoint(e, AppendSkipped(pend[e], S), [MergeContext(seen) EXCEPT !.skipped = @ \cup S])
      BY <1>j DEF skip_unselected_branches
    <3> HIDE DEF S, seen
    <3> QED
      BY <3>1, <2>3, <2>4, <1>1, CheckpointType
  <2> QED
    BY <1>j, <2>5, <1>4, <1>9, <1>10 DEF skip_unselected_branches, Rest
<1>k. CASE IgnoreFailure(e, n)
  BY <1>k, <1>4, <1>6, <1>8 DEF IgnoreFailure, Rest, RowStatus, TaskPc
<1>l. CASE Retry(e, n)
  <2> DEFINE t == [task[e][n] EXCEPT !.pc = "attempt", !.attempt = task[e][n].attempt + 1,
                                     !.receipt = task[e][n].attempt + 1,
                                     !.retries = task[e][n].retries - 1]
  <2>1. t \in Task
    <3>1. task[e][n].attempt < MaxAttempts /\ task[e][n].retries > 0
      BY <1>l DEF Retry, MayRetry
    <3>2. /\ task[e][n].attempt + 1 \in 0 .. MaxAttempts
          /\ task[e][n].retries - 1 \in Nat
      BY <3>1, <1>2, WorkflowAssumption DEF Task
    <3> QED
      BY <3>2, <1>2 DEF Task, TaskPc
  <2>2. TaskOK'
    <3>1. task' = [task EXCEPT ![e][n] = t]
      BY <1>l, <1>1 DEF Retry, TaskOK
    <3> HIDE DEF t
    <3> QED
      BY <2>1, <3>1, <1>1, SetTask
  <2> QED
    BY <1>l, <2>2, <1>4, <1>6 DEF Retry, Rest, RowStatus
<1>m. CASE fail_node(e, n)
  BY <1>m, <1>4, <1>5, <1>6, <1>8, <1>9 DEF fail_node, Rest, RowStatus, TaskPc, RunStatus
<1>n. CASE FailRun(e, n)
  <2>1. Failed \in Run
    BY <1>2 DEF Failed, Run, RunStatus
  <2>2. DbOK'
    BY <1>n, <2>1, <1>7 DEF FailRun
  <2> QED
    BY <1>n, <2>2, <1>4, <1>9, <1>10 DEF FailRun, Rest
<1>o. CASE skip_branch_node(e, n)
  <2>1. [run EXCEPT !.current = @ \ {n}] \in Run
    BY <1>2 DEF Run
  <2>2. DbOK' /\ run' \in Run
    BY <1>o, <2>1, <1>7 DEF skip_branch_node, DbOK
  <2>3. TaskOK'
    BY <1>o, <2>2, <1>9, <1>10, <1>11 DEF skip_branch_node, TaskPc
  <2> QED
    BY <1>o, <2>2, <2>3, <1>4 DEF skip_branch_node, Rest
<1>p. CASE MarkSkipped(e, n)
  <2>1. [MergeContext(task[e][n].seen) EXCEPT !.skipped = @ \cup {n}] \in Run
    BY <1>2, MergeContextType DEF Run, Task
  <2>2. DbOK'
    BY <1>p, <2>1, <1>7 DEF MarkSkipped
  <2> QED
    BY <1>p, <2>2, <1>4, <1>9, <1>10 DEF MarkSkipped, Rest
<1> QED
  BY <1>a, <1>b, <1>d, <1>e, <1>f, <1>g, <1>h, <1>i, <1>j, <1>k, <1>l, <1>m, <1>n, <1>o, <1>p
     DEF ExecuteNode

-----------------------------------------------------------------------------
(* The step loop keeps the types. *)

LEMMA CloseType ==
  ASSUME TypeOK, NEW e \in Executors, Close(e)
  PROVE  ExOK' /\ TaskOK' /\ pend' \in [Executors -> [Keys -> Row]]
  BY EmptyValues, TypeParts DEF Close, ExOK, TaskOK, DbOK

LEMMA EnvUnchanged ==
  ASSUME TypeOK, UNCHANGED <<effects, envvars>>
  PROVE  EffectsOK' /\ EnvOK'
  BY TypeParts DEF EffectsOK, EnvOK, envvars

LEMMA DbUnchanged ==
  ASSUME TypeOK, UNCHANGED dbvars
  PROVE  DbOK'
  BY TypeParts DEF DbOK, dbvars

LEMMA ConcludeType ==
  ASSUME TypeOK, NEW e \in Executors, NEW new \in Run, Conclude(e, new)
  PROVE  TypeOK'
<1>1. DbOK /\ View(e) \in [Keys -> Row]
  BY TypeParts, OverType DEF DbOK, View
<1>2. ExOK' /\ TaskOK' /\ pend' \in [Executors -> [Keys -> Row]]
  BY CloseType DEF Conclude
<1>3. run' \in Run /\ rows' \in [Keys -> Row]
  BY <1>1 DEF Conclude, DbOK
<1>4. EffectsOK' /\ EnvOK'
  BY EnvUnchanged DEF Conclude
<1> QED
  BY <1>2, <1>3, <1>4, TypeParts DEF DbOK

LEMMA ExitType ==
  ASSUME TypeOK, NEW e \in Executors, Exit(e)
  PROVE  TypeOK'
<1>1. ExOK' /\ TaskOK' /\ pend' \in [Executors -> [Keys -> Row]]
  BY CloseType DEF Exit
<1>2. DbOK'
  BY <1>1, TypeParts DEF Exit, DbOK
<1>3. EffectsOK' /\ EnvOK'
  BY EnvUnchanged DEF Exit
<1> QED
  BY <1>1, <1>2, <1>3, TypeParts

LEMMA RefreshType ==
  ASSUME TypeOK, NEW e \in Executors, Refresh(e)
  PROVE  TypeOK'
<1>1. CASE run.status # "running"
  BY <1>1, ExitType DEF Refresh
<1>2. CASE run.status = "running"
  <2> DEFINE x == [NoExecutor EXCEPT !.pc = "loop", !.seen = run,
                                     !.latest = latest_execution_by_node(View(e))]
  <2>1. DbOK /\ ExOK /\ TaskOK
    BY TypeParts
  <2>2. latest_execution_by_node(View(e)) \in [Nodes -> Latest]
    BY <2>1, OverType, LatestType DEF View, DbOK
  <2>3. x \in Executor
    BY <2>1, <2>2, EmptyValues DEF Executor, LoopPc, DbOK
  <2>4. ex' = [ex EXCEPT ![e] = x] /\ task' = [task EXCEPT ![e] = NoTasks]
        /\ UNCHANGED <<dbvars, effects, envvars>>
    BY <1>2 DEF Refresh
  <2> HIDE DEF x
  <2>5. ExOK' /\ TaskOK'
    BY <2>1, <2>3, <2>4, EmptyValues DEF ExOK, TaskOK
  <2> QED
    BY <2>4, <2>5, DbUnchanged, EnvUnchanged, TypeParts
<1> QED
  BY <1>1, <1>2

LEMMA LaunchType ==
  ASSUME TaskOK, NEW e \in Executors, NEW S \in SUBSET Nodes,
         NEW latest \in [Nodes -> Latest], NEW r \in Run, Launch(e, S, latest, r)
  PROVE  TaskOK'
<1> DEFINE t(n) == IF n \notin S THEN NoTask
                   ELSE [pc |-> "attempt", attempt |-> latest[n].attempt + 1,
                         receipt |-> latest[n].attempt + 1, retries |-> MaxRetries[n],
                         listed |-> n \in r.current, seen |-> NoRun]
<1>1. ASSUME NEW n \in Nodes PROVE t(n) \in Task
  <2>1. CASE n \notin S
    BY <2>1, EmptyValues
  <2>2. CASE n \in S
    <3>1. latest[n].attempt + 1 \in 0 .. MaxAttempts
      BY <2>2, WorkflowAssumption DEF Launch, Latest
    <3> QED
      BY <2>2, <3>1, EmptyValues, WorkflowAssumption DEF Task, TaskPc
  <2> QED
    BY <2>1, <2>2
<1>2. task' = [task EXCEPT ![e] = [n \in Nodes |-> t(n)]]
  BY DEF Launch
<1> HIDE DEF t
<1> QED
  BY <1>1, <1>2 DEF TaskOK

LEMMA StepLoopType ==
  ASSUME TypeOK, NEW e \in Executors, StepLoop(e)
  PROVE  TypeOK'
<1>1. DbOK /\ ExOK /\ TaskOK /\ EffectsOK /\ EnvOK
  BY TypeParts
<1>2. run \in Run /\ ex[e] \in Executor /\ ex[e].latest \in [Nodes -> Latest] /\ ex[e].seen \in Run
  BY <1>1 DEF DbOK, ExOK, Executor
<1>3. Exit(e) => TypeOK'
  BY ExitType
<1>4. Refresh(e) => TypeOK'
  BY RefreshType
<1>5. \A new \in Run : Conclude(e, new) => TypeOK'
  BY ConcludeType
<1>6. Failed \in Run
  BY <1>2 DEF Failed, Run, RunStatus
<1>7. \A x \in Executor : ex' = [ex EXCEPT ![e] = x] => ExOK'
  BY <1>1 DEF ExOK
<1>8. ASSUME NEW pc \in LoopPc, ex' = [ex EXCEPT ![e].pc = pc] PROVE ExOK'
  <2>1. [ex[e] EXCEPT !.pc = pc] \in Executor
    BY <1>2 DEF Executor
  <2> QED
    BY <1>8, <2>1, <1>1 DEF ExOK
<1>9. task' = [task EXCEPT ![e] = NoTasks] => TaskOK'
  BY <1>1, EmptyValues DEF TaskOK
<1>a. CASE Begin(e)
  BY <1>a, <1>4 DEF Begin
<1>b. CASE StopLoop(e)
  BY <1>b, <1>3 DEF StopLoop
<1>c. CASE fail_run_duration(e)
  BY <1>c, <1>5, <1>6 DEF fail_run_duration
<1>d. CASE Recover(e)
  <2> DEFINE x == [ex[e] EXCEPT !.pc = "recover", !.todo = find_interrupted_executions(e)]
  <2>1. find_interrupted_executions(e) \in SUBSET Nodes
    BY <1>2 DEF find_interrupted_executions, Run
  <2>2. x \in Executor
    BY <1>2, <2>1 DEF Executor, LoopPc
  <2>3. ex' = [ex EXCEPT ![e] = x]
    BY <1>d, <1>1 DEF Recover, ExOK
  <2> HIDE DEF x
  <2>4. ExOK'
    BY <2>2, <2>3, <1>7
  <2>5. UNCHANGED <<dbvars, task, effects, envvars>>
    BY <1>d DEF Recover
  <2> QED
    BY <2>4, <2>5, <1>1, DbUnchanged, EnvUnchanged, TypeParts DEF TaskOK
<1>e. CASE Stall(e)
  BY <1>e, <1>3 DEF Stall
<1>f. CASE complete_run(e)
  <2>1. [run EXCEPT !.status = "completed", !.current = {}] \in Run
    BY <1>2 DEF Run, RunStatus
  <2> QED
    BY <1>f, <2>1, <1>5 DEF complete_run
<1>g. CASE execute_nodes_parallel(e)
  <2>1. PICK g \in group_parallel_ready_nodes(Ready(e)) : Launch(e, g, ex[e].latest, ex[e].seen)
    BY <1>g DEF execute_nodes_parallel
  <2>2. g \in SUBSET Nodes
    BY DEF group_parallel_ready_nodes, Ready, resolve_ready_nodes
  <2>3. TaskOK'
    BY <2>1, <2>2, <1>1, <1>2, LaunchType
  <2>4. ExOK'
    BY <1>g, <1>8 DEF execute_nodes_parallel, LoopPc
  <2>5. UNCHANGED <<dbvars, effects, envvars>>
    BY <1>g DEF execute_nodes_parallel
  <2> QED
    BY <2>3, <2>4, <2>5, DbUnchanged, EnvUnchanged, TypeParts
<1>h. CASE ExecuteSequential(e)
  <2>1. PICK n \in sequential_head(Ready(e)) : Launch(e, {n}, ex[e].latest, ex[e].seen)
    BY <1>h DEF ExecuteSequential
  <2>2. {n} \in SUBSET Nodes
    BY DEF sequential_head, Ready, resolve_ready_nodes
  <2>3. TaskOK'
    BY <2>1, <2>2, <1>1, <1>2, LaunchType
  <2>4. ExOK'
    BY <1>h, <1>8 DEF ExecuteSequential, LoopPc
  <2>5. UNCHANGED <<dbvars, effects, envvars>>
    BY <1>h DEF ExecuteSequential
  <2> QED
    BY <2>3, <2>4, <2>5, DbUnchanged, EnvUnchanged, TypeParts
<1>i. CASE Raised(e)
  BY <1>i, <1>3 DEF Raised
<1>j. CASE SequentialDone(e)
  BY <1>j, <1>4 DEF SequentialDone
<1>k. CASE ParallelDone(e)
  <2>1. CASE Exit(e)
    BY <2>1, <1>3
  <2>2. CASE /\ ex' = [ex EXCEPT ![e].pc = "loop", ![e].seen = run]
             /\ task' = [task EXCEPT ![e] = NoTasks]
             /\ UNCHANGED <<dbvars, effects, envvars>>
    <3> DEFINE x == [ex[e] EXCEPT !.pc = "loop", !.seen = run]
    <3>1. x \in Executor
      BY <1>2 DEF Executor, LoopPc
    <3>2. ex' = [ex EXCEPT ![e] = x]
      BY <2>2, <1>1 DEF ExOK
    <3> HIDE DEF x
    <3> QED
      BY <2>2, <3>1, <3>2, <1>7, <1>9, DbUnchanged, EnvUnchanged, TypeParts
  <2> QED
    BY <1>k, <2>1, <2>2 DEF ParallelDone
<1>l. CASE RecoveryDone(e)
  <2>1. CASE /\ ex' = [ex EXCEPT ![e].pc = "recover"]
             /\ task' = [task EXCEPT ![e] = NoTasks]
             /\ UNCHANGED <<dbvars, effects, envvars>>
    <3>1. ExOK'
      BY <2>1, <1>8 DEF LoopPc
    <3> QED
      BY <2>1, <3>1, <1>9, DbUnchanged, EnvUnchanged, TypeParts
  <2> QED
    BY <1>l, <2>1, <1>3, <1>4 DEF RecoveryDone
<1>m. ASSUME NEW n \in Nodes, RefuseRecovery(e, n) PROVE TypeOK'
  BY <1>m, <1>5, <1>6 DEF RefuseRecovery
<1>n. ASSUME NEW n \in Nodes, resume_interrupted_node(e, n) PROVE TypeOK'
  <2> DEFINE x == ex[e].latest[n]
             p == Append(pend[e], n, x.attempt, "failed", x.receipt)
             a == latest_execution_by_node(Over(p, rows))[n].attempt + 1
             y == [ex[e] EXCEPT !.pc = "recovering", !.todo = ex[e].todo \ {n}]
             t == [NoTask EXCEPT !.pc = "attempt", !.attempt = a, !.receipt = x.receipt,
                                 !.retries = MaxRetries[n], !.listed = n \in run.current]
  <2>1. x \in Latest
    BY <1>2
  <2>2. p \in [Keys -> Row]
    BY <2>1, <1>1, AppendType DEF DbOK, Latest, RowStatus
  <2>3. a \in Attempts /\ x.receipt \in 0 .. MaxAttempts
    BY <1>n, <2>1 DEF resume_interrupted_node, Latest
  <2>4. y \in Executor
    BY <1>2 DEF Executor, LoopPc
  <2>5. /\ pend' = [pend EXCEPT ![e] = p]
        /\ ex' = [ex EXCEPT ![e] = y]
        /\ task' = [task EXCEPT ![e] = [NoTasks EXCEPT ![n] = t]]
        /\ UNCHANGED <<run, rows, effects, envvars>>
    BY <1>n, <1>1 DEF resume_interrupted_node, ExOK
  <2> HIDE DEF p, x, a, y
  <2>6. t \in Task
    <3>1. a \in 0 .. MaxAttempts /\ MaxRetries[n] \in Nat
      BY <2>3, WorkflowAssumption DEF Attempts
    <3>2. (n \in run.current) \in BOOLEAN
      OBVIOUS
    <3> QED
      BY <2>3, <3>1, <3>2, EmptyValues DEF Task, TaskPc
  <2> HIDE DEF t
  <2>7. TaskOK'
    BY <2>5, <2>6, <1>1, EmptyValues DEF TaskOK
  <2>8. DbOK'
    BY <2>2, <2>5, <1>1 DEF DbOK
  <2> QED
    BY <2>4, <2>5, <2>7, <2>8, <1>7, EnvUnchanged, TypeParts
<1> QED
  BY <1>a, <1>b, <1>c, <1>d, <1>e, <1>f, <1>g, <1>h, <1>i, <1>j, <1>k, <1>l, <1>m, <1>n DEF StepLoop

-----------------------------------------------------------------------------
(* Requests, time and the process keep the types. *)

LEMMA DecidedType ==
  ASSUME run \in Run, NEW n \in Nodes, NEW decision \in Decisions
  PROVE  Decided(n, decision) \in Run
<1>1. Succeeded(n, Selects[n][decision]) \in Run
  BY WorkflowAssumption, SucceededType
<1>2. RunStatusAfterDecision(n, decision) \in RunStatus
  BY DEF RunStatusAfterDecision, RunStatus
<1> QED
  BY <1>1, <1>2, RunUpdates DEF Decided

LEMMA AskType ==
  ASSUME EnvOK, NEW d \in Requests, NEW pc \in {"idle", "skip", "schedule"}, NEW r \in Run,
         NEW n \in Nodes, Ask(d, pc, r, n)
  PROVE  req' \in [Requests -> Request]
<1>1. [pc |-> pc, seen |-> r, node |-> n] \in Request
  BY DEF Request
<1> QED
  BY <1>1 DEF Ask, EnvOK

LEMMA ObserveType ==
  ASSUME EnvOK, Observe
  PROVE  overlapped' \in BOOLEAN
  BY DEF EnvOK, Observe

\* What the request of a decision skips
SkippedBy(d) == IF req[d].seen.output[req[d].node] = {} THEN {} ELSE SkippedAfter(req[d].seen, req[d].node)

LEMMA SkippedByType ==
  ASSUME TypeOK, NEW d \in Requests
  PROVE  SkippedBy(d) \in SUBSET Nodes /\ req[d].seen \in Run
  BY SkippedNodes DEF SkippedBy, TypeOK, Request

LEMMA RequestType ==
  ASSUME TypeOK, NEW d \in Requests
  PROVE  /\ start_run(d) => TypeOK'
         /\ \A n \in Nodes, a \in Attempts, decision \in Decisions :
              apply_decision(d, n, a, decision) => TypeOK'
         /\ continue_from_approval(d) => TypeOK'
         /\ \A e \in Executors : schedule_run(d, e) => TypeOK'
<1>1. DbOK /\ ExOK /\ TaskOK /\ EffectsOK /\ EnvOK
  BY TypeParts
<1>2. run \in Run /\ rows \in [Keys -> Row] /\ req[d] \in Request
  BY <1>1 DEF DbOK, EnvOK
<1>3. UNCHANGED <<up, overdue, resumes, crashes, errors>> /\ (UNCHANGED overlapped \/ Observe)
        /\ req' \in [Requests -> Request] => EnvOK'
  BY <1>1, ObserveType DEF EnvOK
<1>4. UNCHANGED <<loopvars, effects>> => ExOK' /\ TaskOK' /\ EffectsOK'
  BY <1>1 DEF loopvars, ExOK, TaskOK, EffectsOK
<1>5. UNCHANGED pend /\ run' \in Run /\ rows' \in [Keys -> Row] => DbOK'
  BY <1>1 DEF DbOK
<1>6. NoRun \in Run /\ Entry \in Nodes
  BY EmptyValues, GraphAssumption
<1>7. ASSUME start_run(d) PROVE TypeOK'
  <2>1. run' \in Run
    BY <1>7, <1>6, RunUpdates DEF start_run, RunStatus
  <2>2. req' \in [Requests -> Request]
    BY <1>7, <1>6, <1>1, AskType DEF start_run
  <2> QED
    BY <1>7, <2>1, <2>2, <1>2, <1>3, <1>4, <1>5, TypeParts DEF start_run
<1>8. ASSUME NEW n \in Nodes, NEW a \in Attempts, NEW decision \in Decisions,
             apply_decision(d, n, a, decision)
      PROVE  TypeOK'
  <2>1. run' \in Run
    BY <1>8, <1>2, DecidedType DEF apply_decision, record_approval_decision
  <2>2. rows' \in [Keys -> Row]
    <3>1. rows[<<n, a>>] \in Row
      BY <1>2 DEF Keys
    <3>2. [rows[<<n, a>>] EXCEPT !.status = decision] \in Row
      BY <3>1 DEF Row, RowStatus
    <3>3. rows' = [rows EXCEPT ![<<n, a>>] = [rows[<<n, a>>] EXCEPT !.status = decision]]
      BY <1>8, <1>2 DEF apply_decision, record_approval_decision
    <3> QED
      BY <1>2, <3>2, <3>3
  <2>3. req' \in [Requests -> Request]
    <3>1. CASE run'.status = "failed"
      BY <1>8, <3>1, <1>1 DEF apply_decision, record_approval_decision, EnvOK
    <3>2. CASE run'.status # "failed"
      BY <1>8, <3>2, <2>1, <1>1, AskType DEF apply_decision, record_approval_decision
    <3> QED
      BY <3>1, <3>2
  <2> QED
    BY <1>8, <2>1, <2>2, <2>3, <1>3, <1>4, <1>5, TypeParts DEF apply_decision, record_approval_decision
<1>9. ASSUME continue_from_approval(d) PROVE TypeOK'
  <2> DEFINE seen == req[d].seen
             S == SkippedBy(d)
  <2>1. seen \in Run
    BY SkippedByType
  <2>2. S \in SUBSET Nodes
    BY SkippedByType
  <2>3. AppendSkipped(rows, S) \in [Keys -> Row]
    BY <2>2, <1>2, AppendSkippedType
  <2>4. [MergeContext(seen) EXCEPT !.skipped = @ \cup S] \in Run
    BY <2>1, <2>2, <1>2, MergeContextType DEF Run
  <2>5. \/ UNCHANGED run /\ rows' \in {rows, AppendSkipped(rows, S)}
        \/ run' = [MergeContext(seen) EXCEPT !.skipped = @ \cup S] /\ rows' = AppendSkipped(rows, S)
    BY <1>9 DEF continue_from_approval, SkippedBy
  <2>6. Ask(d, "schedule", NoRun, Entry) \/ Ask(d, "idle", NoRun, Entry)
    BY <1>9 DEF continue_from_approval
  <2> HIDE DEF seen, S
  <2>7. run' \in Run /\ rows' \in [Keys -> Row]
    BY <2>3, <2>4, <2>5, <1>2
  <2>8. req' \in [Requests -> Request]
    BY <2>6, <1>1, <1>6, AskType
  <2> QED
    BY <1>9, <2>7, <2>8, <1>3, <1>4, <1>5, TypeParts DEF continue_from_approval
<1>10. ASSUME NEW e \in Executors, schedule_run(d, e) PROVE TypeOK'
  <2>1. [ex[e] EXCEPT !.pc = "scheduled"] \in Executor
    BY <1>1 DEF ExOK, Executor, LoopPc
  <2>2. ExOK'
    BY <1>10, <1>1, <2>1 DEF schedule_run, Schedule, ExOK
  <2>3. req' \in [Requests -> Request]
    BY <1>10, <1>1, EmptyValues DEF schedule_run, EnvOK
  <2> QED
    BY <1>10, <1>1, <2>2, <2>3, <1>3, DbUnchanged, TypeParts DEF schedule_run, Schedule, TaskOK, EffectsOK
<1> QED
  BY <1>7, <1>8, <1>9, <1>10

LEMMA ProcessType ==
  ASSUME TypeOK
  PROVE  /\ \A e \in Executors : resume(e) => TypeOK'
         /\ \A e \in Executors, n \in Nodes : StoreError(e, n) => TypeOK'
         /\ cancel_run => TypeOK'
         /\ DurationPasses => TypeOK'
         /\ Crash => TypeOK'
         /\ reconcile_orphaned_runs => TypeOK'
<1>1. DbOK /\ ExOK /\ TaskOK /\ EffectsOK /\ EnvOK
  BY TypeParts
<1>2. \A e \in Executors : [ex[e] EXCEPT !.pc = "scheduled"] \in Executor
  BY <1>1 DEF ExOK, Executor, LoopPc
<1>3. ASSUME NEW e \in Executors, resume(e) PROVE TypeOK'
  <2>1. ExOK'
    BY <1>1, <1>2, <1>3 DEF resume, Schedule, ExOK
  <2>2. EnvOK'
    BY <1>1, <1>3, ObserveType DEF resume, Schedule, EnvOK
  <2> QED
    BY <1>1, <1>3, <2>1, <2>2, DbUnchanged, TypeParts DEF resume, TaskOK, EffectsOK
<1>4. ASSUME NEW e \in Executors, NEW n \in Nodes, StoreError(e, n) PROVE TypeOK'
  <2>1. TaskOK'
    BY <1>1, <1>4, GotoType DEF StoreError, TaskPc
  <2>2. EnvOK'
    BY <1>1, <1>4 DEF StoreError, EnvOK
  <2> QED
    BY <1>1, <1>4, <2>1, <2>2, DbUnchanged, TypeParts DEF StoreError, ExOK, EffectsOK
<1>5. ASSUME cancel_run PROVE TypeOK'
  <2>1. run' \in Run
    BY <1>1, <1>5, RunUpdates DEF cancel_run, DbOK, RunStatus
  <2> QED
    BY <1>1, <1>5, <2>1, TypeParts DEF cancel_run, DbOK, loopvars, envvars, ExOK, TaskOK, EffectsOK, EnvOK
<1>6. ASSUME DurationPasses PROVE TypeOK'
  BY <1>1, <1>6, DbUnchanged, TypeParts DEF DurationPasses, loopvars, ExOK, TaskOK, EffectsOK, EnvOK
<1>7. ASSUME Crash PROVE TypeOK'
  <2>1. DbOK'
    BY <1>1, <1>7, EmptyValues DEF Crash, DbOK
  <2>2. ExOK' /\ TaskOK'
    BY <1>7, EmptyValues DEF Crash, ExOK, TaskOK
  <2>3. EnvOK' /\ EffectsOK'
    <3>1. EffectsOK' /\ req' \in [Requests -> Request]
      BY <1>1, <1>7, EmptyValues DEF Crash, EffectsOK
    <3>2. resumes' \in Nat /\ crashes' \in Nat /\ errors' \in Nat
      BY <1>1, <1>7 DEF Crash, EnvOK
    <3>3. up' \in BOOLEAN /\ overdue' \in BOOLEAN /\ overlapped' \in BOOLEAN
      BY <1>1, <1>7 DEF Crash, EnvOK
    <3> QED
      BY <3>1, <3>2, <3>3 DEF EnvOK
  <2> QED
    BY <2>1, <2>2, <2>3, TypeParts
<1>8. ASSUME reconcile_orphaned_runs PROVE TypeOK'
  <2>1. ExOK' /\ overlapped' \in BOOLEAN
    <3>1. CASE \E e \in Executors : Schedule(e)
      BY <1>1, <1>2, <3>1, ObserveType DEF Schedule, ExOK
    <3>2. CASE UNCHANGED <<ex, overlapped>>
      BY <1>1, <3>2 DEF ExOK, EnvOK
    <3> QED
      BY <1>8, <3>1, <3>2 DEF reconcile_orphaned_runs
  <2>2. EnvOK'
    BY <1>1, <1>8, <2>1 DEF reconcile_orphaned_runs, EnvOK
  <2> QED
    BY <1>1, <1>8, <2>1, <2>2, DbUnchanged, TypeParts DEF reconcile_orphaned_runs, TaskOK, EffectsOK
<1> QED
  BY <1>3, <1>4, <1>5, <1>6, <1>7, <1>8

LEMMA TypeStep == TypeOK /\ [Next]_vars => TypeOK'
<1> SUFFICES ASSUME TypeOK, [Next]_vars PROVE TypeOK'
  OBVIOUS
<1>1. CASE UNCHANGED vars
  BY <1>1 DEF vars, TypeOK
<1>2. CASE Next
  BY <1>2, StepLoopType, ExecuteNodeType, RequestType, ProcessType DEF Next
<1> QED
  BY <1>1, <1>2

LEMMA TypeInit == Init => TypeOK
<1> SUFFICES ASSUME Init PROVE TypeOK
  OBVIOUS
<1>1. DbOK /\ ExOK /\ TaskOK
  BY EmptyValues DEF Init, DbOK, ExOK, TaskOK
<1>2. EffectsOK
  BY DEF Init, EffectsOK
<1>3. EnvOK
  BY EmptyValues DEF Init, EnvOK
<1> QED
  BY <1>1, <1>2, <1>3, TypeParts

\* Whatever executors, branches, requests, crashes and database errors do, the
\* run, its execution rows and the control state stay within their types.
THEOREM TypeCorrect == Spec => []TypeOK
  BY TypeInit, TypeStep, PTL DEF Spec

-----------------------------------------------------------------------------
(* What a step may do to the run: results only grow, and a cancelled run   *)
(* is left alone.  Every write but those of the requests goes through      *)
(* Checkpoint or Conclude.                                                 *)

Extends(new) == /\ run.done \subseteq new.done
                /\ run.skipped \subseteq new.skipped
                /\ new.status = "absent" => run.status = "absent"

FinalStep == run.status = "cancelled" =>
               /\ run' = run
               /\ \A k \in Keys : rows'[k] # rows[k] => rows'[k].status = "skipped"

RunStep == Extends(run') /\ FinalStep

LEMMA Unwritten ==
  ASSUME UNCHANGED <<run, rows>>
  PROVE  RunStep
  BY DEF RunStep, Extends, FinalStep

LEMMA CheckpointStep ==
  ASSUME NEW e, NEW p, NEW new, Extends(new), Checkpoint(e, p, new)
  PROVE  RunStep
  BY DEF RunStep, Extends, FinalStep, Checkpoint

LEMMA ConcludeStep ==
  ASSUME NEW e, NEW new, Extends(new), Conclude(e, new)
  PROVE  RunStep
  BY DEF RunStep, Extends, FinalStep, Conclude

LEMMA ExtendingRuns ==
  ASSUME run \in Run
  PROVE  /\ \A x \in SUBSET Nodes : Extends([run EXCEPT !.current = x])
         /\ \A x \in RunStatus \ {"absent"} : Extends([run EXCEPT !.status = x])
         /\ \A x \in RunStatus \ {"absent"} : Extends([run EXCEPT !.status = x, !.current = {}])
         /\ \A n \in Nodes, x \in SUBSET Edges : Extends(Succeeded(n, x))
         /\ \A seen \in Run, S \in SUBSET Nodes :
              Extends([MergeContext(seen) EXCEPT !.skipped = @ \cup S])
  BY DEF Run, Extends, Succeeded, MergeContext

LEMMA ExecuteNodeStep ==
  ASSUME TypeOK, NEW e \in Executors, NEW n \in Nodes, ExecuteNode(e, n)
  PROVE  RunStep
<1>1. run \in Run /\ task[e][n] \in Task
  BY DEF TypeOK
<1>2. UNCHANGED dbvars => RunStep
  BY Unwritten DEF dbvars
<1>3. \A x : Flush(e, n, x) => RunStep
  BY Unwritten DEF Flush
<1>4. \A p, new : Extends(new) /\ Checkpoint(e, p, new) => RunStep
  BY CheckpointStep
<1>5. task[e][n].seen \in Run
  BY <1>1 DEF Task
<1>a. CASE \/ StopIfCancelled(e, n) \/ BeginAttempt(e, n) \/ NodeReturns(e, n)
           \/ (\E err \in Errors : NodeFails(e, n, err)) \/ RecordResult(e, n) \/ IgnoreFailure(e, n)
           \/ Retry(e, n) \/ fail_node(e, n)
  BY <1>a, <1>2, <1>3
     DEF StopIfCancelled, BeginAttempt, NodeReturns, NodeFails, RecordResult,
         IgnoreFailure, Retry, fail_node
<1>b. CASE EnterNode(e, n)
  <2>1. Extends([run EXCEPT !.current = @ \cup {n}])
    BY <1>1 DEF Run, Extends
  <2> QED
    BY <1>b, <2>1, <1>2, <1>4 DEF EnterNode
<1>c. CASE pause_for_approval(e, n)
  <2>1. Extends([run EXCEPT !.status = "waiting_approval"])
    BY <1>1, ExtendingRuns DEF RunStatus
  <2> QED
    BY <1>c, <2>1, <1>4 DEF pause_for_approval
<1>d. CASE succeed_node(e, n)
  <2>1. \A x \in Outputs(n) : Extends(Succeeded(n, x))
    BY <1>1, ExtendingRuns DEF Outputs, Out
  <2> QED
    BY <1>d, <2>1, <1>4 DEF succeed_node
<1>e. CASE skip_unselected_branches(e, n)
  <2> DEFINE S == SkippedAfter(task[e][n].seen, n)
             new == [MergeContext(task[e][n].seen) EXCEPT !.skipped = @ \cup S]
  <2>1. S \in SUBSET Nodes
    BY <1>5, SkippedNodes
  <2>2. Checkpoint(e, AppendSkipped(pend[e], S), new)
    BY <1>e DEF skip_unselected_branches
  <2> HIDE DEF S
  <2>3. Extends(new)
    BY <2>1, <1>1, <1>5, ExtendingRuns
  <2> HIDE DEF new
  <2> QED
    BY <2>2, <2>3, <1>4
<1>f. CASE FailRun(e, n)
  <2>1. Extends(Failed)
    BY <1>1, ExtendingRuns DEF Failed, RunStatus
  <2> QED
    BY <1>f, <2>1, <1>4 DEF FailRun
<1>g. CASE skip_branch_node(e, n)
  <2>1. Extends([run EXCEPT !.current = @ \ {n}])
    BY <1>1 DEF Run, Extends
  <2> QED
    BY <1>g, <2>1, <1>4 DEF skip_branch_node
<1>h. CASE MarkSkipped(e, n)
  <2> DEFINE new == [MergeContext(task[e][n].seen) EXCEPT !.skipped = @ \cup {n}]
  <2>1. Extends(new)
    BY <1>1, <1>5, ExtendingRuns
  <2>2. Checkpoint(e, pend[e], new)
    BY <1>h DEF MarkSkipped
  <2> HIDE DEF new
  <2> QED
    BY <2>1, <2>2, <1>4
<1> QED
  BY <1>a, <1>b, <1>c, <1>d, <1>e, <1>f, <1>g, <1>h DEF ExecuteNode

LEMMA StepLoopStep ==
  ASSUME TypeOK, NEW e \in Executors, StepLoop(e)
  PROVE  RunStep
<1>1. run \in Run
  BY DEF TypeOK
<1>2. Exit(e) => RunStep
  BY Unwritten DEF Exit
<1>3. UNCHANGED dbvars => RunStep
  BY Unwritten DEF dbvars
<1>4. Refresh(e) => RunStep
  BY <1>2, <1>3 DEF Refresh
<1>5. \A new : Extends(new) /\ Conclude(e, new) => RunStep
  BY ConcludeStep
<1>6. Extends(Failed) /\ Extends([run EXCEPT !.status = "completed", !.current = {}])
  BY <1>1, ExtendingRuns DEF Failed, RunStatus
<1>7. fail_run_duration(e) \/ complete_run(e) => RunStep
  BY <1>5, <1>6 DEF fail_run_duration, complete_run
<1>8. ASSUME NEW n \in Nodes, RefuseRecovery(e, n) \/ resume_interrupted_node(e, n) PROVE RunStep
  BY <1>8, <1>5, <1>6, Unwritten DEF RefuseRecovery, resume_interrupted_node
<1>9. Begin(e) \/ StopLoop(e) \/ Recover(e) \/ Stall(e) \/ Raised(e) => RunStep
  BY <1>2, <1>3, <1>4 DEF Begin, StopLoop, Recover, Stall, Raised
<1>10. execute_nodes_parallel(e) \/ ExecuteSequential(e) => RunStep
  BY <1>3 DEF execute_nodes_parallel, ExecuteSequential
<1>11. SequentialDone(e) \/ ParallelDone(e) \/ RecoveryDone(e) => RunStep
  BY <1>2, <1>3, <1>4 DEF SequentialDone, ParallelDone, RecoveryDone
<1> QED
  BY <1>7, <1>8, <1>9, <1>10, <1>11 DEF StepLoop

\* Before a run is started nothing works on it.
AbsentIsIdle ==
  run.status = "absent" =>
    /\ run = NoRun
    /\ \A e \in Executors : ex[e].pc = "idle" /\ \A n \in Nodes : task[e][n].pc = "none"
    /\ \A d \in Requests : req[d].pc = "idle"

IInv == TypeOK /\ AbsentIsIdle

LEMMA RequestStep ==
  ASSUME IInv, NEW d \in Requests
  PROVE  /\ start_run(d) => RunStep
         /\ \A n \in Nodes, a \in Attempts, decision \in Decisions :
              apply_decision(d, n, a, decision) => RunStep
         /\ continue_from_approval(d) => RunStep
<1>1. run \in Run /\ req[d] \in Request /\ rows \in [Keys -> Row]
  BY DEF IInv, TypeOK
<1>2. ASSUME start_run(d) PROVE RunStep
  BY <1>2 DEF start_run, IInv, AbsentIsIdle, RunStep, Extends, FinalStep, NoRun
<1>3. ASSUME NEW n \in Nodes, NEW a \in Attempts, NEW decision \in Decisions,
             apply_decision(d, n, a, decision)
      PROVE  RunStep
  <2>1. run.status = "waiting_approval" /\ run' = Decided(n, decision)
    BY <1>3 DEF apply_decision, record_approval_decision
  <2>2. Selects[n][decision] \in SUBSET Edges
    BY WorkflowAssumption
  <2>3. Succeeded(n, Selects[n][decision]) \in Run /\ Extends(Succeeded(n, Selects[n][decision]))
    BY <2>2, <1>1, ExtendingRuns, SucceededType
  <2>4. RunStatusAfterDecision(n, decision) # "absent"
    BY DEF RunStatusAfterDecision
  <2>5. Extends(Decided(n, decision))
    BY <2>3, <2>4 DEF Decided, Extends, Run
  <2> QED
    BY <2>1, <2>5 DEF RunStep, FinalStep
<1>4. ASSUME continue_from_approval(d) PROVE RunStep
  <2> DEFINE S == SkippedBy(d)
             new == [MergeContext(req[d].seen) EXCEPT !.skipped = @ \cup S]
  <2>1. S \in SUBSET Nodes /\ req[d].seen \in Run
    BY SkippedByType DEF IInv
  <2>2. CASE run.status = "cancelled"
    <3>1. run' = run /\ rows' \in {rows, AppendSkipped(rows, S)}
      BY <1>4, <2>2 DEF continue_from_approval, SkippedBy
    <3> HIDE DEF S
    <3>2. \A k \in Keys : rows'[k] # rows[k] => rows'[k].status = "skipped"
      BY <3>1 DEF AppendSkipped
    <3> QED
      BY <3>1, <3>2 DEF RunStep, Extends, FinalStep
  <2>3. CASE run.status # "cancelled"
    <3>1. run' = run \/ run' = new
      BY <1>4, <2>3 DEF continue_from_approval, SkippedBy
    <3> HIDE DEF S
    <3>2. Extends(new)
      BY <2>1, <1>1, ExtendingRuns
    <3> HIDE DEF new
    <3> QED
      BY <2>3, <3>1, <3>2 DEF RunStep, Extends, FinalStep
  <2> QED
    BY <2>2, <2>3
<1> QED
  BY <1>2, <1>3, <1>4

LEMMA NextStep == IInv /\ [Next]_vars => RunStep
<1> SUFFICES ASSUME IInv, [Next]_vars PROVE RunStep
  OBVIOUS
<1>1. TypeOK /\ run \in Run
  BY DEF IInv, TypeOK
<1>2. UNCHANGED dbvars => RunStep
  BY Unwritten DEF dbvars
<1>a. CASE UNCHANGED vars
  BY <1>a, Unwritten DEF vars
<1>b. CASE \E e \in Executors : StepLoop(e)
  BY <1>b, <1>1, StepLoopStep
<1>c. CASE \E e \in Executors, n \in Nodes : ExecuteNode(e, n)
  BY <1>c, <1>1, ExecuteNodeStep
<1>d. CASE \/ \E e \in Executors : resume(e)
           \/ \E e \in Executors, n \in Nodes : StoreError(e, n)
           \/ \E d \in Requests, e \in Executors : schedule_run(d, e)
           \/ DurationPasses \/ reconcile_orphaned_runs
  BY <1>d, <1>2 DEF resume, StoreError, schedule_run, DurationPasses, reconcile_orphaned_runs
<1>e. CASE \E d \in Requests : start_run(d) \/ continue_from_approval(d)
  BY <1>e, RequestStep
<1>f. CASE \E d \in Requests, n \in Nodes, a \in Attempts, decision \in Decisions :
             apply_decision(d, n, a, decision)
  BY <1>f, RequestStep
<1>g. CASE cancel_run
  <2>1. Extends([run EXCEPT !.status = "cancelled"])
    BY <1>1, ExtendingRuns DEF RunStatus
  <2> QED
    BY <1>g, <2>1 DEF cancel_run, RunStep, FinalStep
<1>h. CASE Crash
  BY <1>h, Unwritten DEF Crash
<1> QED
  BY <1>a, <1>b, <1>c, <1>d, <1>e, <1>f, <1>g, <1>h DEF Next

\* Nothing but the start of the run and the process itself moves while the
\* run is absent.
LEMMA AbsentStep == IInv /\ [Next]_vars => AbsentIsIdle'
<1> SUFFICES ASSUME IInv, [Next]_vars PROVE AbsentIsIdle'
  OBVIOUS
<1>1. Extends(run')
  BY NextStep DEF RunStep
<1>2. CASE run.status # "absent"
  BY <1>1, <1>2 DEF Extends, AbsentIsIdle
<1>3. CASE run.status = "absent"
  <2>1. /\ \A e \in Executors : ex[e].pc = "idle" /\ \A n \in Nodes : task[e][n].pc = "none"
        /\ \A d \in Requests : req[d].pc = "idle"
        /\ run = NoRun
    BY <1>3 DEF IInv, AbsentIsIdle
  <2>2. ASSUME NEW e \in Executors PROVE ~ StepLoop(e)
    BY <2>1
       DEF StepLoop, Begin, StopLoop, fail_run_duration, Recover, Stall, complete_run, Looking, Proceeding,
           execute_nodes_parallel, ExecuteSequential, Raised, At, Pc, SequentialDone, ParallelDone,
           RecoveryDone, AllDone, RefuseRecovery, resume_interrupted_node
  <2>3. ASSUME NEW e \in Executors, NEW n \in Nodes PROVE ~ ExecuteNode(e, n) /\ ~ StoreError(e, n)
    <3>1. task[e][n].pc = "none" /\ "none" \notin Errors
      BY <2>1, WorkflowAssumption
    <3> QED
      BY <3>1
         DEF ExecuteNode, StopIfCancelled, BeginAttempt, EnterNode, NodeReturns, NodeFails,
             RecordResult, pause_for_approval, succeed_node, skip_unselected_branches, IgnoreFailure,
             Ignorable, Retry, MayRetry, fail_node, FailRun, skip_branch_node, MarkSkipped, StoreError,
             At, Pc
  <2>4. ASSUME NEW d \in Requests
        PROVE  /\ ~ continue_from_approval(d)
               /\ \A e \in Executors : ~ schedule_run(d, e)
               /\ \A n \in Nodes, a \in Attempts, x \in Decisions : ~ apply_decision(d, n, a, x)
               /\ start_run(d) => run'.status # "absent"
    BY <1>3, <2>1 DEF continue_from_approval, schedule_run, apply_decision, record_approval_decision, start_run, NoRun
  <2>5. ~ cancel_run /\ ~ DurationPasses /\ \A e \in Executors : ~ resume(e)
    BY <1>3 DEF cancel_run, DurationPasses, resume
  <2>6. Crash => AbsentIsIdle'
    BY <2>1 DEF Crash, AbsentIsIdle, NoExecutor, NoTasks, NoTask, NoRequest
  <2>7. reconcile_orphaned_runs => AbsentIsIdle'
    BY <1>3, <2>1 DEF reconcile_orphaned_runs, AbsentIsIdle, dbvars
  <2>8. UNCHANGED vars => AbsentIsIdle'
    BY <2>1 DEF vars, AbsentIsIdle
  <2> QED
    BY <2>2, <2>3, <2>4, <2>5, <2>6, <2>7, <2>8 DEF Next, AbsentIsIdle
<1> QED
  BY <1>2, <1>3

LEMMA InvariantHolds == Spec => []IInv
<1>1. Init => IInv
  BY TypeInit DEF IInv, AbsentIsIdle, Init, NoExecutor, NoTasks, NoTask, NoRequest
<1>2. IInv /\ [Next]_vars => IInv'
  BY TypeStep, AbsentStep DEF IInv
<1> QED
  BY <1>1, <1>2, PTL DEF Spec

\* A cancelled run is final, for any graph and any number of executors,
\* branches and requests: cancel_run never has to wait for an executor.
THEOREM CancellationIsFinal == Spec => CancelledIsFinal
<1>1. IInv /\ [Next]_vars =>
        [run.status = "cancelled" =>
           /\ run' = run
           /\ \A k \in Keys : rows'[k] # rows[k] => rows'[k].status = "skipped"]_vars
  BY NextStep DEF RunStep, FinalStep
<1> QED
  BY <1>1, InvariantHolds, PTL DEF Spec, CancelledIsFinal

\* No checkpoint, of whichever executor, branch or request, loses a result or
\* a skip that another one has committed.
THEOREM NoResultLost == Spec => ResultsKept
<1>1. IInv /\ [Next]_vars =>
        [run.done \subseteq run'.done /\ run.skipped \subseteq run'.skipped]_vars
  BY NextStep DEF RunStep, Extends
<1> QED
  BY <1>1, InvariantHolds, PTL DEF Spec, ResultsKept

\* Neither a cancellation nor a result is ever undone, for any graph and with any
\* number of executors on one run at once (checkpoint_run, cancel_run).
THEOREM NothingIsUndone == Spec => NothingUndone
  BY CancellationIsFinal, NoResultLost, PTL DEF NothingUndone

-----------------------------------------------------------------------------
(* One executor at a time                                                  *)

Idle(e) == ex[e].pc = "idle" /\ task[e] = NoTasks

Others(e) == \A o \in Executors \ {e} : Idle(o)

\* An executor that is idle has nothing under way, and so long as no second one was
\* started while one was active there is one that is not idle, at the most.
AloneInv ==
    /\ \A e \in Executors : ex[e].pc = "idle" => Idle(e)
    /\ ~ overlapped => \A e \in Executors : Idle(e) \/ Others(e)

\* A step of an executor that is active.
Moves(e) ==
    /\ ex[e].pc # "idle" /\ (ex'[e].pc = "idle" => task'[e] = NoTasks)
    /\ \A o \in Executors \ {e} : ex'[o] = ex[o] /\ task'[o] = task[o]
    /\ overlapped' = overlapped

LEMMA StepLoopMoves ==
  ASSUME TypeOK, AloneInv, NEW e \in Executors, StepLoop(e)
  PROVE  Moves(e)
<1>1. /\ ex \in [Executors -> Executor] /\ task \in [Executors -> [Nodes -> Task]]
      /\ \A n \in Nodes : task[e][n].pc # "none" => ex[e].pc # "idle"
  BY DEF TypeOK, AloneInv, Idle, NoTasks, NoTask
<1>2. ASSUME NEW x, NEW t, ex' = [ex EXCEPT ![e] = x], task' = [task EXCEPT ![e] = t] \/ task' = task,
             UNCHANGED envvars, ex[e].pc # "idle", x.pc = "idle" => task' = [task EXCEPT ![e] = NoTasks]
      PROVE  Moves(e)
  BY <1>1, <1>2 DEF Moves, envvars
<1>3. ASSUME Close(e), UNCHANGED envvars, ex[e].pc # "idle" PROVE Moves(e)
  BY <1>2, <1>3 DEF Close
<1>4. Exit(e) /\ ex[e].pc # "idle" => Moves(e)
  BY <1>3 DEF Exit
<1>5. Refresh(e) /\ ex[e].pc # "idle" => Moves(e)
  BY <1>2, <1>4 DEF Refresh, NoExecutor
<1>6. \A new : Conclude(e, new) /\ ex[e].pc # "idle" => Moves(e)
  BY <1>3 DEF Conclude
<1>a. CASE Begin(e) \/ SequentialDone(e)
  BY <1>a, <1>5 DEF Begin, SequentialDone, AllDone
<1>b. CASE StopLoop(e) \/ Stall(e)
  BY <1>b, <1>4 DEF StopLoop, Stall, Proceeding, Looking
<1>c. CASE Raised(e)
  BY <1>c, <1>1, <1>4 DEF Raised, At, Pc
<1>d. CASE fail_run_duration(e) \/ complete_run(e) \/ \E n \in Nodes : RefuseRecovery(e, n)
  BY <1>d, <1>6 DEF fail_run_duration, complete_run, Proceeding, Looking, RefuseRecovery
<1>e. CASE Recover(e)
  <2>1. ex[e].pc = "loop" /\ UNCHANGED <<task, envvars>>
    BY <1>e DEF Recover, Looking
  <2>2. ex' = [ex EXCEPT ![e] = [ex[e] EXCEPT !.pc = "recover", !.todo = find_interrupted_executions(e)]]
    BY <1>1, <1>e DEF Recover
  <2>3. [ex[e] EXCEPT !.pc = "recover", !.todo = find_interrupted_executions(e)].pc = "recover"
    BY <1>1 DEF Executor
  <2> QED
    BY <2>1, <2>2, <2>3, <1>2
<1>f. ASSUME NEW S, NEW pc \in {"sequential", "parallel"}, Launch(e, S, ex[e].latest, ex[e].seen), Looking(e),
             ex' = [ex EXCEPT ![e].pc = pc], UNCHANGED envvars
      PROVE  Moves(e)
  <2>1. ex' = [ex EXCEPT ![e] = [ex[e] EXCEPT !.pc = pc]] /\ [ex[e] EXCEPT !.pc = pc].pc = pc
    BY <1>1, <1>f DEF Executor
  <2> QED
    BY <2>1, <1>2, <1>f DEF Launch, Looking
<1>g. CASE execute_nodes_parallel(e) \/ ExecuteSequential(e)
  BY <1>f, <1>g DEF execute_nodes_parallel, ExecuteSequential, Proceeding
<1>h. CASE ParallelDone(e)
  <2>1. ex[e].pc = "parallel"
    BY <1>h DEF ParallelDone, AllDone
  <2>2. CASE ex' = [ex EXCEPT ![e].pc = "loop", ![e].seen = run] /\ task' = [task EXCEPT ![e] = NoTasks]
             /\ UNCHANGED envvars
    <3>1. ex' = [ex EXCEPT ![e] = [ex[e] EXCEPT !.pc = "loop", !.seen = run]]
      BY <1>1, <2>2
    <3> QED
      BY <2>1, <2>2, <3>1, <1>2
  <2> QED
    BY <1>h, <2>1, <2>2, <1>4 DEF ParallelDone
<1>i. CASE RecoveryDone(e)
  <2>1. ex[e].pc = "recovering"
    BY <1>i DEF RecoveryDone, AllDone
  <2>2. CASE ex' = [ex EXCEPT ![e].pc = "recover"] /\ task' = [task EXCEPT ![e] = NoTasks] /\ UNCHANGED envvars
    <3>1. ex' = [ex EXCEPT ![e] = [ex[e] EXCEPT !.pc = "recover"]]
      BY <1>1, <2>2
    <3> QED
      BY <2>1, <2>2, <3>1, <1>2
  <2> QED
    BY <1>i, <2>1, <2>2, <1>4, <1>5 DEF RecoveryDone
<1>j. ASSUME NEW n \in Nodes, resume_interrupted_node(e, n) PROVE Moves(e)
  <2>1. ex[e].pc = "recover" /\ UNCHANGED envvars /\ \E t : task' = [task EXCEPT ![e] = t]
    BY <1>j DEF resume_interrupted_node
  <2>2. ex' = [ex EXCEPT ![e] = [ex[e] EXCEPT !.pc = "recovering", !.todo = ex[e].todo \ {n}]]
    BY <1>1, <1>j DEF resume_interrupted_node
  <2>3. [ex[e] EXCEPT !.pc = "recovering", !.todo = ex[e].todo \ {n}].pc = "recovering"
    BY <1>1 DEF Executor
  <2> QED
    BY <2>1, <2>2, <2>3, <1>2
<1> QED
  BY <1>a, <1>b, <1>c, <1>d, <1>e, <1>g, <1>h, <1>i, <1>j DEF StepLoop

LEMMA ExecuteNodeMoves ==
  ASSUME TypeOK, AloneInv, NEW e \in Executors, NEW n \in Nodes, ExecuteNode(e, n) \/ StoreError(e, n)
  PROVE  Moves(e)
<1>1. task \in [Executors -> [Nodes -> Task]]
  BY DEF TypeOK
<1>2. Pc(e, n) # "none"
  BY WorkflowAssumption
     DEF ExecuteNode, StoreError, StopIfCancelled, BeginAttempt, EnterNode, NodeReturns, NodeFails, RecordResult,
         pause_for_approval, succeed_node, skip_unselected_branches, IgnoreFailure, Ignorable, Retry, MayRetry,
         fail_node, FailRun, skip_branch_node, MarkSkipped, At
<1>3. UNCHANGED <<ex, overlapped>>
  BY DEF ExecuteNode, StoreError, StopIfCancelled, BeginAttempt, EnterNode, NodeReturns, NodeFails, RecordResult,
         pause_for_approval, succeed_node, skip_unselected_branches, IgnoreFailure, Retry,
         fail_node, FailRun, skip_branch_node, MarkSkipped, envvars
<1>4. ASSUME NEW o \in Executors \ {e} PROVE task'[o] = task[o]
  BY <1>1, <1>4
     DEF ExecuteNode, StoreError, StopIfCancelled, BeginAttempt, EnterNode, NodeReturns, NodeFails, RecordResult,
         pause_for_approval, succeed_node, skip_unselected_branches, IgnoreFailure, Retry,
         fail_node, FailRun, skip_branch_node, MarkSkipped, Goto, Return
<1>5. ex[e].pc # "idle"
  BY <1>2 DEF AloneInv, Idle, NoTasks, NoTask, Pc
<1> QED
  BY <1>3, <1>4, <1>5 DEF Moves

LEMMA MovesAlone ==
  ASSUME AloneInv, NEW e \in Executors, Moves(e)
  PROVE  AloneInv' /\ (~ overlapped => Others(e)')
BY DEF AloneInv, Moves, Idle, Others

\* An executor that is started while all are idle.
LEMMA ScheduleAlone ==
  ASSUME TypeOK, AloneInv, NEW e \in Executors, Schedule(e), UNCHANGED task
  PROVE  AloneInv' /\ (~ overlapped' => Others(e)' /\ ~ overlapped)
<1>1. /\ \A o \in Executors \ {e} : ex'[o] = ex[o] /\ task'[o] = task[o]
      /\ ex'[e].pc = "scheduled"
  BY DEF Schedule, TypeOK, Executor
<1>2. ~ overlapped' => ~ overlapped /\ \A o \in Executors : ex[o].pc = "idle"
  BY DEF Schedule, Observe
<1>3. \A o \in Executors : ex'[o].pc = "idle" => Idle(o)'
  BY <1>1 DEF AloneInv, Idle
<1>4. ~ overlapped' => Others(e)'
  BY <1>1, <1>2 DEF AloneInv, Idle, Others
<1>5. ~ overlapped' => \A o \in Executors : Idle(o)' \/ Others(o)'
  BY <1>4 DEF Others
<1> QED
  BY <1>2, <1>3, <1>4, <1>5 DEF AloneInv

LEMMA AloneNext == TypeOK /\ AloneInv /\ [Next]_vars => AloneInv' /\ (overlapped => overlapped')
<1> SUFFICES ASSUME TypeOK, AloneInv, [Next]_vars PROVE AloneInv' /\ (overlapped => overlapped')
  OBVIOUS
<1>1. UNCHANGED <<ex, task>> /\ (overlapped => overlapped') => AloneInv' /\ (overlapped => overlapped')
  BY DEF AloneInv, Idle, Others
<1>a. CASE UNCHANGED vars
  BY <1>a, <1>1 DEF vars
<1>b. ASSUME NEW e \in Executors, StepLoop(e) PROVE AloneInv' /\ (overlapped => overlapped')
  BY <1>b, StepLoopMoves, MovesAlone DEF Moves
<1>c. ASSUME NEW e \in Executors, NEW n \in Nodes, ExecuteNode(e, n) \/ StoreError(e, n)
      PROVE  AloneInv' /\ (overlapped => overlapped')
  BY <1>c, ExecuteNodeMoves, MovesAlone DEF Moves
<1>d. ASSUME NEW e \in Executors, Schedule(e), UNCHANGED task PROVE AloneInv' /\ (overlapped => overlapped')
  BY <1>d, ScheduleAlone DEF Schedule, Observe
<1>e. \A e \in Executors : resume(e) => AloneInv' /\ (overlapped => overlapped')
  BY <1>d DEF resume
<1>f. \A d \in Requests, e \in Executors : schedule_run(d, e) => AloneInv' /\ (overlapped => overlapped')
  BY <1>d DEF schedule_run
<1>g. CASE reconcile_orphaned_runs
  BY <1>g, <1>1, <1>d DEF reconcile_orphaned_runs
<1>h. CASE \/ \E d \in Requests : start_run(d) \/ continue_from_approval(d)
           \/ cancel_run \/ DurationPasses
  BY <1>h, <1>1 DEF start_run, continue_from_approval, cancel_run, DurationPasses, loopvars, envvars
<1>i. CASE \E d \in Requests, n \in Nodes, a \in Attempts, decision \in Decisions : apply_decision(d, n, a, decision)
  BY <1>i, <1>1 DEF apply_decision, loopvars, Observe
<1>j. CASE Crash
  BY <1>j DEF Crash, AloneInv, Idle, Others, NoExecutor
<1> QED
  BY <1>a, <1>b, <1>c, <1>e, <1>f, <1>g, <1>h, <1>i, <1>j DEF Next

LEMMA AloneHolds == Spec => []AloneInv
<1>1. Init => AloneInv
  BY DEF Init, AloneInv, Idle, Others, NoExecutor
<1>2. IInv /\ AloneInv /\ [Next]_vars => AloneInv'
  BY AloneNext DEF IInv
<1> QED
  BY <1>1, <1>2, InvariantHolds, PTL DEF Spec

-----------------------------------------------------------------------------
(* What holds of a run while one executor at a time drives it              *)

Ended == run.status \in Terminal

Inactive == {"none", "done", "raised"}
Failures == {"retryable", "nonretryable", "timeout", "exception"}
Trying   == {"attempt", "enter", "invoked"} \cup Failures

\* What has been decided or done on the way to a checkpoint is in the run it is merged into.
SeenIsDone ==
    /\ run.current \cap run.done = {}
    /\ \A e \in Executors, n \in Nodes : task[e][n].seen.done \subseteq run.done
    /\ \A d \in Requests : req[d].seen.done \subseteq run.done

\* Between two groups no node is under way, the run is as the executor has read it,
\* and what it still has to recover is not done.
LoopAt(e) ==
    /\ ex[e].pc \in {"idle", "scheduled", "loop", "recover"} => \A n \in Nodes : Pc(e, n) = "none"
    /\ ex[e].pc = "loop" => /\ run.status \in {"running", "cancelled"}
                            /\ run.done \subseteq ex[e].seen.done
                            /\ ex[e].seen.current \cap run.done = {}
    /\ ex[e].pc \in {"recover", "recovering"} =>
         \A n \in ex[e].todo : n \notin run.done /\ Pc(e, n) = "none"

\* An approval is entered alone and before anything has ended the run; only it makes
\* the run wait.
ApprovalAt(e) ==
    /\ \A n \in Nodes : Kind[n] = "approval" /\ Pc(e, n) # "none" =>
         /\ ex[e].pc = "sequential" /\ \A m \in Nodes \ {n} : Pc(e, m) = "none"
         /\ Pc(e, n) \notin Inactive => run.status \in {"running", "cancelled"}
    /\ ex[e].pc \notin {"idle", "scheduled"} /\ (\A n \in Nodes : Kind[n] = "approval" => Pc(e, n) = "none")
         => run.status \notin {"waiting_approval", "absent"}

\* A node under way is not done, and once entered the run knows of it.
NodeAt(e, n) ==
    /\ Pc(e, n) \in Trying => n \notin run.done
    /\ Pc(e, n) \in Trying /\ task[e][n].listed => n \in Started(run) \/ Ended
    /\ Pc(e, n) = "invoked" => task[e][n].listed
    /\ Pc(e, n) = "pausing" => Kind[n] = "approval"
    /\ Pc(e, n) \in Failures => Pc(e, n) \in Errors
    /\ task[e][n].retries <= MaxRetries[n]

\* The process that is down runs nothing.
Down ==
    ~ up => /\ \A e \in Executors : ex[e].pc = "idle"
            /\ \A d \in Requests : req[d].pc = "idle"

SoleInv ==
    /\ SeenIsDone /\ Down
    /\ \A e \in Executors : LoopAt(e) /\ ApprovalAt(e) /\ \A n \in Nodes : NodeAt(e, n)

LEMMA IdleFits ==
  ASSUME NEW e \in Executors, Idle(e)'
  PROVE  /\ LoopAt(e)' /\ ApprovalAt(e)'
         /\ \A n \in Nodes : NodeAt(e, n)' /\ task'[e][n].seen.done = {}
<1>1. \A n \in Nodes : task'[e][n].pc = "none" /\ task'[e][n].retries = 0 /\ task'[e][n].seen.done = {}
  BY DEF Idle, NoTasks, NoTask, NoRun
<1>2. \A n \in Nodes : 0 <= MaxRetries[n]
  BY WorkflowAssumption
<1> QED
  BY <1>1, <1>2 DEF Idle, LoopAt, ApprovalAt, NodeAt, Pc, Trying, Failures

LEMMA SeenAgain ==
  ASSUME NEW e \in Executors, Others(e)', run'.current \cap run'.done = {},
         \A n \in Nodes : task'[e][n].seen.done \subseteq run'.done,
         \A d \in Requests : req'[d].seen.done \subseteq run'.done
  PROVE  SeenIsDone'
BY IdleFits DEF Others, SeenIsDone

LEMMA SoleAgain ==
  ASSUME NEW e \in Executors, Others(e)', SeenIsDone', Down',
         LoopAt(e)', ApprovalAt(e)', \A n \in Nodes : NodeAt(e, n)'
  PROVE  SoleInv'
BY IdleFits DEF Others, SoleInv

\* What a step of node n leaves of the run.
RunAfter(n, pc) ==
    /\ Ended => Ended'
    /\ run.done \subseteq run'.done /\ run'.done \subseteq run.done \cup {n}
    /\ n \in run'.done => n \in run.done \/ pc \notin Trying
    /\ run'.current \cap run'.done = {}
    /\ \A m \in Nodes \ {n} : m \in Started(run) => m \in Started(run') \/ Ended'
    /\ n \in Started(run) => n \in Started(run') \/ Ended' \/ pc \in {"skip", "done"}
    /\ \/ run'.status = run.status
       \/ run'.status = "failed" /\ pc = "done"
       \/ run'.status = "waiting_approval" /\ Kind[n] = "approval" /\ pc = "done"

\* What it makes of the node's own state t.
TaskAfter(e, n, t) ==
    /\ t \in Task /\ task' = [task EXCEPT ![e][n] = t]
    /\ t.pc # "none"
    /\ t.pc \notin Inactive => Pc(e, n) \notin Inactive
    /\ t.pc \in Trying => Pc(e, n) \in Trying
    /\ t.pc \in Trying /\ t.listed => task[e][n].listed \/ n \in Started(run') \/ Ended'
    /\ t.pc = "invoked" => t.listed
    /\ t.pc = "pausing" => Kind[n] = "approval"
    /\ t.pc \in Failures => t.pc \in Errors
    /\ t.retries <= MaxRetries[n]
    /\ t.seen.done \subseteq run'.done

NodeStep(e, n) ==
    /\ Pc(e, n) # "none"
    /\ UNCHANGED <<ex, req, up>>
    /\ \E t \in Task : TaskAfter(e, n, t) /\ RunAfter(n, t.pc)

LEMMA NodeStepKeeps ==
  ASSUME TypeOK, SoleInv, NEW e \in Executors, Others(e)', NEW n \in Nodes, NodeStep(e, n)
  PROVE  SoleInv'
<1>1. PICK t \in Task : TaskAfter(e, n, t) /\ RunAfter(n, t.pc)
  BY DEF NodeStep
<1>2. task \in [Executors -> [Nodes -> Task]] /\ ex' = ex /\ req' = req /\ Pc(e, n) # "none"
  BY DEF TypeOK, NodeStep
<1>3. task'[e][n] = t /\ \A m \in Nodes \ {n} : task'[e][m] = task[e][m]
  BY <1>1, <1>2 DEF TaskAfter
<1>5. /\ SeenIsDone /\ LoopAt(e) /\ ApprovalAt(e) /\ \A m \in Nodes : NodeAt(e, m)
  BY DEF SoleInv
<1>6. "skip" \notin Trying /\ "done" \notin Trying
  BY WorkflowAssumption DEF Trying, Failures
<1>a. SeenIsDone'
  <2>1. run.done \subseteq run'.done /\ run'.current \cap run'.done = {}
    BY <1>1 DEF RunAfter
  <2>2. ASSUME NEW m \in Nodes PROVE task'[e][m].seen.done \subseteq run'.done
    <3>1. CASE m = n
      BY <3>1, <1>1, <1>3 DEF TaskAfter
    <3>2. CASE m # n
      BY <3>2, <2>1, <1>3, <1>5 DEF SeenIsDone
    <3> QED
      BY <3>1, <3>2
  <2>3. \A d \in Requests : req'[d].seen.done \subseteq run'.done
    BY <2>1, <1>2, <1>5 DEF SeenIsDone
  <2> QED
    BY <2>1, <2>2, <2>3, SeenAgain
<1>b. LoopAt(e)'
  <2>1. ex[e].pc \notin {"idle", "scheduled", "loop", "recover"}
    BY <1>2, <1>5 DEF LoopAt
  <2>2. ASSUME ex[e].pc = "recovering", NEW m \in Nodes, m \in ex[e].todo
        PROVE  m \notin run'.done /\ task'[e][m].pc = "none"
    <3>1. m \notin run.done /\ Pc(e, m) = "none" /\ m # n
      BY <2>2, <1>2, <1>5 DEF LoopAt
    <3> QED
      BY <3>1, <1>1, <1>3 DEF RunAfter, Pc
  <2>3. ex[e].todo \subseteq Nodes
    BY DEF TypeOK, Executor
  <2> QED
    BY <2>1, <2>2, <2>3, <1>2 DEF LoopAt, Pc
<1>c. ApprovalAt(e)'
  <2>1. ASSUME NEW m \in Nodes, Kind[m] = "approval", task'[e][m].pc # "none"
        PROVE  /\ ex'[e].pc = "sequential" /\ \A k \in Nodes \ {m} : task'[e][k].pc = "none"
               /\ task'[e][m].pc \notin Inactive => run'.status \in {"running", "cancelled"}
    <3>1. m = n
      BY <2>1, <1>2, <1>3, <1>5 DEF ApprovalAt, Pc
    <3>2. ex[e].pc = "sequential" /\ \A k \in Nodes \ {n} : task[e][k].pc = "none"
      BY <2>1, <3>1, <1>2, <1>5 DEF ApprovalAt, Pc
    <3>3. ASSUME t.pc \notin Inactive PROVE run'.status \in {"running", "cancelled"}
      <4>1. run'.status = run.status
        BY <3>3, <1>1 DEF RunAfter, Inactive
      <4>2. Pc(e, n) \notin Inactive
        BY <3>3, <1>1 DEF TaskAfter
      <4> QED
        BY <2>1, <3>1, <4>1, <4>2, <1>2, <1>5 DEF ApprovalAt
    <3> QED
      BY <3>1, <3>2, <3>3, <1>2, <1>3
  <2>2. ASSUME ex'[e].pc \notin {"idle", "scheduled"}, \A m \in Nodes : Kind[m] = "approval" => task'[e][m].pc = "none"
        PROVE  run'.status \notin {"waiting_approval", "absent"}
    <3>1. Kind[n] # "approval"
      BY <2>2, <1>1, <1>3 DEF TaskAfter
    <3>2. \A m \in Nodes : Kind[m] = "approval" => Pc(e, m) = "none"
      BY <2>2, <3>1, <1>3 DEF Pc
    <3>3. run.status \notin {"waiting_approval", "absent"}
      BY <2>2, <3>2, <1>2, <1>5 DEF ApprovalAt
    <3> QED
      BY <3>1, <3>3, <1>1 DEF RunAfter
  <2> QED
    BY <2>1, <2>2 DEF ApprovalAt, Pc
<1>d. ASSUME NEW m \in Nodes PROVE NodeAt(e, m)'
  <2>1. CASE m = n
    <3>1. t.pc \in Trying => n \notin run'.done
      BY <1>1, <1>5 DEF TaskAfter, RunAfter, NodeAt
    <3>2. t.pc \in Trying /\ t.listed => n \in Started(run') \/ Ended'
      BY <1>1, <1>5, <1>6 DEF TaskAfter, RunAfter, NodeAt
    <3> QED
      BY <2>1, <3>1, <3>2, <1>1, <1>3 DEF TaskAfter, NodeAt, Pc, Ended
  <2>2. CASE m # n
    <3>1. NodeAt(e, m) /\ task'[e][m] = task[e][m]
      BY <2>2, <1>3, <1>5
    <3>2. (m \in Started(run) \/ Ended => m \in Started(run') \/ Ended') /\ (m \notin run.done => m \notin run'.done)
      BY <2>2, <1>1 DEF RunAfter
    <3> QED
      BY <3>1, <3>2 DEF NodeAt, Pc, Ended
  <2> QED
    BY <2>1, <2>2
<1>e. Down'
  BY DEF SoleInv, Down, NodeStep
<1> QED
  BY <1>a, <1>b, <1>c, <1>d, <1>e, SoleAgain

-----------------------------------------------------------------------------
(* The steps of a node                                                     *)

LEMMA RunUntouched ==
  ASSUME SeenIsDone, UNCHANGED run, NEW n \in Nodes, NEW pc
  PROVE  RunAfter(n, pc)
BY DEF RunAfter, SeenIsDone, Ended

\* A checkpoint leaves a cancelled run alone.
LEMMA RunWritten ==
  ASSUME SeenIsDone, NEW e \in Executors, NEW p, NEW new, Checkpoint(e, p, new), NEW n \in Nodes, NEW pc,
         run.status # "cancelled" /\ run' = new => RunAfter(n, pc)
  PROVE  RunAfter(n, pc)
<1>1. CASE run.status = "cancelled"
  BY <1>1, RunUntouched DEF Checkpoint
<1>2. CASE run.status # "cancelled"
  BY <1>2 DEF Checkpoint
<1> QED
  BY <1>1, <1>2

LEMMA GotoAfter ==
  ASSUME TypeOK, SoleInv, NEW e \in Executors, NEW n \in Nodes, NEW pc \in TaskPc, Goto(e, n, pc),
         pc # "none", pc \notin Inactive => Pc(e, n) \notin Inactive,
         pc \in Trying => Pc(e, n) \in Trying,
         pc = "invoked" => task[e][n].listed, pc = "pausing" => Kind[n] = "approval",
         pc \in Failures => pc \in Errors, run.done \subseteq run'.done
  PROVE  \E t \in Task : t.pc = pc /\ TaskAfter(e, n, t)
<1> DEFINE t == [task[e][n] EXCEPT !.pc = pc]
<1>1. task \in [Executors -> [Nodes -> Task]] /\ task[e][n] \in Task
  BY DEF TypeOK
<1>2. t \in Task /\ t.pc = pc /\ t.listed = task[e][n].listed /\ t.retries = task[e][n].retries
      /\ t.seen = task[e][n].seen
  BY <1>1 DEF Task
<1>3. task' = [task EXCEPT ![e][n] = t]
  BY <1>1 DEF Goto
<1>4. NodeAt(e, n) /\ task[e][n].seen.done \subseteq run.done
  BY DEF SoleInv, SeenIsDone
<1> HIDE DEF t
<1> QED
  BY <1>2, <1>3, <1>4 DEF TaskAfter, NodeAt

LEMMA ReturnAfter ==
  ASSUME TypeOK, NEW e \in Executors, NEW n \in Nodes, NEW status \in RunStatus, Return(e, n, status)
  PROVE  \E t \in Task : t.pc = "done" /\ TaskAfter(e, n, t)
<1> DEFINE t == [NoTask EXCEPT !.pc = "done", !.seen.status = status]
<1>1. t \in Task
  <2>1. [NoRun EXCEPT !.status = status] \in Run
    BY EmptyValues, RunUpdates
  <2>2. NoTask.seen = NoRun
    BY DEF NoTask
  <2> QED
    BY <2>1, <2>2, EmptyValues DEF Task, TaskPc
<1>2. t.pc = "done" /\ t.retries = 0 /\ t.seen.done = {}
  BY DEF NoTask, NoRun
<1>3. task' = [task EXCEPT ![e][n] = t]
  BY DEF Return
<1>4. 0 <= MaxRetries[n]
  BY WorkflowAssumption
<1>5. "done" \notin Trying
  BY WorkflowAssumption DEF Trying, Failures
<1> HIDE DEF t
<1> QED
  BY <1>1, <1>2, <1>3, <1>4, <1>5 DEF TaskAfter, Inactive, Failures

LEMMA SeenAfter ==
  ASSUME TypeOK, SoleInv, NEW e \in Executors, NEW n \in Nodes, run' \in Run, Pc(e, n) \notin Inactive,
         NEW pc \in {"branch", "skip"}, task' = [task EXCEPT ![e][n].pc = pc, ![e][n].seen = run']
  PROVE  \E t \in Task : t.pc = pc /\ TaskAfter(e, n, t)
<1> DEFINE t == [task[e][n] EXCEPT !.pc = pc, !.seen = run']
<1>1. task \in [Executors -> [Nodes -> Task]] /\ task[e][n] \in Task
  BY DEF TypeOK
<1>2. t \in Task /\ t.pc = pc /\ t.retries = task[e][n].retries /\ t.seen = run'
  BY <1>1 DEF Task, TaskPc
<1>3. task' = [task EXCEPT ![e][n] = t]
  BY <1>1
<1>4. NodeAt(e, n) /\ pc \notin Trying
  BY WorkflowAssumption DEF SoleInv, Failures, Trying
<1> HIDE DEF t
<1> QED
  BY <1>2, <1>3, <1>4 DEF TaskAfter, NodeAt, Failures

\* Merging what a branch has seen adds nothing to what is done.
LEMMA MergeAfter ==
  ASSUME run \in Run, run.current \cap run.done = {}, NEW seen \in Run, seen.done \subseteq run.done,
         NEW S \in SUBSET Nodes, run' = [MergeContext(seen) EXCEPT !.skipped = @ \cup S],
         NEW n \in Nodes, NEW pc
  PROVE  RunAfter(n, pc)
<1>1. /\ run'.done = run.done /\ run'.current = run.current /\ run'.status = run.status
      /\ run.skipped \subseteq run'.skipped
  BY DEF MergeContext, Run
<1> QED
  BY <1>1 DEF RunAfter, Started, Resolved, Ended

LEMMA ExecuteNodeAfter ==
  ASSUME TypeOK, TypeOK', SoleInv, NEW e \in Executors, NEW n \in Nodes, ExecuteNode(e, n)
  PROVE  NodeStep(e, n)
<1>1. /\ run \in Run /\ run' \in Run /\ task \in [Executors -> [Nodes -> Task]] /\ task[e][n] \in Task
      /\ task[e][n].seen \in Run
  BY DEF TypeOK, Task
<1>2. SeenIsDone /\ NodeAt(e, n) /\ ApprovalAt(e) /\ task[e][n].seen.done \subseteq run.done
  BY DEF SoleInv, SeenIsDone
<1>3. Errors \subseteq {"retryable", "nonretryable", "timeout", "exception"}
  BY WorkflowAssumption
<1> DEFINE Rest == Pc(e, n) # "none" /\ UNCHANGED <<ex, req, up>>
<1>4. Rest /\ (\E t \in Task, pc \in TaskPc : t.pc = pc /\ TaskAfter(e, n, t) /\ RunAfter(n, pc)) => NodeStep(e, n)
  BY DEF NodeStep
<1>5. ASSUME UNCHANGED run, Rest, NEW pc \in TaskPc, \E t \in Task : t.pc = pc /\ TaskAfter(e, n, t) PROVE NodeStep(e, n)
  BY <1>5, <1>2, <1>4, RunUntouched
<1>6. ASSUME UNCHANGED run, Rest, NEW x \in RunStatus, Return(e, n, x) PROVE NodeStep(e, n)
  BY <1>6, <1>5, ReturnAfter DEF TaskPc
<1>7. ASSUME UNCHANGED run, Rest, NEW pc \in TaskPc, Goto(e, n, pc), pc # "none", Pc(e, n) \notin Inactive,
             pc \in Trying => Pc(e, n) \in Trying, pc = "invoked" => task[e][n].listed,
             pc = "pausing" => Kind[n] = "approval", pc \in Failures => pc \in Errors
      PROVE  NodeStep(e, n)
  BY <1>7, <1>5, GotoAfter
<1>8. run'.status \in RunStatus
  BY <1>1 DEF Run
<1>9. ASSUME Rest, Return(e, n, run'.status), RunAfter(n, "done") PROVE NodeStep(e, n)
  BY <1>9, <1>4, <1>8, ReturnAfter DEF TaskPc
<1> HIDE DEF Rest
<1>a. CASE StopIfCancelled(e, n)
  <2>1. Rest /\ UNCHANGED run /\ Return(e, n, "cancelled")
    BY <1>a DEF StopIfCancelled, Rest, dbvars, envvars
  <2> QED
    BY <2>1, <1>6 DEF RunStatus
<1>b. CASE BeginAttempt(e, n)
  <2>1. Rest /\ UNCHANGED run /\ At(e, n, "attempt") /\ (Goto(e, n, "enter") \/ Goto(e, n, "raised"))
    BY <1>b DEF BeginAttempt, At, Rest, dbvars, envvars, Flush
  <2> QED
    BY <2>1, <1>3, <1>7 DEF TaskPc, Failures, Trying, At, Inactive
<1>c. CASE EnterNode(e, n)
  <2> DEFINE t == [task[e][n] EXCEPT !.pc = "invoked", !.listed = TRUE]
  <2>1. t \in Task /\ t.pc = "invoked" /\ t.listed /\ t.retries = task[e][n].retries /\ t.seen = task[e][n].seen
    BY <1>1 DEF Task, TaskPc
  <2>2. task' = [task EXCEPT ![e][n] = t]
    BY <1>c, <1>1 DEF EnterNode
  <2>3. Pc(e, n) = "enter" /\ Rest
    BY <1>c DEF EnterNode, At, Rest, envvars
  <2>4. n \notin run.done
    BY <2>3, <1>2 DEF NodeAt, Failures, Trying
  <2>5. RunAfter(n, "invoked") /\ (task[e][n].listed \/ n \in Started(run') \/ Ended')
    <3>1. CASE task[e][n].listed /\ UNCHANGED dbvars
      BY <3>1, <1>2, RunUntouched DEF dbvars
    <3>2. CASE Checkpoint(e, pend[e], [run EXCEPT !.current = @ \cup {n}])
      <4>1. ASSUME run' = [run EXCEPT !.current = @ \cup {n}] PROVE RunAfter(n, "invoked") /\ n \in Started(run')
        BY <4>1, <2>4, <1>1, <1>2 DEF RunAfter, SeenIsDone, Started, Resolved, Ended, Run
      <4>2. RunAfter(n, "invoked")
        BY <3>2, <4>1, <1>2, RunWritten
      <4>3. CASE run.status = "cancelled"
        BY <4>2, <4>3 DEF RunAfter, Ended, Terminal
      <4>4. CASE run.status # "cancelled"
        BY <3>2, <4>4, <4>1, <4>2 DEF Checkpoint
      <4> QED
        BY <4>3, <4>4
    <3> QED
      BY <1>c, <3>1, <3>2 DEF EnterNode
  <2> HIDE DEF t
  <2>6. TaskAfter(e, n, t)
    BY <2>1, <2>2, <2>3, <2>5, <1>2 DEF TaskAfter, NodeAt, Failures, Trying, Inactive, RunAfter
  <2> QED
    BY <2>1, <2>3, <2>5, <2>6, <1>4 DEF TaskPc
<1>d. CASE NodeReturns(e, n)
  <2>1. Rest /\ UNCHANGED run /\ At(e, n, "invoked") /\ Goto(e, n, "returned")
    BY <1>d DEF NodeReturns, At, Rest, dbvars, envvars
  <2> QED
    BY <2>1, <1>3, <1>7 DEF TaskPc, Failures, Trying, At, Inactive
<1>e. ASSUME NEW err \in Errors, NodeFails(e, n, err) PROVE NodeStep(e, n)
  <2>1. Rest /\ UNCHANGED run /\ At(e, n, "invoked") /\ Goto(e, n, err)
    BY <1>e DEF NodeFails, At, Rest, dbvars, envvars
  <2> QED
    BY <2>1, <1>3, <1>7 DEF TaskPc, Failures, Trying, At, Inactive
<1>f. CASE RecordResult(e, n)
  <2>1. Rest /\ UNCHANGED run /\ At(e, n, "returned")
        /\ (Goto(e, n, "succeeding") \/ (Kind[n] = "approval" /\ Goto(e, n, "pausing")))
    BY <1>f DEF RecordResult, At, Rest, dbvars, envvars, Flush
  <2> QED
    BY <2>1, <1>3, <1>7 DEF TaskPc, Failures, Trying, At, Inactive
<1>g. CASE pause_for_approval(e, n)
  <2>1. Rest /\ Pc(e, n) = "pausing" /\ Return(e, n, run'.status)
        /\ Checkpoint(e, pend[e], [run EXCEPT !.status = "waiting_approval"])
    BY <1>g DEF pause_for_approval, At, Rest, envvars
  <2>2. Kind[n] = "approval" /\ run.status \in {"running", "cancelled"}
    BY <2>1, <1>2 DEF NodeAt, ApprovalAt, Inactive
  <2>3. ASSUME run.status # "cancelled", run' = [run EXCEPT !.status = "waiting_approval"] PROVE RunAfter(n, "done")
    BY <2>2, <2>3, <1>1, <1>2 DEF RunAfter, SeenIsDone, Started, Resolved, Ended, Run, Terminal
  <2>4. RunAfter(n, "done")
    BY <2>1, <2>3, <1>2, RunWritten
  <2> QED
    BY <2>1, <2>4, <1>9
<1>h. CASE succeed_node(e, n)
  <2>1. Rest /\ Pc(e, n) = "succeeding"
    BY <1>h DEF succeed_node, At, Rest, envvars
  <2>2. PICK selected \in Outputs(n) : Checkpoint(e, pend[e], Succeeded(n, selected))
    BY <1>h DEF succeed_node
  <2>3. ASSUME NEW pc, pc \notin Trying, run' = Succeeded(n, selected) PROVE RunAfter(n, pc)
    <3>1. /\ run'.done = run.done \cup {n} /\ run'.current = run.current \ {n} /\ run'.status = run.status
          /\ run'.skipped = run.skipped
      BY <2>3, <1>1 DEF Succeeded, Run
    <3> QED
      BY <2>3, <3>1, <1>2 DEF RunAfter, SeenIsDone, Started, Resolved, Ended
  <2>4. \A pc : pc \notin Trying => RunAfter(n, pc)
    BY <2>2, <2>3, <1>2, RunWritten
  <2>5. RunAfter(n, "done") /\ RunAfter(n, "branch")
    BY <2>4, <1>3 DEF Trying, Failures
  <2>6. CASE Return(e, n, run'.status)
    BY <2>1, <2>5, <2>6, <1>9
  <2>7. CASE task' = [task EXCEPT ![e][n].pc = "branch", ![e][n].seen = run']
    BY <2>1, <2>5, <2>7, <1>1, <1>4, SeenAfter DEF Inactive, TaskPc
  <2> QED
    BY <1>h, <2>6, <2>7 DEF succeed_node
<1>i. CASE skip_unselected_branches(e, n)
  <2> DEFINE S == SkippedAfter(task[e][n].seen, n)
             new == [MergeContext(task[e][n].seen) EXCEPT !.skipped = @ \cup S]
  <2>1. Rest /\ Return(e, n, run'.status) /\ Checkpoint(e, AppendSkipped(pend[e], S), new)
    BY <1>i DEF skip_unselected_branches, At, Rest, envvars
  <2>2. S \in SUBSET Nodes
    BY <1>1, SkippedNodes
  <2> HIDE DEF S
  <2>3. run' = new => RunAfter(n, "done")
    BY <2>2, <1>1, <1>2, MergeAfter DEF SeenIsDone
  <2> HIDE DEF new
  <2>4. RunAfter(n, "done")
    BY <2>1, <2>3, <1>2, RunWritten
  <2> QED
    BY <2>1, <2>4, <1>9
<1>j. CASE IgnoreFailure(e, n)
  <2>1. Rest /\ UNCHANGED run /\ Pc(e, n) \in {"retryable", "nonretryable"} /\ Goto(e, n, "ignored")
    BY <1>j DEF IgnoreFailure, Ignorable, Rest, envvars, Flush
  <2> QED
    BY <2>1, <1>3, <1>7 DEF TaskPc, Failures, Trying, Inactive
<1>k. CASE Retry(e, n)
  <2> DEFINE t == [task[e][n] EXCEPT !.pc = "attempt", !.attempt = task[e][n].attempt + 1,
                                     !.receipt = task[e][n].attempt + 1, !.retries = task[e][n].retries - 1]
  <2>1. Rest /\ UNCHANGED run /\ Pc(e, n) \in {"retryable", "timeout"} /\ task[e][n].retries > 0
        /\ task[e][n].attempt < MaxAttempts
    BY <1>k DEF Retry, MayRetry, Rest, envvars, Flush
  <2>2. /\ task[e][n].attempt + 1 \in 0 .. MaxAttempts
        /\ task[e][n].retries - 1 \in Nat /\ task[e][n].retries - 1 <= MaxRetries[n]
    <3>1. /\ task[e][n].attempt \in 0 .. MaxAttempts /\ task[e][n].retries \in Nat
          /\ task[e][n].retries <= MaxRetries[n]
      BY <1>1, <1>2 DEF Task, NodeAt
    <3> QED
      BY <2>1, <3>1, WorkflowAssumption
  <2>3. t \in Task /\ t.pc = "attempt" /\ t.listed = task[e][n].listed /\ t.seen = task[e][n].seen
        /\ t.retries = task[e][n].retries - 1
    BY <2>2, <1>1 DEF Task, TaskPc
  <2>4. task' = [task EXCEPT ![e][n] = t]
    BY <1>k DEF Retry
  <2> HIDE DEF t
  <2>5. TaskAfter(e, n, t)
    BY <2>1, <2>2, <2>3, <2>4, <1>2 DEF TaskAfter, NodeAt, Inactive, Trying, Failures
  <2> QED
    BY <2>1, <2>3, <2>5, <1>5 DEF TaskPc
<1>l. CASE fail_node(e, n)
  <2>1. Rest /\ UNCHANGED run /\ Pc(e, n) \in Errors /\ (Return(e, n, "cancelled") \/ Goto(e, n, "failing"))
    BY <1>l, <1>3 DEF fail_node, Rest, envvars, Flush, dbvars
  <2> QED
    BY <2>1, <1>3, <1>6, <1>7 DEF TaskPc, Failures, Trying, Inactive, RunStatus
<1>m. CASE FailRun(e, n)
  <2>1. Rest /\ Return(e, n, run'.status) /\ Checkpoint(e, pend[e], Failed)
    BY <1>m DEF FailRun, At, Rest, envvars
  <2>2. run' = Failed => RunAfter(n, "done")
    BY <1>1, <1>2 DEF Failed, RunAfter, SeenIsDone, Started, Resolved, Ended, Run, Terminal
  <2>3. RunAfter(n, "done")
    BY <2>1, <2>2, <1>2, RunWritten
  <2> QED
    BY <2>1, <2>3, <1>9
<1>n. CASE skip_branch_node(e, n)
  <2>1. Rest /\ Pc(e, n) = "ignored" /\ Checkpoint(e, pend[e], [run EXCEPT !.current = @ \ {n}])
    BY <1>n DEF skip_branch_node, At, Rest, envvars
  <2>2. ASSUME NEW pc \in {"skip", "done"}, run' = [run EXCEPT !.current = @ \ {n}] PROVE RunAfter(n, pc)
    BY <2>2, <1>1, <1>2 DEF RunAfter, SeenIsDone, Started, Resolved, Ended, Run
  <2>3. RunAfter(n, "done") /\ RunAfter(n, "skip")
    BY <2>1, <2>2, <1>2, RunWritten
  <2>4. CASE Return(e, n, run'.status)
    BY <2>1, <2>3, <2>4, <1>9
  <2>5. CASE task' = [task EXCEPT ![e][n].pc = "skip", ![e][n].seen = run']
    BY <2>1, <2>3, <2>5, <1>1, <1>4, SeenAfter DEF Inactive, TaskPc
  <2> QED
    BY <1>n, <2>4, <2>5 DEF skip_branch_node
<1>o. CASE MarkSkipped(e, n)
  <2> DEFINE S == {n}
             new == [MergeContext(task[e][n].seen) EXCEPT !.skipped = @ \cup S]
  <2>1. Rest /\ Return(e, n, run'.status) /\ Checkpoint(e, pend[e], new)
    BY <1>o DEF MarkSkipped, At, Rest, envvars
  <2>s. S \in SUBSET Nodes
    OBVIOUS
  <2> HIDE DEF S
  <2>2. run' = new => RunAfter(n, "done")
    BY <2>s, <1>1, <1>2, MergeAfter DEF SeenIsDone
  <2> HIDE DEF new
  <2>3. RunAfter(n, "done")
    BY <2>1, <2>2, <1>2, RunWritten
  <2> QED
    BY <2>1, <2>3, <1>9
<1> QED
  BY <1>a, <1>b, <1>c, <1>d, <1>e, <1>f, <1>g, <1>h, <1>i, <1>j, <1>k, <1>l, <1>m, <1>n, <1>o DEF ExecuteNode

LEMMA StoreErrorAfter ==
  ASSUME TypeOK, SoleInv, NEW e \in Executors, NEW n \in Nodes, StoreError(e, n)
  PROVE  NodeStep(e, n)
<1>1. UNCHANGED <<run, ex, req, up>> /\ Goto(e, n, "raised") /\ Pc(e, n) # "none"
  BY DEF StoreError, dbvars
<1>2. "raised" \notin Trying
  BY WorkflowAssumption DEF Trying, Failures
<1>3. PICK t \in Task : t.pc = "raised" /\ TaskAfter(e, n, t)
  BY <1>1, <1>2, GotoAfter DEF TaskPc, Inactive, Failures
<1>4. RunAfter(n, "raised")
  BY <1>1, RunUntouched DEF SoleInv
<1> QED
  BY <1>1, <1>3, <1>4 DEF NodeStep

-----------------------------------------------------------------------------
(* The steps of the loop                                                   *)

\* No node of e is under way, and the run loses no result.
LEMMA Cleared ==
  ASSUME TypeOK, SoleInv, NEW e \in Executors, Others(e)', task' = [task EXCEPT ![e] = NoTasks], UNCHANGED <<req>>,
         run'.done = run.done, run'.current \subseteq run.current
  PROVE  SeenIsDone' /\ \A n \in Nodes : NodeAt(e, n)' /\ Pc(e, n)' = "none"
<1>1. ASSUME NEW n \in Nodes PROVE task'[e][n] = NoTask
  BY DEF TypeOK, NoTasks
<1>2. NoTask.pc = "none" /\ NoTask.retries = 0 /\ NoTask.seen.done = {}
  BY DEF NoTask, NoRun
<1>3. ASSUME NEW n \in Nodes PROVE NodeAt(e, n)' /\ Pc(e, n)' = "none"
  <2>1. 0 <= MaxRetries[n]
    BY WorkflowAssumption
  <2> QED
    BY <1>1, <1>2, <2>1 DEF NodeAt, Pc, Trying, Failures
<1>4. SeenIsDone'
  BY <1>1, <1>2, SeenAgain DEF SoleInv, SeenIsDone
<1> QED
  BY <1>3, <1>4

LEMMA HaltKeeps ==
  ASSUME TypeOK, SoleInv, NEW e \in Executors, Others(e)', Close(e), UNCHANGED <<req, up>>,
         run'.done = run.done, run'.current \subseteq run.current
  PROVE  SoleInv'
<1>1. ex'[e].pc = "idle" /\ task' = [task EXCEPT ![e] = NoTasks]
  BY DEF Close, TypeOK, NoExecutor
<1>2. SeenIsDone' /\ \A n \in Nodes : NodeAt(e, n)' /\ Pc(e, n)' = "none"
  BY <1>1, Cleared
<1>3. LoopAt(e)' /\ ApprovalAt(e)'
  BY <1>1, <1>2 DEF LoopAt, ApprovalAt
<1>4. Down'
  BY <1>1 DEF Down, SoleInv, Others, Idle
<1> QED
  BY <1>2, <1>3, <1>4, SoleAgain

LEMMA ExitKeeps ==
  ASSUME TypeOK, SoleInv, NEW e \in Executors, Others(e)', Exit(e)
  PROVE  SoleInv'
BY HaltKeeps DEF Exit, envvars

LEMMA ConcludeKeeps ==
  ASSUME TypeOK, SoleInv, NEW e \in Executors, Others(e)',
         NEW status \in RunStatus, Conclude(e, [run EXCEPT !.status = status, !.current = {}])
  PROVE  SoleInv'
<1>1. run \in Run
  BY DEF TypeOK
<1>2. run'.done = run.done /\ run'.current \subseteq run.current
  BY <1>1 DEF Conclude, Run
<1> QED
  BY <1>2, HaltKeeps DEF Conclude, envvars

\* The executor is back at the top of its loop with the run as it is.
LEMMA LoopKeeps ==
  ASSUME TypeOK, SoleInv, NEW e \in Executors, Others(e)', task' = [task EXCEPT ![e] = NoTasks],
         UNCHANGED <<run, req, up>>, run.status = "running",
         ex'[e].pc = "loop", ex'[e].seen = run, ex[e].pc # "idle"
  PROVE  SoleInv'
<1>1. SeenIsDone' /\ \A n \in Nodes : NodeAt(e, n)' /\ Pc(e, n)' = "none"
  BY Cleared
<1>2. LoopAt(e)'
  BY <1>1 DEF LoopAt, SeenIsDone, SoleInv
<1>3. ApprovalAt(e)'
  BY <1>1 DEF ApprovalAt
<1>4. Down'
  BY DEF Down, SoleInv
<1> QED
  BY <1>1, <1>2, <1>3, <1>4, SoleAgain

LEMMA RefreshKeeps ==
  ASSUME TypeOK, SoleInv, NEW e \in Executors, Others(e)', ex[e].pc # "idle", Refresh(e)
  PROVE  SoleInv'
<1>1. CASE run.status # "running"
  BY <1>1, ExitKeeps DEF Refresh
<1>2. CASE run.status = "running"
  <2>1. ex'[e].pc = "loop" /\ ex'[e].seen = run
    BY <1>2 DEF Refresh, TypeOK, NoExecutor
  <2> QED
    BY <1>2, <2>1, LoopKeeps DEF Refresh, dbvars, envvars
<1> QED
  BY <1>1, <1>2

\* The nodes of a group are ready in the run the executor has read.
LEMMA LaunchKeeps ==
  ASSUME TypeOK, SoleInv, NEW e \in Executors, Others(e)', Proceeding(e), NEW S \in SUBSET Ready(e),
         Launch(e, S, ex[e].latest, ex[e].seen), UNCHANGED <<run, req, up>>,
         NEW pc \in {"sequential", "parallel"}, ex' = [ex EXCEPT ![e].pc = pc],
         \/ pc = "sequential" /\ \E n \in S : S = {n}
         \/ \A n \in S : Kind[n] # "approval"
  PROVE  SoleInv'
<1>1. /\ ex[e].pc = "loop" /\ run.status \in {"running", "cancelled"} /\ LoopAt(e)
      /\ \A n \in Nodes : Pc(e, n) = "none"
      /\ ex'[e].pc = pc
  BY DEF SoleInv, LoopAt, Proceeding, Looking, TypeOK
<1>2. \A n \in S : n \in Nodes /\ n \notin Started(ex[e].seen)
  BY DEF Ready, resolve_ready_nodes
<1>3. \A n \in S : n \notin run.done /\ n \notin ex[e].seen.current
  BY <1>1, <1>2 DEF LoopAt, Started, Resolved
<1>4. ASSUME NEW n \in Nodes
      PROVE  \/ n \notin S /\ task'[e][n] = NoTask
             \/ /\ n \in S /\ task'[e][n].pc = "attempt" /\ task'[e][n].listed = FALSE
                /\ task'[e][n].retries = MaxRetries[n] /\ task'[e][n].seen = NoRun
  <2>1. task'[e][n] = IF n \notin S THEN NoTask
                      ELSE [pc |-> "attempt", attempt |-> ex[e].latest[n].attempt + 1,
                            receipt |-> ex[e].latest[n].attempt + 1, retries |-> MaxRetries[n],
                            listed |-> n \in ex[e].seen.current, seen |-> NoRun]
    BY DEF Launch, TypeOK
  <2>2. CASE n \in S
    <3>1. task'[e][n].listed = (n \in ex[e].seen.current) /\ task'[e][n].pc = "attempt"
          /\ task'[e][n].retries = MaxRetries[n] /\ task'[e][n].seen = NoRun
      BY <2>1, <2>2
    <3>2. (n \in ex[e].seen.current) = FALSE
      BY <2>2, <1>3
    <3> QED
      BY <2>2, <3>1, <3>2
  <2> QED
    BY <2>1, <2>2
<1>5. NoTask.pc = "none" /\ NoTask.retries = 0 /\ NoTask.seen.done = {} /\ NoRun.done = {}
  BY DEF NoTask, NoRun
<1>6. ASSUME NEW n \in Nodes PROVE NodeAt(e, n)' /\ task'[e][n].seen.done = {}
  <2>1. MaxRetries[n] \in Nat
    BY WorkflowAssumption
  <2>2. 0 <= MaxRetries[n] /\ MaxRetries[n] <= MaxRetries[n]
    BY <2>1
  <2>3. CASE n \notin S
    BY <2>2, <2>3, <1>4, <1>5 DEF NodeAt, Pc, Trying, Failures
  <2>4. CASE n \in S
    BY <2>2, <2>4, <1>3, <1>4, <1>5 DEF NodeAt, Pc, Failures
  <2> QED
    BY <2>3, <2>4
<1>7. \A n \in Nodes : Pc(e, n)' = IF n \in S THEN "attempt" ELSE "none"
  BY <1>4, <1>5 DEF Pc
<1>8. LoopAt(e)'
  BY <1>1 DEF LoopAt
<1>9. ApprovalAt(e)'
  BY <1>1, <1>7 DEF ApprovalAt
<1>10. SeenIsDone'
  BY <1>1, <1>6, SeenAgain DEF SeenIsDone, SoleInv
<1>11. Down'
  BY <1>1 DEF Down, SoleInv
<1> QED
  BY <1>6, <1>8, <1>9, <1>10, <1>11, SoleAgain

LEMMA RecoverKeeps ==
  ASSUME TypeOK, SoleInv, NEW e \in Executors, Others(e)', Recover(e)
  PROVE  SoleInv'
<1>1. /\ ex[e].pc = "loop" /\ LoopAt(e) /\ \A n \in Nodes : Pc(e, n) = "none"
      /\ UNCHANGED <<run, task, req, up>>
  BY DEF Recover, Looking, SoleInv, LoopAt, dbvars, envvars
<1>2. ex'[e].pc = "recover" /\ ex'[e].todo \subseteq ex[e].seen.current
  BY DEF Recover, TypeOK, find_interrupted_executions
<1>3. ex[e].seen.current \subseteq Nodes
  BY DEF TypeOK, Executor, Run
<1>4. LoopAt(e)'
  BY <1>1, <1>2, <1>3 DEF LoopAt, Pc
<1>5. ApprovalAt(e)'
  BY <1>1, <1>2 DEF ApprovalAt, Pc, SoleInv
<1>6. SeenIsDone' /\ Down' /\ \A n \in Nodes : NodeAt(e, n)'
  BY <1>1 DEF SoleInv, SeenIsDone, Down, NodeAt, Pc, Ended
<1> QED
  BY <1>4, <1>5, <1>6, SoleAgain

\* An interrupted node that may be repeated is no approval.
LEMMA ResumeNodeKeeps ==
  ASSUME TypeOK, SoleInv, NEW e \in Executors, Others(e)', NEW n \in Nodes, resume_interrupted_node(e, n)
  PROVE  SoleInv'
<1>1. /\ ex[e].pc = "recover" /\ n \in ex[e].todo /\ crash_recovery_allowed(n)
      /\ UNCHANGED <<run, req, up>>
  BY DEF resume_interrupted_node, envvars
<1>2. ex'[e].pc = "recovering" /\ ex'[e].todo = ex[e].todo \ {n}
  BY DEF resume_interrupted_node, TypeOK
<1>3. /\ LoopAt(e) /\ ApprovalAt(e) /\ \A m \in Nodes : Pc(e, m) = "none"
  BY <1>1 DEF SoleInv, LoopAt
<1>4. Kind[n] # "approval"
  BY <1>1 DEF crash_recovery_allowed
<1>5. /\ task'[e][n].pc = "attempt" /\ task'[e][n].listed = (n \in run.current)
      /\ task'[e][n].retries = MaxRetries[n] /\ task'[e][n].seen = NoRun
      /\ \A m \in Nodes \ {n} : task'[e][m] = NoTask
  BY DEF resume_interrupted_node, TypeOK, NoTasks, NoTask
<1>6. NoTask.pc = "none" /\ NoTask.retries = 0 /\ NoTask.seen.done = {} /\ NoRun.done = {}
  BY DEF NoTask, NoRun
<1>7. ASSUME NEW m \in Nodes PROVE NodeAt(e, m)' /\ task'[e][m].seen.done = {}
  <2>1. MaxRetries[m] \in Nat
    BY WorkflowAssumption
  <2>2. n \notin run.done
    BY <1>1, <1>3 DEF LoopAt
  <2>3. 0 <= MaxRetries[m] /\ MaxRetries[m] <= MaxRetries[m]
    BY <2>1
  <2>4. CASE m # n
    BY <2>3, <2>4, <1>5, <1>6 DEF NodeAt, Pc, Trying, Failures
  <2>5. CASE m = n
    <3>1. task'[e][n].listed => n \in Started(run')
      BY <1>1, <1>5 DEF Started
    <3> QED
      BY <2>2, <2>3, <2>5, <3>1, <1>1, <1>5, <1>6 DEF NodeAt, Pc, Failures
  <2> QED
    BY <2>4, <2>5
<1>8. \A m \in Nodes : Pc(e, m)' = IF m = n THEN "attempt" ELSE "none"
  BY <1>5, <1>6 DEF Pc
<1>t. ex[e].todo \subseteq Nodes
  BY DEF TypeOK, Executor
<1>9. LoopAt(e)'
  BY <1>1, <1>2, <1>3, <1>8, <1>t DEF LoopAt
<1>10. ApprovalAt(e)'
  BY <1>1, <1>2, <1>3, <1>4, <1>8 DEF ApprovalAt
<1>11. SeenIsDone' /\ Down'
  BY <1>1, <1>7, SeenAgain DEF SeenIsDone, SoleInv, Down
<1> QED
  BY <1>7, <1>9, <1>10, <1>11, SoleAgain

LEMMA RecoveryDoneKeeps ==
  ASSUME TypeOK, SoleInv, NEW e \in Executors, Others(e)', RecoveryDone(e)
  PROVE  SoleInv'
<1>1. ex[e].pc = "recovering"
  BY DEF RecoveryDone, AllDone
<1>2. CASE ex' = [ex EXCEPT ![e].pc = "recover"] /\ task' = [task EXCEPT ![e] = NoTasks] /\ UNCHANGED <<dbvars, effects, envvars>>
  <2>1. UNCHANGED <<run, req, up>> /\ ex'[e].pc = "recover" /\ ex'[e].todo = ex[e].todo
    BY <1>2 DEF dbvars, envvars, TypeOK
  <2>2. SeenIsDone' /\ \A n \in Nodes : NodeAt(e, n)' /\ Pc(e, n)' = "none"
    BY <1>2, <2>1, Cleared
  <2>3. ex[e].todo \subseteq Nodes /\ LoopAt(e) /\ ApprovalAt(e)
    BY DEF TypeOK, Executor, SoleInv
  <2>4. LoopAt(e)'
    BY <1>1, <2>1, <2>2, <2>3 DEF LoopAt
  <2>5. ApprovalAt(e)'
    BY <1>1, <2>1, <2>2, <2>3 DEF ApprovalAt
  <2>6. Down'
    BY <1>1, <2>1 DEF Down, SoleInv
  <2> QED
    BY <2>2, <2>4, <2>5, <2>6, SoleAgain
<1>3. CASE Exit(e) \/ Refresh(e)
  BY <1>1, <1>3, ExitKeeps, RefreshKeeps
<1> QED
  BY <1>2, <1>3 DEF RecoveryDone

LEMMA StepLoopKeeps ==
  ASSUME TypeOK, SoleInv, ApprovalsOutsideForks, NEW e \in Executors, Others(e)', StepLoop(e)
  PROVE  SoleInv'
<1>1. Exit(e) => SoleInv'
  BY ExitKeeps
<1>2. ex[e].pc # "idle" /\ Refresh(e) => SoleInv'
  BY RefreshKeeps
<1>3. Conclude(e, Failed) => SoleInv'
  BY ConcludeKeeps DEF Failed, RunStatus
<1>4. Conclude(e, [run EXCEPT !.status = "completed", !.current = {}]) => SoleInv'
  BY ConcludeKeeps DEF RunStatus
<1>a. CASE Begin(e)
  BY <1>a, <1>2 DEF Begin
<1>b. CASE StopLoop(e) \/ Stall(e) \/ Raised(e)
  BY <1>b, <1>1 DEF StopLoop, Stall, Raised
<1>c. CASE fail_run_duration(e)
  BY <1>c, <1>3 DEF fail_run_duration
<1>d. CASE complete_run(e)
  BY <1>d, <1>4 DEF complete_run
<1>e. CASE Recover(e)
  BY <1>e, RecoverKeeps
<1>f. CASE execute_nodes_parallel(e)
  <2>1. PICK g \in group_parallel_ready_nodes(Ready(e)) : Launch(e, g, ex[e].latest, ex[e].seen)
    BY <1>f DEF execute_nodes_parallel
  <2>2. PICK f \in Forks : g = Ready(e) \cap Region[f]
    BY DEF group_parallel_ready_nodes
  <2>3. g \in SUBSET Ready(e) /\ \A n \in g : Kind[n] # "approval"
    BY <2>2 DEF ApprovalsOutsideForks, InRegion, Ready, resolve_ready_nodes
  <2>4. Proceeding(e) /\ UNCHANGED <<run, req, up>> /\ ex' = [ex EXCEPT ![e].pc = "parallel"]
    BY <1>f DEF execute_nodes_parallel, dbvars, envvars
  <2> QED
    BY <2>1, <2>3, <2>4, LaunchKeeps
<1>g. CASE ExecuteSequential(e)
  <2>1. PICK n \in sequential_head(Ready(e)) : Launch(e, {n}, ex[e].latest, ex[e].seen)
    BY <1>g DEF ExecuteSequential
  <2> DEFINE S == {n}
  <2>2. S \in SUBSET Ready(e) /\ \E m \in S : S = {m}
    BY DEF sequential_head
  <2>3. Proceeding(e) /\ UNCHANGED <<run, req, up>> /\ ex' = [ex EXCEPT ![e].pc = "sequential"]
    BY <1>g DEF ExecuteSequential, dbvars, envvars
  <2>4. Launch(e, S, ex[e].latest, ex[e].seen)
    BY <2>1
  <2> HIDE DEF S
  <2> QED
    BY <2>2, <2>3, <2>4, LaunchKeeps
<1>h. CASE SequentialDone(e)
  BY <1>h, <1>2 DEF SequentialDone, AllDone
<1>i. CASE ParallelDone(e)
  <2>1. CASE Exit(e)
    BY <2>1, <1>1
  <2>2. CASE ~ Exit(e)
    <3>1. /\ task' = [task EXCEPT ![e] = NoTasks] /\ UNCHANGED <<run, req, up>> /\ run.status = "running"
          /\ ex' = [ex EXCEPT ![e].pc = "loop", ![e].seen = run] /\ ex[e].pc = "parallel"
      BY <1>i, <2>2 DEF ParallelDone, AllDone, dbvars, envvars
    <3>2. ex'[e].pc = "loop" /\ ex'[e].seen = run
      BY <3>1 DEF TypeOK, Executor
    <3> QED
      BY <3>1, <3>2, LoopKeeps
  <2> QED
    BY <2>1, <2>2
<1>j. CASE RecoveryDone(e)
  BY <1>j, RecoveryDoneKeeps
<1>k. ASSUME NEW n \in Nodes, RefuseRecovery(e, n) \/ resume_interrupted_node(e, n) PROVE SoleInv'
  BY <1>k, <1>3, ResumeNodeKeeps DEF RefuseRecovery
<1> QED
  BY <1>a, <1>b, <1>c, <1>d, <1>e, <1>f, <1>g, <1>h, <1>i, <1>j, <1>k DEF StepLoop

-----------------------------------------------------------------------------
(* The steps of the requests and of the process                            *)

\* A request that leaves the executors alone and decides nothing.
LEMMA OutsideKeeps ==
  ASSUME SoleInv, UNCHANGED <<ex, task, up>>, run'.done = run.done, run'.current = run.current,
         Started(run) \subseteq Started(run'), run'.status = run.status \/ run'.status = "cancelled",
         \A d \in Requests : req'[d].seen.done \subseteq run.done,
         \A d \in Requests : ~ up => req'[d].pc = "idle"
  PROVE  SoleInv'
<1>1. Ended => Ended'
  BY DEF Ended, Terminal
<1>2. SeenIsDone' /\ Down'
  BY DEF SoleInv, SeenIsDone, Down
<1>3. ASSUME NEW e \in Executors PROVE LoopAt(e)' /\ ApprovalAt(e)' /\ \A n \in Nodes : NodeAt(e, n)'
  <2>1. LoopAt(e) /\ ApprovalAt(e) /\ \A n \in Nodes : NodeAt(e, n)
    BY DEF SoleInv
  <2>2. LoopAt(e)'
    BY <2>1 DEF LoopAt, Pc
  <2>3. ApprovalAt(e)'
    BY <2>1 DEF ApprovalAt, Pc
  <2>4. \A n \in Nodes : NodeAt(e, n)'
    BY <2>1, <1>1 DEF NodeAt, Pc, Ended
  <2> QED
    BY <2>2, <2>3, <2>4
<1> QED
  BY <1>2, <1>3 DEF SoleInv

LEMMA StartKeeps ==
  ASSUME IInv, SoleInv, NEW d \in Requests, start_run(d)
  PROVE  SoleInv'
<1>1. /\ run = NoRun /\ UNCHANGED <<ex, task, up>> /\ up /\ run' = [NoRun EXCEPT !.status = "running"]
      /\ \A e \in Executors : ex[e].pc = "idle" /\ \A n \in Nodes : Pc(e, n) = "none"
  BY DEF start_run, IInv, AbsentIsIdle, Pc, loopvars
<1>2. run'.done = {} /\ run'.current = {} /\ run.done = {}
  BY <1>1 DEF NoRun
<1>3. \A o \in Requests : req'[o].seen.done \subseteq run'.done
  BY <1>2 DEF start_run, Ask, IInv, TypeOK, SoleInv, SeenIsDone, NoRun
<1>4. SeenIsDone' /\ Down'
  BY <1>1, <1>2, <1>3 DEF SoleInv, SeenIsDone, Down
<1>5. ASSUME NEW e \in Executors PROVE LoopAt(e)' /\ ApprovalAt(e)' /\ \A n \in Nodes : NodeAt(e, n)'
  <2>1. \A n \in Nodes : NodeAt(e, n)
    BY DEF SoleInv
  <2> QED
    BY <2>1, <1>1 DEF LoopAt, ApprovalAt, NodeAt, Pc, Trying, Failures
<1> QED
  BY <1>4, <1>5 DEF SoleInv

\* A decision finds the run waiting: no node is under way but one that has just paused.
LEMMA DecideKeeps ==
  ASSUME TypeOK, TypeOK', SoleInv, NEW d \in Requests, NEW n \in Nodes, NEW a \in Attempts, NEW decision \in Decisions,
         apply_decision(d, n, a, decision)
  PROVE  SoleInv'
<1>1. /\ up /\ Kind[n] = "approval" /\ run.status = "waiting_approval" /\ run' = Decided(n, decision)
      /\ UNCHANGED <<ex, task, up>>
  BY DEF apply_decision, record_approval_decision, loopvars
<1>2. /\ run'.done = run.done \cup {n} /\ run'.current = run.current \ {n} /\ run'.skipped = run.skipped
      /\ run'.status \in {"failed", "waiting_approval", "running"}
  BY <1>1 DEF Decided, Succeeded, RunStatusAfterDecision, TypeOK, Run
<1>3. ~ Ended /\ Started(run) \subseteq Started(run')
  BY <1>1, <1>2 DEF Ended, Terminal, Started, Resolved
<1>4. \A o \in Requests : req'[o].seen.done \subseteq run'.done
  <2>1. \A o \in Requests : req[o].seen.done \subseteq run'.done
    BY <1>2 DEF SoleInv, SeenIsDone
  <2>2. CASE req' = req
    BY <2>1, <2>2
  <2>3. CASE req' = [req EXCEPT ![d] = [pc |-> "skip", seen |-> run', node |-> n]]
    <3>1. req'[d].seen = run' /\ \A o \in Requests \ {d} : req'[o] = req[o]
      BY <2>3 DEF TypeOK
    <3> QED
      BY <2>1, <3>1
  <2> QED
    BY <2>2, <2>3 DEF apply_decision, Ask
<1>5. SeenIsDone' /\ Down'
  BY <1>1, <1>2, <1>4 DEF SoleInv, SeenIsDone, Down
<1>6. ASSUME NEW e \in Executors PROVE LoopAt(e)' /\ ApprovalAt(e)' /\ \A m \in Nodes : NodeAt(e, m)'
  <2>1. LoopAt(e) /\ ApprovalAt(e) /\ \A m \in Nodes : NodeAt(e, m)
    BY DEF SoleInv
  <2>2. ex[e].pc \notin {"idle", "scheduled"} => ex[e].pc = "sequential"
    BY <1>1, <2>1 DEF ApprovalAt
  <2>3. \A m \in Nodes : Kind[m] = "approval" => Pc(e, m) \in Inactive
    <3>1. run.status \notin {"running", "cancelled"}
      BY <1>1
    <3>2. \A m \in Nodes : Kind[m] = "approval" /\ Pc(e, m) # "none" /\ Pc(e, m) \notin Inactive
                             => run.status \in {"running", "cancelled"}
      BY <2>1 DEF ApprovalAt
    <3> QED
      BY <3>1, <3>2 DEF Inactive
  <2>4. LoopAt(e)'
    BY <1>1, <2>1, <2>2 DEF LoopAt, Pc
  <2>5. ApprovalAt(e)'
    BY <1>1, <2>1, <2>3 DEF ApprovalAt, Pc
  <2>6. \A m \in Nodes : NodeAt(e, m)'
    <3>1. Pc(e, n) \notin Trying
      BY <1>1, <2>3 DEF Inactive, Trying, Failures
    <3> QED
      BY <1>1, <1>2, <1>3, <2>1, <3>1 DEF NodeAt, Pc
  <2> QED
    BY <2>4, <2>5, <2>6
<1> QED
  BY <1>5, <1>6 DEF SoleInv

LEMMA ContinueKeeps ==
  ASSUME TypeOK, SoleInv, NEW d \in Requests, continue_from_approval(d)
  PROVE  SoleInv'
<1> DEFINE S == SkippedBy(d)
           new == [MergeContext(req[d].seen) EXCEPT !.skipped = @ \cup S]
<1>1. /\ run \in Run /\ req[d].seen \in Run /\ S \in SUBSET Nodes /\ req[d].seen.done \subseteq run.done
      /\ req \in [Requests -> Request]
  BY SkippedByType DEF TypeOK, SoleInv, SeenIsDone
<1>2. UNCHANGED <<ex, task, up>> /\ (run' = run \/ run' = new) /\ req[d].pc = "skip"
  BY DEF continue_from_approval, loopvars, SkippedBy
<1> HIDE DEF S
<1>3. /\ run'.done = run.done /\ run'.current = run.current /\ run'.status = run.status
      /\ run.skipped \subseteq run'.skipped
  <2>1. CASE run' = run
    BY <2>1
  <2>2. CASE run' = new
    <3>1. MergeContext(req[d].seen) \in Run /\ MergeContext(req[d].seen).done = run.done
          /\ MergeContext(req[d].seen).current = run.current /\ MergeContext(req[d].seen).status = run.status
          /\ run.skipped \subseteq MergeContext(req[d].seen).skipped
      BY <1>1 DEF MergeContext, Run
    <3> QED
      BY <2>2, <3>1 DEF Run
  <2> QED
    BY <1>2, <2>1, <2>2
<1>4. Started(run) \subseteq Started(run')
  BY <1>3 DEF Started, Resolved
<1>5. \A o \in Requests : req'[o].seen.done \subseteq run.done
  BY <1>1 DEF continue_from_approval, Ask, SoleInv, SeenIsDone, NoRun
<1>6. up
  BY <1>2 DEF SoleInv, Down
<1> QED
  BY <1>2, <1>3, <1>4, <1>5, <1>6, OutsideKeeps

LEMMA CancelKeeps ==
  ASSUME TypeOK, SoleInv, cancel_run
  PROVE  SoleInv'
<1>1. /\ run'.done = run.done /\ run'.current = run.current /\ run'.skipped = run.skipped
      /\ run'.status = "cancelled"
  BY DEF cancel_run, TypeOK, Run
<1>2. Started(run) \subseteq Started(run')
  BY <1>1 DEF Started, Resolved
<1>3. UNCHANGED <<ex, task, req, up>>
  BY DEF cancel_run, loopvars, envvars
<1>4. up
  BY DEF cancel_run
<1> QED
  BY <1>1, <1>2, <1>3, <1>4, OutsideKeeps DEF SoleInv, SeenIsDone

\* An executor that has nothing under way is given the run.
LEMMA ScheduleKeeps ==
  ASSUME TypeOK, SoleInv, NEW e \in Executors, Others(e)', Schedule(e),
         UNCHANGED <<run, task>>, up', \A d \in Requests : req'[d].seen.done \subseteq run.done
  PROVE  SoleInv'
<1>1. /\ ex'[e].pc = "scheduled" /\ (\A n \in Nodes : Pc(e, n) = "none")
      /\ \A n \in Nodes : NodeAt(e, n)
  BY DEF TypeOK, SoleInv, LoopAt, Schedule
<1>2. LoopAt(e)' /\ ApprovalAt(e)' /\ \A n \in Nodes : NodeAt(e, n)'
  BY <1>1 DEF LoopAt, ApprovalAt, NodeAt, Pc, Ended
<1>3. SeenIsDone' /\ Down'
  BY DEF SoleInv, SeenIsDone, Down
<1> QED
  BY <1>2, <1>3, SoleAgain

LEMMA CrashKeeps ==
  ASSUME TypeOK, SoleInv, Crash
  PROVE  SoleInv'
<1>1. run' = run /\ up' = FALSE
  BY DEF Crash
<1>2. ASSUME NEW e \in Executors
      PROVE  ex'[e].pc = "idle" /\ \A n \in Nodes : task'[e][n].pc = "none" /\ task'[e][n].retries = 0
                                                     /\ task'[e][n].seen.done = {}
  BY DEF Crash, NoExecutor, NoTasks, NoTask, NoRun
<1>3. \A d \in Requests : req'[d].pc = "idle" /\ req'[d].seen.done = {}
  BY DEF Crash, NoRequest, NoRun
<1>4. SeenIsDone' /\ Down'
  BY <1>1, <1>2, <1>3 DEF SoleInv, SeenIsDone, Down
<1>5. \A n \in Nodes : 0 <= MaxRetries[n]
  BY WorkflowAssumption
<1>6. ASSUME NEW e \in Executors PROVE LoopAt(e)' /\ ApprovalAt(e)' /\ \A n \in Nodes : NodeAt(e, n)'
  BY <1>2, <1>5 DEF LoopAt, ApprovalAt, NodeAt, Pc, Trying, Failures
<1> QED
  BY <1>4, <1>6 DEF SoleInv

LEMMA ReconcileKeeps ==
  ASSUME TypeOK, SoleInv, reconcile_orphaned_runs,
         \A e \in Executors : Schedule(e) => Others(e)'
  PROVE  SoleInv'
<1>1. /\ UNCHANGED <<run, task, req>> /\ up' /\ \A e \in Executors : ex[e].pc = "idle"
  BY DEF reconcile_orphaned_runs, dbvars, SoleInv, Down
<1>2. CASE \E e \in Executors : Schedule(e)
  BY <1>1, <1>2, ScheduleKeeps DEF SoleInv, SeenIsDone
<1>3. CASE UNCHANGED ex
  BY <1>1, <1>3 DEF SoleInv, SeenIsDone, Down, LoopAt, ApprovalAt, NodeAt, Pc, Ended
<1> QED
  BY <1>2, <1>3 DEF reconcile_orphaned_runs

LEMMA SoleInit == Init => SoleInv
<1> SUFFICES ASSUME Init PROVE SoleInv
  OBVIOUS
<1>1. ASSUME NEW e \in Executors
      PROVE  ex[e].pc = "idle" /\ \A n \in Nodes : task[e][n].pc = "none" /\ task[e][n].retries = 0
                                                    /\ task[e][n].seen.done = {}
  BY DEF Init, NoExecutor, NoTasks, NoTask, NoRun
<1>2. \A d \in Requests : req[d].pc = "idle" /\ req[d].seen.done = {}
  BY DEF Init, NoRequest, NoRun
<1>3. SeenIsDone /\ Down
  BY <1>1, <1>2 DEF Init, SeenIsDone, Down, NoRun
<1>4. \A n \in Nodes : 0 <= MaxRetries[n]
  BY WorkflowAssumption
<1>5. ASSUME NEW e \in Executors PROVE LoopAt(e) /\ ApprovalAt(e) /\ \A n \in Nodes : NodeAt(e, n)
  BY <1>1, <1>4 DEF LoopAt, ApprovalAt, NodeAt, Pc, Trying, Failures
<1> QED
  BY <1>3, <1>5 DEF SoleInv

LEMMA SoleNext ==
  ASSUME ApprovalsOutsideForks, IInv, AloneInv, SoleInv, [Next]_vars, ~ overlapped'
  PROVE  SoleInv'
<1>1. TypeOK /\ TypeOK'
  BY TypeStep DEF IInv
<1>a. CASE UNCHANGED vars
  BY <1>a DEF vars, SoleInv, SeenIsDone, Down, LoopAt, ApprovalAt, NodeAt, Pc, Ended
<1>2. ~ overlapped
  BY <1>1, AloneNext
<1>3. \A e \in Executors : Moves(e) => Others(e)'
  BY <1>2, MovesAlone
<1>4. \A e \in Executors : Schedule(e) /\ UNCHANGED task => Others(e)'
  BY <1>1, ScheduleAlone
<1>b. ASSUME NEW e \in Executors, StepLoop(e) PROVE SoleInv'
  <2>1. Others(e)'
    BY <1>b, <1>1, <1>3, StepLoopMoves
  <2> QED
    BY <1>b, <1>1, <2>1, StepLoopKeeps
<1>c. ASSUME NEW e \in Executors, resume(e) PROVE SoleInv'
  BY <1>c, <1>1, <1>4, ScheduleKeeps DEF resume, dbvars, SoleInv, SeenIsDone
<1>d. ASSUME NEW e \in Executors, NEW n \in Nodes, ExecuteNode(e, n) \/ StoreError(e, n) PROVE SoleInv'
  <2>1. Others(e)'
    BY <1>d, <1>1, <1>3, ExecuteNodeMoves
  <2> QED
    BY <1>d, <1>1, <2>1, ExecuteNodeAfter, StoreErrorAfter, NodeStepKeeps
<1>e. ASSUME NEW d \in Requests, start_run(d) \/ continue_from_approval(d) PROVE SoleInv'
  BY <1>e, <1>1, StartKeeps, ContinueKeeps
<1>f. ASSUME NEW d \in Requests, NEW n \in Nodes, NEW a \in Attempts, NEW decision \in Decisions,
             apply_decision(d, n, a, decision)
      PROVE  SoleInv'
  BY <1>f, <1>1, DecideKeeps
<1>g. ASSUME NEW d \in Requests, NEW e \in Executors, schedule_run(d, e) PROVE SoleInv'
  <2>1. /\ Schedule(e) /\ UNCHANGED <<run, task, up>>
        /\ req' = [req EXCEPT ![d] = NoRequest] /\ up
    BY <1>g DEF schedule_run, dbvars, SoleInv, Down
  <2>2. \A o \in Requests : req'[o].seen.done \subseteq run.done
    BY <2>1, <1>1 DEF SoleInv, SeenIsDone, NoRequest, NoRun, TypeOK
  <2> QED
    BY <2>1, <2>2, <1>1, <1>4, ScheduleKeeps
<1>h. CASE cancel_run
  BY <1>h, <1>1, CancelKeeps
<1>i. CASE DurationPasses
  BY <1>i DEF DurationPasses, dbvars, loopvars, SoleInv, SeenIsDone, Down, LoopAt, ApprovalAt, NodeAt, Pc, Ended
<1>j. CASE Crash \/ reconcile_orphaned_runs
  BY <1>j, <1>1, <1>4, CrashKeeps, ReconcileKeeps DEF reconcile_orphaned_runs
<1> QED
  BY <1>a, <1>b, <1>c, <1>d, <1>e, <1>f, <1>g, <1>h, <1>i, <1>j DEF Next

LEMMA SoleHolds == Spec => [](OneAtATime => SoleInv)
<1>1. Init => (OneAtATime => SoleInv)
  BY SoleInit
<1>2. IInv /\ AloneInv /\ (OneAtATime => SoleInv) /\ [Next]_vars => (OneAtATime => SoleInv)'
  <2> SUFFICES ASSUME IInv, AloneInv, OneAtATime => SoleInv, [Next]_vars, OneAtATime' PROVE SoleInv'
    OBVIOUS
  <2>1. ~ overlapped' /\ ApprovalsOutsideForks
    BY DEF OneAtATime, ApprovalsOutsideForks
  <2>2. OneAtATime
    BY <2>1, AloneNext DEF OneAtATime, IInv
  <2> QED
    BY <2>1, <2>2, SoleNext
<1> QED
  BY <1>1, <1>2, InvariantHolds, AloneHolds, PTL DEF Spec

\* For any graph and any number of executors and requests: until a second executor
\* is started, or a decision taken, while one is active, a node that has succeeded is
\* not invoked again by whoever goes on with the run, unless a branch waits for an
\* approval.
THEOREM NoRerun == Spec => SucceededNeverReruns
<1>1. SoleInv => \A e \in Executors, n \in Nodes : At(e, n, "enter") => n \notin run.done
  BY DEF SoleInv, NodeAt, At, Trying
<1>2. (OneAtATime => SoleInv) /\ [Next]_vars => [OneAtATime => \A e \in Executors, n \in Nodes :
        At(e, n, "enter") /\ task'[e][n].pc = "invoked" => n \notin run.done]_vars
  BY <1>1
<1> QED
  BY <1>2, SoleHolds, PTL DEF Spec, SucceededNeverReruns

-----------------------------------------------------------------------------
(* Tools that cannot recognise a receipt                                   *)

\* Nodes whose tool cannot recognise a receipt and is not tried again after a timeout
Unaware == {n \in Nodes \ ReceiptAware : ~ RetriedAfterTimeout(n)}

Used(n) == \E a \in Attempts : effects[n][a] > 0

\* Where the tool of a node under way has not taken effect yet.
Before == {"attempt", "enter", "invoked", "retryable", "nonretryable", "ignored", "skip"}

\* A tool that has taken effect has done so once, under one receipt; the run knows
\* of the node, and so does the executor that looks for the nodes that are ready.
OnceAt(n) ==
    /\ \A a, b \in Attempts : effects[n][a] > 0 /\ effects[n][b] > 0 => a = b /\ effects[n][a] = 1
    /\ Used(n) => Kind[n] = "task" /\ (n \in Started(run) \/ Ended)
    /\ \A e \in Executors : /\ Pc(e, n) \in Before => ~ Used(n)
                            /\ ex[e].pc = "loop" /\ Used(n) => n \in Started(ex[e].seen)

OnceInv == \A n \in Unaware : OnceAt(n)

\* A step in which no tool takes effect.
LEMMA NoEffectKeeps ==
  ASSUME OnceInv, UNCHANGED effects, Ended => Ended',
         \A n \in Unaware : Used(n) /\ n \in Started(run) => n \in Started(run') \/ Ended',
         \A e \in Executors, n \in Unaware : Pc(e, n)' \in Before /\ Used(n) => Pc(e, n) \in Before,
         \A e \in Executors : ex'[e].pc = "loop" =>
           \/ ex[e].pc = "loop" /\ ex'[e].seen = ex[e].seen
           \/ \A n \in Unaware : Used(n) => n \in Started(ex'[e].seen)
  PROVE  OnceInv'
<1> SUFFICES ASSUME NEW n \in Unaware PROVE OnceAt(n)'
  BY DEF OnceInv, Unaware
<1>1. OnceAt(n) /\ (Used(n)' <=> Used(n))
  BY DEF OnceInv, Used
<1>2. Used(n) => Kind[n] = "task" /\ (n \in Started(run') \/ Ended')
  BY <1>1 DEF OnceAt
<1>3. \A e \in Executors : Pc(e, n)' \in Before => ~ Used(n)
  BY <1>1 DEF OnceAt
<1>4. \A e \in Executors : ex'[e].pc = "loop" /\ Used(n) => n \in Started(ex'[e].seen)
  BY <1>1 DEF OnceAt
<1> QED
  BY <1>1, <1>2, <1>3, <1>4 DEF OnceAt

\* The same where the other executors are idle.
LEMMA NoEffectOfOne ==
  ASSUME OnceInv, NEW e \in Executors, Others(e)', UNCHANGED effects, Ended => Ended',
         \A n \in Unaware : Used(n) /\ n \in Started(run) => n \in Started(run') \/ Ended',
         \A n \in Unaware : Pc(e, n)' \in Before /\ Used(n) => Pc(e, n) \in Before,
         ex'[e].pc = "loop" =>
           \/ ex[e].pc = "loop" /\ ex'[e].seen = ex[e].seen
           \/ \A n \in Unaware : Used(n) => n \in Started(ex'[e].seen)
  PROVE  OnceInv'
<1>1. \A o \in Executors \ {e} : ex'[o].pc = "idle" /\ \A n \in Nodes : Pc(o, n)' = "none"
  BY DEF Others, Idle, NoTasks, NoTask, Pc
<1>2. "none" \notin Before /\ Unaware \subseteq Nodes
  BY DEF Before, Unaware
<1> QED
  BY <1>1, <1>2, NoEffectKeeps

\* What a step of node n does with its tool.
EffectStep(e, n) ==
    \/ /\ effects' = effects
       /\ task'[e][n].pc \in Before =>
            \/ Pc(e, n) \in Before
            \/ "timeout" \in Errors /\ MaxRetries[n] # 0
    \/ /\ Pc(e, n) = "invoked" /\ Kind[n] = "task"
       /\ task'[e][n].pc \notin Before
       /\ TakesEffect(e, n)

LEMMA EffectAfter ==
  ASSUME TypeOK, SoleInv, NEW e \in Executors, NEW n \in Nodes, ExecuteNode(e, n) \/ StoreError(e, n)
  PROVE  EffectStep(e, n)
<1>1. task \in [Executors -> [Nodes -> Task]] /\ task[e][n] \in Task /\ NodeAt(e, n)
  BY DEF TypeOK, SoleInv
<1>2. \A pc : Goto(e, n, pc) => task'[e][n].pc = pc
  BY <1>1 DEF Goto, Task
<1>3. \A x : Return(e, n, x) => task'[e][n].pc = "done"
  BY <1>1 DEF Return, NoTask
<1>4. Errors \subseteq {"retryable", "nonretryable", "timeout", "exception"}
  BY WorkflowAssumption
<1>a. CASE StopIfCancelled(e, n)
  BY <1>a, <1>3 DEF StopIfCancelled, EffectStep, Before
<1>b. CASE BeginAttempt(e, n)
  BY <1>b, <1>2 DEF BeginAttempt, EffectStep, Before, At
<1>c. CASE EnterNode(e, n)
  BY <1>c DEF EnterNode, EffectStep, Before, At
<1>d. CASE NodeReturns(e, n)
  BY <1>d, <1>2 DEF NodeReturns, EffectStep, Before, At
<1>e. ASSUME NEW err \in Errors, NodeFails(e, n, err) PROVE EffectStep(e, n)
  <2>1. Pc(e, n) = "invoked" /\ task'[e][n].pc = err
    BY <1>e, <1>2 DEF NodeFails, At
  <2>2. CASE UNCHANGED effects
    BY <2>1, <2>2 DEF EffectStep, Before
  <2>3. CASE err \in {"timeout", "exception"} /\ TakesEffect(e, n)
    <3>1. Kind[n] = "task"
      BY <1>e, <2>3 DEF NodeFails
    <3> QED
      BY <2>1, <2>3, <3>1 DEF EffectStep, Before
  <2> QED
    BY <1>e, <2>2, <2>3 DEF NodeFails
<1>f. CASE RecordResult(e, n)
  BY <1>f, <1>2 DEF RecordResult, EffectStep, Before
<1>g. CASE pause_for_approval(e, n)
  BY <1>g, <1>3 DEF pause_for_approval, EffectStep, Before
<1>h. CASE succeed_node(e, n)
  <2>1. CASE task' = [task EXCEPT ![e][n].pc = "branch", ![e][n].seen = run']
    <3>1. task'[e][n].pc = "branch"
      BY <2>1, <1>1 DEF Task
    <3> QED
      BY <1>h, <3>1 DEF succeed_node, EffectStep, Before
  <2> QED
    BY <1>h, <1>3, <2>1 DEF succeed_node, EffectStep, Before
<1>i. CASE skip_unselected_branches(e, n)
  BY <1>i, <1>3 DEF skip_unselected_branches, EffectStep, Before
<1>j. CASE IgnoreFailure(e, n)
  BY <1>j DEF IgnoreFailure, Ignorable, EffectStep, Before
<1>k. CASE Retry(e, n)
  <2>1. Pc(e, n) \in {"retryable", "timeout"} /\ task[e][n].retries > 0 /\ UNCHANGED effects
    BY <1>k DEF Retry, MayRetry
  <2>2. MaxRetries[n] # 0
    <3>1. task[e][n].retries \in Nat /\ task[e][n].retries <= MaxRetries[n]
      BY <1>1 DEF Task, NodeAt
    <3> QED
      BY <2>1, <3>1
  <2>3. Pc(e, n) = "timeout" => "timeout" \in Errors
    BY <1>1 DEF NodeAt, Failures
  <2> QED
    BY <2>1, <2>2, <2>3 DEF EffectStep, Before
<1>l. CASE fail_node(e, n)
  BY <1>l, <1>2, <1>3 DEF fail_node, EffectStep, Before
<1>m. CASE FailRun(e, n)
  BY <1>m, <1>3 DEF FailRun, EffectStep, Before
<1>n. CASE skip_branch_node(e, n)
  BY <1>n DEF skip_branch_node, EffectStep, Before, At
<1>o. CASE MarkSkipped(e, n)
  BY <1>o, <1>3 DEF MarkSkipped, EffectStep, Before
<1>p. CASE StoreError(e, n)
  BY <1>p, <1>2 DEF StoreError, EffectStep, Before
<1> QED
  BY <1>a, <1>b, <1>c, <1>d, <1>e, <1>f, <1>g, <1>h, <1>i, <1>j, <1>k, <1>l, <1>m, <1>n, <1>o, <1>p DEF ExecuteNode

\* Only an ignored failure takes a node out of the run before it is resolved.
LEMMA StartedKept ==
  ASSUME TypeOK, NEW e \in Executors, NEW n \in Nodes, ExecuteNode(e, n) \/ StoreError(e, n),
         n \in Started(run), Pc(e, n) # "ignored"
  PROVE  n \in Started(run') \/ Ended'
<1>1. run \in Run /\ task[e][n] \in Task /\ task[e][n].seen \in Run
  BY DEF TypeOK, Task
<1>2. UNCHANGED run => n \in Started(run')
  OBVIOUS
<1>3. ASSUME NEW p, NEW new, Checkpoint(e, p, new) PROVE UNCHANGED run \/ run' = new
  BY <1>3 DEF Checkpoint
<1>4. ASSUME NEW seen \in Run, NEW S \in SUBSET Nodes,
             run' = [MergeContext(seen) EXCEPT !.skipped = @ \cup S]
      PROVE  n \in Started(run')
  <2>1. MergeContext(seen) \in Run /\ run.done \subseteq MergeContext(seen).done
        /\ MergeContext(seen).current = run.current /\ run.skipped \subseteq MergeContext(seen).skipped
    BY <1>1, <1>4 DEF MergeContext, Run
  <2> QED
    BY <1>4, <2>1 DEF Started, Resolved, Run
<1>c. CASE EnterNode(e, n)
  <2>1. run' = [run EXCEPT !.current = @ \cup {n}] => n \in Started(run')
    BY <1>1 DEF Started, Resolved, Run
  <2> QED
    BY <1>c, <1>2, <1>3, <2>1 DEF EnterNode, dbvars
<1>g. CASE pause_for_approval(e, n)
  <2>1. run' = [run EXCEPT !.status = "waiting_approval"] => n \in Started(run')
    BY <1>1 DEF Started, Resolved, Run
  <2> QED
    BY <1>g, <1>2, <1>3, <2>1 DEF pause_for_approval
<1>h. CASE succeed_node(e, n)
  <2>1. PICK selected \in Outputs(n) : Checkpoint(e, pend[e], Succeeded(n, selected))
    BY <1>h DEF succeed_node
  <2>2. run' = Succeeded(n, selected) => n \in Started(run')
    BY <1>1 DEF Succeeded, Started, Resolved, Run
  <2> QED
    BY <1>2, <1>3, <2>1, <2>2
<1>i. CASE skip_unselected_branches(e, n)
  <2> DEFINE S == SkippedAfter(task[e][n].seen, n)
             new == [MergeContext(task[e][n].seen) EXCEPT !.skipped = @ \cup S]
  <2>1. Checkpoint(e, AppendSkipped(pend[e], S), new)
    BY <1>i DEF skip_unselected_branches
  <2>2. S \in SUBSET Nodes
    BY <1>1, SkippedNodes
  <2> HIDE DEF S
  <2>3. run' = new => n \in Started(run')
    BY <2>2, <1>1, <1>4
  <2> HIDE DEF new
  <2> QED
    BY <1>2, <1>3, <2>1, <2>3
<1>m. CASE FailRun(e, n)
  <2>1. run' = Failed => Ended'
    BY <1>1 DEF Failed, Ended, Terminal, Run
  <2> QED
    BY <1>m, <1>2, <1>3, <2>1 DEF FailRun
<1>o. CASE MarkSkipped(e, n)
  <2> DEFINE S == {n}
             new == [MergeContext(task[e][n].seen) EXCEPT !.skipped = @ \cup S]
  <2>1. Checkpoint(e, pend[e], new)
    BY <1>o DEF MarkSkipped
  <2>2. S \in SUBSET Nodes
    OBVIOUS
  <2> HIDE DEF S
  <2>3. run' = new => n \in Started(run')
    BY <2>2, <1>1, <1>4
  <2> HIDE DEF new
  <2> QED
    BY <1>2, <1>3, <2>1, <2>3
<1>p. CASE UNCHANGED run
  BY <1>p, <1>2
<1>q. ~ skip_branch_node(e, n)
  BY DEF skip_branch_node, At
<1>r. \/ StopIfCancelled(e, n) \/ BeginAttempt(e, n) \/ NodeReturns(e, n) \/ (\E err \in Errors : NodeFails(e, n, err))
      \/ RecordResult(e, n) \/ IgnoreFailure(e, n) \/ Retry(e, n) \/ fail_node(e, n) \/ StoreError(e, n)
      => UNCHANGED run
  BY DEF StopIfCancelled, BeginAttempt, NodeReturns, NodeFails, RecordResult, IgnoreFailure, Retry, fail_node,
         StoreError, Flush, dbvars
<1> QED
  BY <1>c, <1>g, <1>h, <1>i, <1>m, <1>o, <1>p, <1>q, <1>r DEF ExecuteNode

LEMMA OnceNodeKeeps ==
  ASSUME TypeOK, TypeOK', SoleInv, OnceInv,
         NEW e \in Executors, Others(e)', NEW n \in Nodes, ExecuteNode(e, n) \/ StoreError(e, n)
  PROVE  OnceInv'
<1>1. NodeStep(e, n) /\ EffectStep(e, n)
  BY ExecuteNodeAfter, StoreErrorAfter, EffectAfter
<1>2. PICK t \in Task : TaskAfter(e, n, t) /\ RunAfter(n, t.pc)
  BY <1>1 DEF NodeStep
<1>3. /\ ex' = ex /\ Pc(e, n) # "none"
      /\ \A m \in Nodes \ {n} : task'[e][m] = task[e][m]
  BY <1>1, <1>2 DEF NodeStep, TaskAfter, TypeOK
<1>u. Unaware \subseteq Nodes /\ \A m \in Unaware : MaxRetries[m] \in Nat /\ ~ RetriedAfterTimeout(m)
  BY WorkflowAssumption DEF Unaware
<1>4. (Ended => Ended') /\ \A m \in Nodes \ {n} : m \in Started(run) => m \in Started(run') \/ Ended'
  BY <1>2 DEF RunAfter
<1>5. CASE effects' = effects
  <2>1. ASSUME NEW m \in Unaware, Used(m), m \in Started(run) PROVE m \in Started(run') \/ Ended'
    <3>1. CASE m = n
      <4>1. Pc(e, n) # "ignored"
        BY <2>1, <3>1 DEF OnceInv, OnceAt, Before
      <4> QED
        BY <2>1, <3>1, <4>1, StartedKept
    <3> QED
      BY <2>1, <3>1, <1>4, <1>u
  <2>2. ASSUME NEW m \in Unaware, Pc(e, m)' \in Before, Used(m) PROVE Pc(e, m) \in Before
    <3>1. CASE m = n
      <4>1. \/ Pc(e, n) \in Before
            \/ "timeout" \in Errors /\ MaxRetries[n] # 0
            \/ Pc(e, n) = "invoked"
        BY <2>2, <3>1, <1>1 DEF EffectStep, Pc
      <4> QED
        BY <2>2, <3>1, <4>1, <1>u DEF RetriedAfterTimeout, Before
    <3>2. CASE m # n
      BY <2>2, <3>2, <1>3, <1>u DEF Pc
    <3> QED
      BY <3>1, <3>2
  <2> QED
    BY <1>3, <1>4, <1>5, <2>1, <2>2, NoEffectOfOne
<1>6. CASE effects' # effects
  <2> SUFFICES ASSUME NEW m \in Unaware PROVE OnceAt(m)'
    BY DEF OnceInv, Unaware
  <2>o. m \in Nodes /\ \A o \in Executors \ {e} : ex'[o].pc = "idle" /\ Pc(o, m)' \notin Before
    BY <1>u DEF Others, Idle, NoTasks, NoTask, Pc, Before
  <2>1. /\ Pc(e, n) = "invoked" /\ Kind[n] = "task" /\ task'[e][n].pc \notin Before
        /\ effects' = [effects EXCEPT ![n][task[e][n].receipt] = @ + 1]
    BY <1>1, <1>6 DEF EffectStep, TakesEffect
  <2>2. OnceAt(m) /\ ex[e].pc # "loop" /\ effects \in [Nodes -> [Attempts -> Nat]]
    BY <1>3 DEF OnceInv, SoleInv, LoopAt, TypeOK
  <2>3. CASE m # n
    <3>1. effects'[m] = effects[m] /\ task'[e][m] = task[e][m]
      BY <2>1, <2>2, <2>3, <2>o, <1>3
    <3>2. (Used(m)' <=> Used(m)) /\ Pc(e, m)' = Pc(e, m)
      BY <3>1 DEF Used, Pc
    <3>3. m \in Started(run) => m \in Started(run') \/ Ended'
      BY <2>3, <2>o, <1>4
    <3> QED
      BY <3>1, <3>2, <3>3, <2>2, <2>o, <1>3, <1>4 DEF OnceAt
  <2>4. CASE m = n
    <3> DEFINE r == task[e][n].receipt
    <3>1. \A a \in Attempts : effects[n][a] = 0
      <4>1. ~ Used(n)
        BY <2>1, <2>2, <2>4 DEF OnceAt, Before
      <4> QED
        BY <4>1, <2>2 DEF Used
    <3>2. \A a \in Attempts : effects'[n][a] = IF a = r THEN 1 ELSE 0
      BY <2>1, <2>2, <3>1
    <3>3. n \in Started(run') \/ Ended'
      <4>1. n \in Started(run) \/ Ended
        BY <2>1 DEF SoleInv, NodeAt, Trying
      <4> QED
        BY <4>1, <2>1, <1>4, StartedKept
    <3>4. Pc(e, n)' \notin Before
      BY <2>1 DEF Pc
    <3>5. \A a, b \in Attempts : effects'[n][a] > 0 /\ effects'[n][b] > 0 => a = b /\ effects'[n][a] = 1
      BY <3>2
    <3> QED
      BY <2>1, <2>2, <2>4, <2>o, <3>3, <3>4, <3>5, <1>3 DEF OnceAt
  <2> QED
    BY <2>3, <2>4
<1> QED
  BY <1>5, <1>6

LEMMA OnceLoopKeeps ==
  ASSUME TypeOK, SoleInv, OnceInv, NEW e \in Executors, Others(e)', StepLoop(e)
  PROVE  OnceInv'
<1>1. run \in Run
  BY DEF TypeOK
<1>2. "none" \notin Before /\ Unaware \subseteq Nodes
  BY DEF Before, Unaware
<1>3. task' = [task EXCEPT ![e] = NoTasks] => \A n \in Nodes : Pc(e, n)' \notin Before
  BY <1>2 DEF TypeOK, NoTasks, NoTask, Pc
<1>4. UNCHANGED run => (Ended => Ended') /\ \A n \in Nodes : n \in Started(run) => n \in Started(run')
  BY DEF Ended
<1>5. ASSUME Close(e), UNCHANGED effects, UNCHANGED run \/ Ended' PROVE OnceInv'
  <2>1. ex'[e].pc = "idle" /\ task' = [task EXCEPT ![e] = NoTasks]
    BY <1>5 DEF Close, TypeOK, NoExecutor
  <2> QED
    BY <1>1, <1>3, <1>4, <1>5, <2>1, <1>2, NoEffectOfOne DEF Ended
<1>6. Exit(e) => OnceInv'
  BY <1>5 DEF Exit
<1>7. ASSUME NEW status \in Terminal, Conclude(e, [run EXCEPT !.status = status, !.current = {}]) PROVE OnceInv'
  <2>1. UNCHANGED run \/ Ended'
    BY <1>1, <1>7 DEF Conclude, Ended, Run
  <2> QED
    BY <1>5, <1>7, <2>1 DEF Conclude
<1>8. ASSUME UNCHANGED <<run, effects>>, run.status = "running", task' = [task EXCEPT ![e] = NoTasks],
             ex'[e].seen = run
      PROVE  OnceInv'
  <2>1. \A n \in Unaware : Used(n) => n \in Started(ex'[e].seen)
    BY <1>8 DEF OnceInv, OnceAt, Ended, Terminal
  <2> QED
    BY <1>1, <1>3, <1>4, <1>8, <2>1, <1>2, NoEffectOfOne
<1>9. ASSUME Refresh(e) PROVE OnceInv'
  <2>1. CASE run.status # "running"
    BY <1>6, <1>9, <2>1 DEF Refresh
  <2>2. CASE run.status = "running"
    <3>1. ex'[e].seen = run
      BY <1>9, <2>2 DEF Refresh, TypeOK, NoExecutor
    <3> QED
      BY <1>8, <1>9, <2>2, <3>1 DEF Refresh, dbvars
  <2> QED
    BY <2>1, <2>2
<1>10. ASSUME ex[e].pc = "loop", NEW S \in SUBSET Ready(e), Launch(e, S, ex[e].latest, ex[e].seen),
              UNCHANGED <<run, effects>>, ex'[e].pc # "loop"
       PROVE  OnceInv'
  <2>1. ASSUME NEW n \in Unaware, Pc(e, n)' \in Before PROVE ~ Used(n)
    <3>1. n \in S
      BY <1>2, <1>10, <2>1 DEF Launch, TypeOK, NoTask, Pc
    <3>2. n \notin Started(ex[e].seen)
      BY <3>1 DEF Ready, resolve_ready_nodes
    <3> QED
      BY <1>10, <3>2 DEF OnceInv, OnceAt
  <2> QED
    BY <1>1, <1>4, <1>10, <2>1, <1>2, NoEffectOfOne
<1>a. CASE Begin(e) \/ SequentialDone(e)
  BY <1>a, <1>9 DEF Begin, SequentialDone
<1>b. CASE StopLoop(e) \/ Stall(e) \/ Raised(e)
  BY <1>b, <1>6 DEF StopLoop, Stall, Raised
<1>c. CASE fail_run_duration(e) \/ complete_run(e) \/ \E n \in Nodes : RefuseRecovery(e, n)
  BY <1>c, <1>7 DEF fail_run_duration, complete_run, RefuseRecovery, Failed, Terminal
<1>d. CASE Recover(e)
  <2>1. ex'[e].pc = "recover" /\ UNCHANGED <<run, task, effects>>
    BY <1>d DEF Recover, TypeOK, dbvars
  <2> QED
    BY <1>1, <1>4, <2>1, <1>2, NoEffectOfOne DEF Pc
<1>e. CASE execute_nodes_parallel(e)
  <2>1. PICK g \in group_parallel_ready_nodes(Ready(e)) : Launch(e, g, ex[e].latest, ex[e].seen)
    BY <1>e DEF execute_nodes_parallel
  <2>2. g \in SUBSET Ready(e)
    BY DEF group_parallel_ready_nodes
  <2>3. ex[e].pc = "loop" /\ ex'[e].pc = "parallel" /\ UNCHANGED <<run, effects>>
    BY <1>e DEF execute_nodes_parallel, Proceeding, Looking, TypeOK, dbvars
  <2> QED
    BY <1>10, <2>1, <2>2, <2>3
<1>f. CASE ExecuteSequential(e)
  <2>1. PICK n \in sequential_head(Ready(e)) : Launch(e, {n}, ex[e].latest, ex[e].seen)
    BY <1>f DEF ExecuteSequential
  <2> DEFINE S == {n}
  <2>2. S \in SUBSET Ready(e) /\ Launch(e, S, ex[e].latest, ex[e].seen)
    BY <2>1 DEF sequential_head
  <2>3. ex[e].pc = "loop" /\ ex'[e].pc = "sequential" /\ UNCHANGED <<run, effects>>
    BY <1>f DEF ExecuteSequential, Proceeding, Looking, TypeOK, dbvars
  <2> HIDE DEF S
  <2> QED
    BY <1>10, <2>2, <2>3
<1>g. CASE ParallelDone(e)
  <2>1. CASE ~ Exit(e)
    <3>1. /\ task' = [task EXCEPT ![e] = NoTasks] /\ UNCHANGED <<run, effects>> /\ run.status = "running"
          /\ ex' = [ex EXCEPT ![e].pc = "loop", ![e].seen = run]
      BY <1>g, <2>1 DEF ParallelDone, dbvars
    <3>2. ex'[e].seen = run
      BY <3>1 DEF TypeOK, Executor
    <3> QED
      BY <1>8, <3>1, <3>2
  <2> QED
    BY <1>6, <2>1
<1>h. CASE RecoveryDone(e)
  <2>1. CASE ex' = [ex EXCEPT ![e].pc = "recover"] /\ task' = [task EXCEPT ![e] = NoTasks] /\ UNCHANGED <<dbvars, effects, envvars>>
    <3>1. ex'[e].pc = "recover" /\ UNCHANGED <<run, effects>>
      BY <2>1 DEF TypeOK, dbvars
    <3> QED
      BY <1>1, <1>3, <1>4, <2>1, <3>1, <1>2, NoEffectOfOne
  <2> QED
    BY <1>h, <1>6, <1>9, <2>1 DEF RecoveryDone
<1>i. ASSUME NEW n \in Nodes, resume_interrupted_node(e, n) PROVE OnceInv'
  <2>1. /\ UNCHANGED <<run, effects>> /\ ex'[e].pc = "recovering" /\ crash_recovery_allowed(n)
        /\ \A m \in Nodes \ {n} : task'[e][m] = NoTask
    BY <1>i DEF resume_interrupted_node, TypeOK, NoTasks
  <2>2. ASSUME NEW m \in Unaware, Pc(e, m)' \in Before PROVE ~ Used(m)
    <3>1. m = n
      <4>1. m \in Nodes /\ task'[e][m].pc # "none"
        BY <1>2, <2>2 DEF Pc
      <4>2. NoTask.pc = "none"
        BY DEF NoTask
      <4>3. m # n => task'[e][m] = NoTask
        BY <2>1, <4>1
      <4> QED
        BY <4>1, <4>2, <4>3
    <3>2. Kind[n] # "task"
      BY <2>1, <3>1 DEF crash_recovery_allowed, Unaware
    <3> QED
      BY <2>2, <3>1, <3>2 DEF OnceInv, OnceAt
  <2> QED
    BY <1>1, <1>4, <2>1, <2>2, <1>2, NoEffectOfOne
<1> QED
  BY <1>a, <1>b, <1>c, <1>d, <1>e, <1>f, <1>g, <1>h, <1>i DEF StepLoop

LEMMA OnceNext ==
  ASSUME IInv, AloneInv, SoleInv, OnceInv, [Next]_vars, ~ overlapped'
  PROVE  OnceInv'
<1>1. TypeOK /\ TypeOK'
  BY TypeStep DEF IInv
<1>n. ~ overlapped
  BY <1>1, AloneNext
<1>o. \A e \in Executors : Moves(e) => Others(e)'
  BY <1>n, MovesAlone
<1>2. ASSUME UNCHANGED <<ex, task, effects>>, Ended => Ended', Started(run) \subseteq Started(run') PROVE OnceInv'
  BY <1>2, NoEffectKeeps DEF Pc
<1>a. CASE UNCHANGED vars
  BY <1>a, <1>2 DEF vars, Ended
<1>b. ASSUME NEW e \in Executors, StepLoop(e) PROVE OnceInv'
  BY <1>b, <1>1, <1>o, StepLoopMoves, OnceLoopKeeps
<1>c. ASSUME NEW e \in Executors, UNCHANGED <<run, task, effects>>, Schedule(e)
      PROVE  OnceInv'
  <2>1. \A o \in Executors : ex'[o].pc = "loop" => ex'[o] = ex[o]
    BY <1>c, <1>1 DEF TypeOK, Schedule
  <2> QED
    BY <1>c, <2>1, NoEffectKeeps DEF Pc, Ended
<1>d. ASSUME NEW e \in Executors, NEW n \in Nodes, ExecuteNode(e, n) \/ StoreError(e, n) PROVE OnceInv'
  BY <1>d, <1>1, <1>o, ExecuteNodeMoves, OnceNodeKeeps
<1>e. ASSUME NEW d \in Requests, start_run(d) PROVE OnceInv'
  <2>1. run = NoRun /\ UNCHANGED <<ex, task, effects>>
    BY <1>e DEF start_run, IInv, AbsentIsIdle, loopvars
  <2>2. ~ Ended /\ Started(run) = {}
    BY <2>1 DEF Ended, Terminal, Started, Resolved, NoRun
  <2> QED
    BY <1>2, <2>1, <2>2
<1>f. ASSUME NEW d \in Requests, continue_from_approval(d) PROVE OnceInv'
  <2> DEFINE S == SkippedBy(d)
             new == [MergeContext(req[d].seen) EXCEPT !.skipped = @ \cup S]
  <2>1. /\ run \in Run /\ req[d].seen \in Run /\ S \in SUBSET Nodes
    BY <1>1, SkippedByType DEF TypeOK
  <2>2. UNCHANGED <<ex, task, effects>> /\ (run' = run \/ run' = new)
    BY <1>f DEF continue_from_approval, loopvars, SkippedBy
  <2> HIDE DEF S
  <2>3. CASE run' = new
    <3>1. MergeContext(req[d].seen) \in Run /\ run.done \subseteq MergeContext(req[d].seen).done
          /\ MergeContext(req[d].seen).current = run.current /\ MergeContext(req[d].seen).status = run.status
          /\ run.skipped \subseteq MergeContext(req[d].seen).skipped
      BY <2>1 DEF MergeContext, Run
    <3>2. run'.status = run.status /\ Started(run) \subseteq Started(run')
      BY <2>3, <3>1 DEF Started, Resolved, Run
    <3> QED
      BY <1>2, <2>2, <3>2 DEF Ended
  <2> QED
    BY <1>2, <2>2, <2>3 DEF Ended
<1>g. ASSUME NEW d \in Requests, NEW n \in Nodes, NEW a \in Attempts, NEW decision \in Decisions,
             apply_decision(d, n, a, decision)
      PROVE  OnceInv'
  <2>1. run.status = "waiting_approval" /\ run' = Decided(n, decision) /\ UNCHANGED <<ex, task, effects>>
    BY <1>g DEF apply_decision, record_approval_decision, loopvars
  <2>2. Started(run) \subseteq Started(run') /\ ~ Ended
    BY <1>1, <2>1 DEF Decided, Succeeded, TypeOK, Run, Started, Resolved, Ended, Terminal
  <2> QED
    BY <1>2, <2>1, <2>2
<1>h. CASE cancel_run
  <2>1. Started(run) \subseteq Started(run') /\ Ended' /\ UNCHANGED <<ex, task, effects>>
    BY <1>1, <1>h DEF cancel_run, loopvars, TypeOK, Run, Started, Resolved, Ended, Terminal
  <2> QED
    BY <1>2, <2>1
<1>i. CASE DurationPasses
  BY <1>i, <1>2 DEF DurationPasses, dbvars, loopvars, Ended
<1>j. CASE Crash
  <2>1. /\ UNCHANGED <<run, effects>>
        /\ \A e \in Executors : ex'[e].pc = "idle" /\ \A n \in Nodes : Pc(e, n)' = "none"
    BY <1>j DEF Crash, NoExecutor, NoTasks, NoTask, Pc
  <2> QED
    BY <2>1, NoEffectKeeps DEF Before, Ended, Unaware
<1>k. CASE reconcile_orphaned_runs
  <2>1. UNCHANGED <<run, task, effects>>
    BY <1>k DEF reconcile_orphaned_runs, dbvars
  <2> QED
    BY <1>2, <1>c, <1>k, <2>1 DEF reconcile_orphaned_runs, Ended
<1>l. \A e \in Executors : resume(e) => OnceInv'
  BY <1>c DEF resume, dbvars
<1>m. \A d \in Requests, e \in Executors : schedule_run(d, e) => OnceInv'
  BY <1>c DEF schedule_run, dbvars
<1> QED
  BY <1>a, <1>b, <1>d, <1>e, <1>f, <1>g, <1>h, <1>i, <1>j, <1>k, <1>l, <1>m DEF Next

LEMMA OnceIsClosed ==
  ASSUME OneAtATime => OnceInv, effects \in [Nodes -> [Attempts -> Nat]]
  PROVE  FailsClosed
<1> SUFFICES ASSUME OneAtATime, NEW n \in Nodes \ ReceiptAware, ~ RetriedAfterTimeout(n)
             PROVE  Cardinality(ReceiptsUsed(n)) <= 1 /\ \A a \in ReceiptsUsed(n) : effects[n][a] = 1
  BY DEF FailsClosed
<1>1. \A a, b \in ReceiptsUsed(n) : a = b /\ effects[n][a] = 1
  BY DEF OnceInv, OnceAt, ReceiptsUsed, Unaware
<1>2. CASE ReceiptsUsed(n) = {}
  BY <1>2, FS_EmptySet
<1>3. CASE ReceiptsUsed(n) # {}
  <2>1. PICK a \in ReceiptsUsed(n) : TRUE
    BY <1>3
  <2>3. ReceiptsUsed(n) = {a}
    BY <1>1, <2>1
  <2>2. Cardinality({a}) = 1
    BY FS_Singleton
  <2> QED
    BY <1>1, <2>2, <2>3
<1> QED
  BY <1>1, <1>2, <1>3

\* However the process crashes, a tool that cannot recognise a receipt takes effect
\* once: recovery fails the run rather than repeat it.  It holds for any graph and any
\* number of executors, of every node that is not retried after a timeout, until a
\* second executor is started, or a decision taken, while one is active, and unless a
\* branch waits for an approval.
THEOREM RunIsSafe == Spec => []RunSafe
<1>1. Init => (OneAtATime => OnceInv)
  <2> SUFFICES ASSUME Init, NEW n \in Nodes PROVE OnceAt(n)
    BY DEF OnceInv, Unaware
  <2>1. /\ \A a \in Attempts : effects[n][a] = 0
        /\ \A e \in Executors : ex[e].pc = "idle"
    BY DEF Init, NoExecutor
  <2>2. \A e \in Executors : Pc(e, n) = "none"
    BY DEF Init, NoTasks, NoTask, Pc
  <2> QED
    BY <2>1, <2>2 DEF OnceAt, Used
<1>2. IInv /\ AloneInv /\ (OneAtATime => SoleInv) /\ (OneAtATime => OnceInv) /\ [Next]_vars
        => (OneAtATime => OnceInv)'
  <2> SUFFICES ASSUME IInv, AloneInv, OneAtATime => SoleInv /\ OnceInv, [Next]_vars, OneAtATime' PROVE OnceInv'
    OBVIOUS
  <2>1. ~ overlapped' /\ OneAtATime
    BY AloneNext DEF OneAtATime, ApprovalsOutsideForks, IInv
  <2> QED
    BY <2>1, OnceNext
<1>3. IInv /\ (OneAtATime => OnceInv) => RunSafe
  BY OnceIsClosed DEF IInv, TypeOK, RunSafe
<1> QED
  BY <1>1, <1>2, <1>3, SoleHolds, AloneHolds, InvariantHolds, PTL DEF Spec

=============================================================================
