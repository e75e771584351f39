------------------------------ MODULE AgentRun ------------------------------
(***************************************************************************)
(* One execution of the agent: AgentExecutor.run and resume_from_approval, *)
(* ReActPlanner, ToolRunner with its retries, ToolExecutor, reflection,    *)
(* the scratchpad and the event stream of DefaultAgent.stream. The plain   *)
(* tool loops of ToolChatService and UnifiedChatService are the same       *)
(* machine without approvals, retries and reflection.                      *)
(*                                                                         *)
(* A model call or a tool is an await: other tasks of the event loop run   *)
(* in between. Prompts, arguments and answers are left out; of an answer   *)
(* only the tools it asks for and whether its text is empty matter.        *)
(***************************************************************************)
EXTENDS Integers, Sequences, FiniteSets

CONSTANTS
    Calls,        \* the tool calls a model may ask for
    Flagged,      \* calls the approval policy wants a human for
    Banned,       \* calls the approval policy rejects
    MaxIter,      \* AgentConfig.max_iterations
    MaxRefl,      \* AgentConfig.max_reflections
    MaxAttempts,  \* ToolRetryPolicy.max_retries, which counts attempts
    MaxResumes    \* bound: approvals granted in one execution

ASSUME AgentAssumption ==
    /\ Flagged \subseteq Calls /\ Banned \subseteq Calls
    /\ {MaxIter, MaxRefl, MaxAttempts, MaxResumes} \subseteq Nat /\ MaxIter > 0 /\ MaxAttempts > 0

VARIABLES
    cfg,      \* what the request and the settings say
    pc,       \* where the run is
    ex,       \* AgentExecutionState
    plan,     \* the calls of the current plan and the text that came with them
    call,     \* the calls in flight: their tasks
    open,     \* calls asked for in the scratchpad that no tool message answers yet
    pad,      \* the scratchpad is registered in the store
    events,   \* what the publisher has queued, agent-internal events left out
    reader,   \* DefaultAgent._stream and its consumer
    spent,    \* model calls, reflections and resumptions so far, counted by an observer
    granted   \* calls a human has approved

vars == <<cfg, pc, ex, plan, call, open, pad, events, reader, spent, granted>>

\* last_planner_content: None, blank or some text.
Texts == {"none", "blank", "text"}

\* AgentExecutionStatus and VALID_TRANSITIONS. "failed" is never entered.
Statuses == {"created", "planning", "executing", "reflecting", "waiting_approval", "completed"}
VALID_TRANSITIONS ==
    [created |-> {"planning"}, planning |-> {"executing", "completed"},
     executing |-> {"planning", "reflecting", "waiting_approval", "completed"},
     waiting_approval |-> {"planning"}, reflecting |-> {"planning", "executing", "completed"},
     completed |-> {}]

\* The agent's event loop, or one of the two tool loops it replaces.
Configs ==
    {c \in [kind: {"agent", "loop", "streamLoop"}, parallel: BOOLEAN, reflect: BOOLEAN,
            hitl: BOOLEAN, stream: BOOLEAN, guest: BOOLEAN] :
        c.kind # "agent" => ~c.parallel /\ ~c.reflect /\ ~c.hitl /\ ~c.stream}

NoPlan == [calls |-> {}, text |-> "none", retry |-> FALSE]
Idle == [c \in Calls |-> [st |-> "idle", att |-> 0]]
-----------------------------------------------------------------------------
\* AgentStateManager.transition along a path of statuses. An illegal one raises; here it blocks
\* the run, which RunEnds excludes.
Legal(path) == \A i \in 1 .. Len(path) - 1 : path[i + 1] \in VALID_TRANSITIONS[path[i]]
Moved(path) == [ex EXCEPT !.status = path[Len(path)]]

has_remaining_iterations == ex.iter < MaxIter

\* QueueStreamPublisher.publish: only a stream has a queue.
publish(e) == events' = IF cfg.stream THEN Append(events, e) ELSE events

\* _run_single_tool's task is waiting, running or done.
Running(c) == call[c].st = "running"
Outcome(c) == call[c].st

\* AggregatedToolResults.
all_succeeded == \A c \in plan.calls : Outcome(c) = "ok"
any_succeeded == \E c \in plan.calls : Outcome(c) = "ok"
-----------------------------------------------------------------------------
(* The loop. *)

\* The head of AgentExecutor.run: create_initial_state registers the scratchpad.
run ==
    /\ pc = "start"
    /\ Legal(<<ex.status, "planning">>) /\ ex' = Moved(<<ex.status, "planning">>)
    /\ pc' = "loop" /\ pad' = TRUE
    /\ UNCHANGED <<cfg, plan, call, open, events, reader, spent, granted>>

\* AgentStateManager.begin_iteration while iterations remain; else the limit plan, which answers
\* with the last text and calls no model.
begin_iteration ==
    /\ pc = "loop"
    /\ IF has_remaining_iterations
       THEN pc' = "plan" /\ ex' = [ex EXCEPT !.iter = @ + 1]
       ELSE /\ pc' = "limit"
            /\ Legal(<<ex.status, "executing">>) /\ ex' = Moved(<<ex.status, "executing">>)
    /\ UNCHANGED <<cfg, plan, call, open, pad, events, reader, spent, granted>>

\* ReActPlanner.plan_next, and complete_chat_with_tools in the tool loops: the model asks for
\* tools (parse_tool_completion), gives the final answer, has no tools to use
\* (build_no_tools_finalize_plan), or fails for good.
plan_next ==
    /\ pc = "plan"
    /\ spent' = [spent EXCEPT !.plans = @ + 1]
    /\ \/ \E wanted \in (SUBSET Calls) \ {{}}, text \in Texts :
             /\ plan' = [calls |-> wanted, text |-> text, retry |-> FALSE]
             /\ Legal(<<ex.status, "executing">>) /\ ex' = Moved(<<ex.status, "executing">>)
             /\ pc' = "dispatch"
       \/ /\ Legal(<<ex.status, "executing">>) /\ ex' = Moved(<<ex.status, "executing">>)
          /\ pc' = "final" /\ UNCHANGED plan
       \/ pc' = "raise" /\ UNCHANGED <<ex, plan>>
    /\ UNCHANGED <<cfg, call, open, pad, events, reader, granted>>

\* Faulty: only one of the step's calls is looked at.
evaluate_step_policy_First(calls) ==
    LET c == CHOOSE c \in calls : TRUE
    IN  IF c \in Banned THEN "reject" ELSE IF c \in Flagged THEN "require_approval" ELSE "auto"

\* _evaluate_step_policy: a rejected call decides before one that needs approval.
evaluate_step_policy(calls) ==
    IF calls \cap Banned # {} THEN "reject"
    ELSE IF calls \cap Flagged # {} THEN "require_approval" ELSE "auto"

\* _assistant_tool_call_message: every call of the plan is asked for by its id.
assistant_tool_call_message == plan.calls

\* _execute_tool_plan: the assistant message with the calls goes into the scratchpad, then
\* _preflight_approval_for_steps decides before any tool starts.
execute_tool_plan ==
    /\ pc = "dispatch"
    /\ open' = open \cup assistant_tool_call_message
    /\ LET verdict == IF cfg.hitl THEN evaluate_step_policy(plan.calls) ELSE "auto"
       IN  pc' = CASE verdict = "reject" -> "raise"
                   [] verdict = "require_approval" -> "pause"
                   [] OTHER -> "tools"
    /\ call' = [c \in Calls |-> IF c \in plan.calls THEN [st |-> "waiting", att |-> 0]
                                ELSE call[c]]
    /\ UNCHANGED <<cfg, ex, plan, pad, events, reader, spent, granted>>

\* AgentApprovalService.pause snapshots scratchpad and state, stores the approval and announces
\* it; _waiting_approval_response ends the run. Without a session or on a database error it raises.
pause ==
    /\ pc = "pause"
    /\ call' = Idle
    /\ \/ /\ Legal(<<ex.status, "waiting_approval">>) /\ ex' = Moved(<<ex.status, "waiting_approval">>)
          /\ publish("approval_required") /\ pc' = "close"
       \/ pc' = "raise" /\ UNCHANGED <<ex, events>>
    /\ UNCHANGED <<cfg, plan, open, pad, reader, spent, granted>>
-----------------------------------------------------------------------------
(* Tools. *)

\* _run_single_step: gather starts every call, otherwise one after the other.
run_single_tool(c) ==
    /\ pc = "tools" /\ call[c].st = "waiting"
    /\ cfg.parallel \/ \A d \in plan.calls : call[d].st # "running" /\ call[d].st # "raised"
    /\ call' = [call EXCEPT ![c] = [st |-> "running", att |-> 1]]
    /\ UNCHANGED <<cfg, pc, ex, plan, open, pad, events, reader, spent, granted>>

\* ToolAuthorizer.authorize: a guest runs no tool. A user's permissions, and those that a
\* destructive tool asks for besides, are read anew for every call and may have been revoked.
authorize == IF cfg.guest THEN {"denied"} ELSE {"allowed", "denied"}

\* The last part of ToolExecutor.execute: RateLimitExceededError, which is raised, or the
\* handler's result, an error of which is a result too; a timeout or a transient error code is
\* worth a retry.
handler_result == {"raised", "ok", "failed", "transient"}

\* ToolExecutor.execute: an unknown tool or wrong arguments fail before the authorization, and a
\* call that it allows may still be refused (MCP permission, guardrail) before the handler runs.
execute ==
    {"failed"} \cup (authorize \ {"allowed"})
        \cup IF "allowed" \in authorize THEN handler_result ELSE {}

\* _execute_tool_call of the tool loops refuses a guest before it asks the executor.
execute_tool_call == IF cfg.guest THEN {"denied"} ELSE execute

\* retry_async under _ToolResultRetryPolicy. The tool loops do not retry.
retry_operation(c, o) == o = "transient" /\ cfg.kind = "agent" /\ call[c].att < MaxAttempts

\* _execute_with_retry. A call whose run has ended without it comes to nothing: its tool_end
\* event meets a closed publisher.
tool_ends(c) ==
    /\ Running(c)
    /\ \E o \in IF cfg.kind = "agent" THEN execute ELSE execute_tool_call :
         call' = [call EXCEPT ![c] =
                     IF pc # "tools" THEN [st |-> "idle", att |-> 0]
                     ELSE IF retry_operation(c, o) THEN [call[c] EXCEPT !.att = call[c].att + 1]
                     ELSE [call[c] EXCEPT !.st = IF o = "transient" THEN "failed" ELSE o]]
    /\ UNCHANGED <<cfg, pc, ex, plan, open, pad, events, reader, spent, granted>>

\* Faulty: only successful results are recorded.
record_tool_results_Ok == {c \in plan.calls : Outcome(c) = "ok"}

\* _record_tool_results: one tool message for every call of the plan, failed or not.
record_tool_results == plan.calls

\* run_tool_steps returns: all calls have a result. _maybe_reflect is asked unless this was the
\* retry it had decided on.
results_in ==
    /\ pc = "tools" /\ \A c \in plan.calls : call[c].st \in {"ok", "failed", "denied"}
    /\ open' = open \ record_tool_results
    /\ pc' = IF plan.retry THEN "again" ELSE "reflect"
    /\ UNCHANGED <<cfg, ex, plan, call, pad, events, reader, spent, granted>>

\* gather passes the first exception on and leaves the other calls running; the sequential loop
\* starts no further call.
gather_raises ==
    /\ pc = "tools" /\ \E c \in plan.calls : call[c].st = "raised"
    /\ pc' = "raise"
    /\ call' = [c \in Calls |-> IF Running(c) THEN call[c] ELSE Idle[c]]
    /\ UNCHANGED <<cfg, ex, plan, open, pad, events, reader, spent, granted>>
-----------------------------------------------------------------------------
(* Reflection and the end. *)

\* evaluate_rule_based. With results the rules always decide, so _reflect_with_llm is not reached.
evaluate_rule_based ==
    IF plan.text = "blank" THEN "RETRY_STEP"
    ELSE IF ~any_succeeded THEN "REPLAN"
    ELSE IF ~all_succeeded THEN "CONTINUE" ELSE "FINISH"

\* ReflectionEngine.reflect.
reflect == IF cfg.reflect THEN evaluate_rule_based ELSE "CONTINUE"

\* The streamed tool loop ends after a round with a refused call, the other one only if the
\* caller is a guest.
guest_denied ==
    /\ \E c \in plan.calls : Outcome(c) = "denied"
    /\ cfg.kind = "streamLoop" \/ (cfg.kind = "loop" /\ cfg.guest)

\* The early returns of _maybe_reflect.
reflection_due == cfg.reflect /\ plan.calls # {} /\ ex.refl < MaxRefl

\* _maybe_reflect. RETRY_STEP runs the whole plan once more, the calls that succeeded too.
maybe_reflect ==
    /\ pc = "reflect" /\ ~guest_denied
    /\ IF ~reflection_due THEN pc' = "again" /\ UNCHANGED <<ex, plan, spent>>
       ELSE LET d == reflect
                to == IF d \in {"RETRY_STEP", "FINISH"} THEN "executing" ELSE "planning"
            IN  /\ Legal(<<ex.status, "reflecting", to>>)
                /\ ex' = [ex EXCEPT !.status = to, !.refl = @ + 1]
                /\ spent' = [spent EXCEPT !.refls = @ + 1]
                /\ plan' = IF d = "RETRY_STEP" THEN [plan EXCEPT !.retry = TRUE] ELSE plan
                /\ pc' = CASE d = "RETRY_STEP" -> "dispatch" [] d = "FINISH" -> "final"
                           [] OTHER -> "again"
    /\ call' = Idle
    /\ UNCHANGED <<cfg, open, pad, events, reader, granted>>

\* The tail of the loop body: back to PLANNING unless reflection already went there.
next_iteration ==
    /\ pc = "again"
    /\ IF ex.status = "planning" THEN UNCHANGED ex
       ELSE Legal(<<ex.status, "planning">>) /\ ex' = Moved(<<ex.status, "planning">>)
    /\ pc' = "loop" /\ plan' = NoPlan /\ call' = Idle
    /\ UNCHANGED <<cfg, open, pad, events, reader, spent, granted>>

\* _iter_stream_with_timeout: the model's stream ends, fails, or has not ended within the budget
\* of the whole answer, which every wait for a chunk counts against.
iter_stream_with_timeout == {"end", "timeout", "error"}

\* stream_final_answer: closed in any case, and an answer only when it has ended.
stream_final_answer == {IF o = "end" THEN "answer" ELSE o : o \in iter_stream_with_timeout}

\* _finalize_and_complete: the text that is at hand, or the model is asked for one.
finalize_and_complete ==
    /\ pc \in {"final", "limit"}
    /\ \E o \in IF pc = "final" THEN stream_final_answer ELSE {"answer"} :
         IF o = "answer"
         THEN /\ Legal(<<ex.status, "completed">>) /\ ex' = Moved(<<ex.status, "completed">>)
              /\ publish("complete") /\ pc' = "close"
         ELSE pc' = "raise" /\ UNCHANGED <<ex, events>>
    /\ UNCHANGED <<cfg, plan, call, open, pad, reader, spent, granted>>

\* The tool loop ends with the guests' answer after the whole round.
tool_loop_denied ==
    /\ pc = "reflect" /\ guest_denied
    /\ pc' = "limit" /\ call' = Idle
    /\ UNCHANGED <<cfg, ex, plan, open, pad, events, reader, spent, granted>>

\* The except clauses of run: the error is announced and raised.
announce_error ==
    /\ pc = "raise"
    /\ publish("error") /\ pc' = "close"
    /\ UNCHANGED <<cfg, ex, plan, call, open, pad, reader, spent, granted>>

\* Faulty: only a run that completes cleans up.
close_OnSuccess ==
    /\ pc = "close"
    /\ publish("None")
    /\ pc' = "ended" /\ pad' = (pad /\ ex.status # "completed")
    /\ UNCHANGED <<cfg, ex, plan, call, open, reader, spent, granted>>

\* The finally clause: publisher.close queues None, and the scratchpad is dropped.
close ==
    /\ pc = "close"
    /\ publish("None")
    /\ pc' = "ended" /\ pad' = FALSE
    /\ UNCHANGED <<cfg, ex, plan, call, open, reader, spent, granted>>
-----------------------------------------------------------------------------
(* The stream and the approval. *)

\* stream_agent_chat over DefaultAgent._stream: the consumer returns at the first of these events.
read ==
    /\ reader = "reading" /\ events # <<>>
    /\ events' = Tail(events)
    /\ reader' = "left"
    /\ UNCHANGED <<cfg, pc, ex, plan, call, open, pad, spent, granted>>

\* The client disconnects and the consumer returns early.
disconnect ==
    /\ reader = "reading" /\ pc # "start"
    /\ reader' = "left"
    /\ UNCHANGED <<cfg, pc, ex, plan, call, open, pad, events, spent, granted>>

\* The finally clause of _stream: an unfinished task is cancelled at its await, the tools it
\* waits for with it.
cancel_task ==
    /\ reader = "left" /\ pc \notin {"start", "close", "ended", "abandoned"}
    /\ pc' = "close" /\ call' = Idle
    /\ UNCHANGED <<cfg, ex, plan, open, pad, events, reader, spent, granted>>

\* Faulty: a fresh state is built on resume.
Restored_Fresh == [status |-> "executing", iter |-> 0, refl |-> 0]

\* The state of the pause snapshot, moved on by resume_from_approval.
Restored == [ex EXCEPT !.status = "executing"]

\* approve_and_resume: state and scratchpad come back from the snapshot and the service executes
\* and records the approved calls; reflection sees the results first, whose retry plan has no
\* calls. A call over its rate limit raises, and so does a cancellation: the run is abandoned with
\* its scratchpad, which executor.resume_from_approval would drop and which only a further
\* resumption replaces. The stream is closed by the caller.
resume_from_approval ==
    /\ pc \in {"ended", "abandoned"} /\ ex.status = "waiting_approval" /\ spent.resumes < MaxResumes
    /\ granted' = granted \cup plan.calls
    /\ spent' = [spent EXCEPT !.resumes = @ + 1]
    /\ pad' = TRUE
    /\ reader' = IF cfg.stream THEN "reading" ELSE "none"
    /\ \/ /\ Legal(<<ex.status, "planning", "executing">>) /\ ex' = Restored
          /\ \E out \in [plan.calls -> {"ok", "failed", "denied"}] :
               call' = [c \in Calls |-> IF c \in plan.calls THEN [st |-> out[c], att |-> 1]
                                        ELSE Idle[c]]
          /\ open' = open \ plan.calls
          /\ pc' = "resumed" /\ events' = <<>>
       \/ /\ pc' = "abandoned" /\ events' = IF cfg.stream THEN <<"None">> ELSE <<>>
          /\ call' = Idle /\ UNCHANGED <<ex, open>>
    /\ UNCHANGED <<cfg, plan>>

\* Its reflection: as in the loop, but RETRY_STEP repeats an empty step.
reflect_on_resume ==
    /\ pc = "resumed"
    /\ IF ~reflection_due THEN pc' = "again" /\ UNCHANGED <<ex, spent>>
       ELSE LET d == reflect
                to == IF d \in {"RETRY_STEP", "FINISH"} THEN "executing" ELSE "planning"
            IN  /\ Legal(<<ex.status, "reflecting", to>>)
                /\ ex' = [ex EXCEPT !.status = to, !.refl = @ + 1]
                /\ spent' = [spent EXCEPT !.refls = @ + 1]
                /\ pc' = IF d = "FINISH" THEN "final" ELSE "again"
    /\ call' = Idle
    /\ UNCHANGED <<cfg, plan, open, pad, events, reader, granted>>
-----------------------------------------------------------------------------
Init ==
    /\ cfg \in Configs
    /\ pc = "start" /\ ex = [status |-> "created", iter |-> 0, refl |-> 0]
    /\ plan = NoPlan /\ call = Idle /\ open = {} /\ pad = FALSE /\ events = <<>>
    /\ reader = IF cfg.stream THEN "reading" ELSE "none"
    /\ spent = [plans |-> 0, refls |-> 0, resumes |-> 0] /\ granted = {}

\* The loop, which resume_from_approval repeats line by line after its reflection.
Step ==
    \/ run \/ begin_iteration \/ plan_next \/ execute_tool_plan \/ pause
    \/ results_in \/ gather_raises \/ maybe_reflect \/ next_iteration \/ finalize_and_complete
    \/ tool_loop_denied \/ announce_error \/ close \/ reflect_on_resume \/ cancel_task
\* One call, in the agent and in the tool loops.
Tool(c) == run_single_tool(c) \/ tool_ends(c)

Next == Step \/ read \/ disconnect \/ resume_from_approval \/ \E c \in Calls : Tool(c)

Spec == Init /\ [][Next]_vars

\* The event loop runs every task that can go on; a model call and a tool end because both are
\* under a timeout. Nobody is obliged to approve or to disconnect.
FairSpec == Spec /\ WF_vars(Step) /\ WF_vars(read) /\ \A c \in Calls : WF_vars(Tool(c))
-----------------------------------------------------------------------------
(* Properties. *)

TypeOK ==
    /\ cfg \in Configs
    /\ ex \in [status: Statuses, iter: 0 .. MaxIter, refl: 0 .. MaxRefl]
    /\ plan \in [calls: SUBSET Calls, text: Texts, retry: BOOLEAN]
    /\ call \in [Calls -> [st: {"idle", "waiting", "running", "ok", "failed", "denied", "raised"},
                           att: 0 .. MaxAttempts]]
    /\ open \subseteq Calls /\ granted \subseteq Calls /\ pad \in BOOLEAN
    /\ reader \in {"none", "reading", "left"}

\* Whenever the model is asked again, every tool call of the conversation has been answered by a
\* tool message, also after failed tools, retried plans and resumed approvals: a provider rejects
\* a conversation with an open call.
ConversationAnswered == pc \in {"loop", "plan", "final", "limit"} => open = {}

\* With approvals enabled no flagged call runs, in a retried plan or beside unflagged calls either,
\* unless a human approved it: the check comes before the first tool of the step is started.
FlaggedNeedsApproval ==
    cfg.hitl => \A c \in Calls : call[c].att > 0 => c \notin Banned /\ (c \in Flagged => c \in granted)

\* The state keeps its type, and the iteration and reflection budgets are those of the whole
\* execution, pauses and resumptions included.
BudgetsHold == TypeOK /\ spent.plans <= MaxIter /\ spent.refls <= MaxRefl

\* A run that is under way comes to its end with its scratchpad dropped, whatever the model and
\* the tools do; this leaves out a resumption whose approved calls raise, which is abandoned before
\* the loop and keeps its scratchpad. The consumer of the stream is released in both cases.
RunEnds ==
    /\ [](pc \notin {"ended", "abandoned"} => <>(pc = "ended" /\ ~pad))
    /\ [](reader = "reading" => <>(reader = "left"))
=============================================================================
