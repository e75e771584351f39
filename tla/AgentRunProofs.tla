--------------------------- MODULE AgentRunProofs ---------------------------
(***************************************************************************)
(* Proofs about AgentRun for any calls, policies, budgets and number of     *)
(* resumptions.                                                            *)
(***************************************************************************)
EXTENDS AgentRun, TLAPS

PCs == {"start", "loop", "plan", "dispatch", "pause", "tools", "reflect", "again",
        "resumed", "final", "limit", "raise", "close", "ended", "abandoned"}

\* Each counter of the observer is matched by the state's own, which the snapshot of
\* a pause keeps; the iteration of the current plan is not spent before the model is asked.
Budgets ==
    /\ spent \in [plans : Nat, refls : Nat, resumes : Nat]
    /\ spent.plans <= ex.iter /\ (pc = "plan" => spent.plans < ex.iter)
    /\ spent.refls = ex.refl

\* Where the run is tells its status.
StatusFits ==
    /\ pc = "start" => ex.status = "created"
    /\ pc \in {"loop", "plan"} => ex.status = "planning"
    /\ pc \in {"dispatch", "pause", "tools", "reflect", "resumed", "final", "limit"}
         => ex.status = "executing"
    /\ pc = "again" => ex.status \in {"executing", "planning"}
    /\ ex.status = "waiting_approval" => pc \in {"close", "ended", "abandoned"}
    /\ pc = "abandoned" => ex.status = "waiting_approval"

\* Calls are open only between the dispatch of a plan and its results; a run that waits
\* for an approval has no others than those of its plan.
Conversation ==
    /\ pc \notin {"pause", "tools", "raise", "close", "ended", "abandoned"} => open = {}
    /\ pc \in {"pause", "tools"} \/ ex.status = "waiting_approval" => open \subseteq plan.calls

\* Nothing is under way where a plan is made, only calls of the plan where tools run, and
\* a plan that runs or waits has been judged by the policy.
Judged ==
    /\ pc \in {"start", "loop", "plan", "dispatch"} => call = Idle
    /\ pc = "tools" => \A c \in Calls \ plan.calls : call[c] = Idle[c]
    /\ cfg.hitl /\ pc = "tools" => plan.calls \cap (Banned \cup Flagged) = {}
    /\ cfg.hitl /\ (pc = "pause" \/ ex.status = "waiting_approval") => plan.calls \cap Banned = {}

IInv ==
    /\ TypeOK /\ pc \in PCs /\ Budgets /\ StatusFits
    /\ Conversation /\ Judged /\ FlaggedNeedsApproval

\* No call has an attempt where all are idle.
LEMMA IdleCalls ==
    /\ Idle \in [Calls -> [st : {"idle"}, att : {0}]]
    /\ \A c \in Calls : Idle[c].att = 0 /\ Idle[c].st = "idle"
BY DEF Idle

\* No call runs and nothing is spent before the run begins.
LEMMA InitInv == Init => IInv
<1> SUFFICES ASSUME Init PROVE IInv
  OBVIOUS
<1> USE AgentAssumption, IdleCalls DEF Init
<1>1. TypeOK /\ pc \in PCs
  <2>1. ex \in [status: Statuses, iter: 0 .. MaxIter, refl: 0 .. MaxRefl]
    BY DEF Statuses
  <2>2. plan \in [calls: SUBSET Calls, text: Texts, retry: BOOLEAN]
    BY DEF Texts, NoPlan
  <2>3. reader \in {"none", "reading", "left"} /\ pc \in PCs
    BY DEF PCs
  <2>4. call \in [Calls -> [st: {"idle", "waiting", "running", "ok", "failed", "denied", "raised"},
                            att: 0 .. MaxAttempts]]
    BY DEF Idle
  <2>5. cfg \in Configs /\ open \subseteq Calls /\ granted \subseteq Calls /\ pad \in BOOLEAN
    OBVIOUS
  <2> QED
    BY <2>1, <2>2, <2>3, <2>4, <2>5, Zenon DEF TypeOK
<1>2. Budgets /\ StatusFits /\ Conversation
  BY DEF Budgets, StatusFits, Conversation
<1>3. Judged /\ FlaggedNeedsApproval
  BY DEF Judged, FlaggedNeedsApproval
<1> QED
  BY <1>1, <1>2, <1>3 DEF IInv

\* The steps of the loop that touch no call.
LEMMA LoopInv ==
    ASSUME IInv, run \/ begin_iteration \/ finalize_and_complete \/ announce_error
                 \/ close \/ read \/ disconnect
    PROVE  IInv'
<1> USE AgentAssumption DEF IInv, Moved, TypeOK, PCs, Statuses, Budgets, StatusFits, Conversation,
        Judged, FlaggedNeedsApproval
<1>1. CASE run
  BY <1>1 DEF run
<1>2. CASE begin_iteration
  BY <1>2 DEF begin_iteration, has_remaining_iterations
<1>3. CASE finalize_and_complete
  BY <1>3 DEF finalize_and_complete
<1>4. CASE announce_error
  BY <1>4 DEF announce_error
<1>5. CASE close
  BY <1>5 DEF close
<1>6. CASE read \/ disconnect
  BY <1>6 DEF read, disconnect
<1> QED
  BY <1>1, <1>2, <1>3, <1>4, <1>5, <1>6

\* A question to the model spends the iteration that begin_iteration counted.
LEMMA PlanInv ==
    ASSUME IInv, plan_next
    PROVE  IInv'
<1> USE AgentAssumption DEF IInv, Moved, TypeOK, PCs, Statuses
<1>1. /\ pc' \in {"dispatch", "final", "raise"}
      /\ ex' \in [status : Statuses, iter : 0 .. MaxIter, refl : 0 .. MaxRefl]
      /\ ex'.iter = ex.iter /\ ex'.refl = ex.refl
      /\ pc' # "raise" => ex'.status = "executing"
      /\ pc' = "raise" => ex'.status = ex.status
      /\ plan' \in [calls : SUBSET Calls, text : Texts, retry : BOOLEAN]
  <2>1. CASE pc' = "raise" /\ UNCHANGED <<ex, plan>>
    BY <2>1 DEF plan_next
  <2>2. CASE ex' = Moved(<<ex.status, "executing">>) /\ pc' = "final" /\ UNCHANGED plan
    BY <2>2
  <2>3. CASE /\ ex' = Moved(<<ex.status, "executing">>) /\ pc' = "dispatch"
             /\ \E wanted \in SUBSET Calls, text \in Texts :
                   plan' = [calls |-> wanted, text |-> text, retry |-> FALSE]
    BY <2>3
  <2> QED
    BY <2>1, <2>2, <2>3 DEF plan_next
<1>2. UNCHANGED <<cfg, call, open, pad, events, reader, granted>> /\ pc = "plan"
      /\ spent' = [spent EXCEPT !.plans = @ + 1]
  BY DEF plan_next
<1>3. TypeOK' /\ (pc \in PCs)'
  BY <1>1, <1>2
<1>4. Budgets'
  BY <1>1, <1>2 DEF Budgets
<1>5. StatusFits' /\ Conversation' /\ Judged' /\ FlaggedNeedsApproval'
  BY <1>1, <1>2 DEF StatusFits, Conversation, Judged, FlaggedNeedsApproval
<1> QED
  BY <1>3, <1>4, <1>5

\* The policy judges the whole plan before a call of it waits to be run.
LEMMA DispatchInv ==
    ASSUME IInv, execute_tool_plan
    PROVE  IInv'
<1> USE AgentAssumption DEF IInv, TypeOK, PCs
<1>1. /\ pc = "dispatch" /\ open = {} /\ call = Idle /\ ex.status = "executing"
      /\ open' = plan.calls
      /\ call' = [c \in Calls |-> IF c \in plan.calls THEN [st |-> "waiting", att |-> 0] ELSE Idle[c]]
      /\ UNCHANGED <<cfg, ex, plan, pad, events, reader, spent, granted>>
  BY DEF execute_tool_plan, assistant_tool_call_message, Conversation, Judged, StatusFits
<1>2. /\ pc' \in {"raise", "pause", "tools"}
      /\ cfg.hitl /\ pc' = "tools" => plan.calls \cap (Banned \cup Flagged) = {}
      /\ cfg.hitl /\ pc' = "pause" => plan.calls \cap Banned = {}
  BY DEF execute_tool_plan, evaluate_step_policy
<1>3. \A c \in Calls : call'[c].att = 0 /\ call'[c] \in [st : {"idle", "waiting"}, att : {0}]
  BY <1>1 DEF Idle
<1>4. TypeOK' /\ (pc \in PCs)'
  BY <1>1, <1>2, <1>3
<1>5. Budgets' /\ StatusFits' /\ Conversation'
  BY <1>1, <1>2 DEF Budgets, StatusFits, Conversation
<1>6. Judged' /\ FlaggedNeedsApproval'
  BY <1>1, <1>2, <1>3 DEF Judged, FlaggedNeedsApproval
<1> QED
  BY <1>4, <1>5, <1>6

\* A pause keeps what the approval has to be about.
LEMMA PauseInv ==
    ASSUME IInv, pause
    PROVE  IInv'
<1> USE AgentAssumption, IdleCalls DEF IInv, TypeOK, PCs, Statuses, Moved, Budgets, StatusFits,
        Conversation, Judged, FlaggedNeedsApproval
<1>1. CASE pc' = "raise"
  BY <1>1 DEF pause
<1>2. CASE pc' = "close"
  BY <1>2 DEF pause
<1> QED
  BY <1>1, <1>2 DEF pause

\* Where the tools run, one call of the plan changes its state.
LEMMA ToolInv ==
    ASSUME IInv, NEW c \in Calls, Tool(c)
    PROVE  IInv'
<1> USE AgentAssumption, IdleCalls DEF IInv
<1>1. UNCHANGED <<cfg, pc, ex, plan, open, pad, events, reader, spent, granted>>
  BY DEF Tool, run_single_tool, tool_ends
<1>2. call[c].st \in {"waiting", "running"}
  BY DEF Tool, run_single_tool, tool_ends, Running
<1> DEFINE States == [st : {"idle", "waiting", "running", "ok", "failed", "denied", "raised"},
                      att : 0 .. MaxAttempts]
<1> call[c] \in States
  BY DEF TypeOK
<1> 1 \in 0 .. MaxAttempts /\ 0 \in 0 .. MaxAttempts
  OBVIOUS
<1>3. \E x \in States : call' = [call EXCEPT ![c] = x] /\ (pc # "tools" => x.att = 0)
  <2>1. CASE run_single_tool(c)
    <3>1. [st |-> "running", att |-> 1] \in States
      OBVIOUS
    <3> QED
      BY <2>1, <3>1 DEF run_single_tool
  <2>2. CASE tool_ends(c)
    <3> DEFINE End(o) ==
                 IF pc # "tools" THEN [st |-> "idle", att |-> 0]
                 ELSE IF retry_operation(c, o) THEN [call[c] EXCEPT !.att = call[c].att + 1]
                 ELSE [call[c] EXCEPT !.st = IF o = "transient" THEN "failed" ELSE o]
    <3>1. (IF cfg.kind = "agent" THEN execute ELSE execute_tool_call)
            \subseteq {"raised", "ok", "failed", "transient", "denied"}
      BY DEF execute, execute_tool_call, authorize, handler_result
    <3>2. PICK o \in IF cfg.kind = "agent" THEN execute ELSE execute_tool_call :
            call' = [call EXCEPT ![c] = End(o)]
      BY <2>2, Zenon DEF tool_ends
    <3>3. retry_operation(c, o) => call[c].att + 1 \in 0 .. MaxAttempts
      BY DEF retry_operation
    <3>4. End(o) \in States /\ (pc # "tools" => End(o).att = 0)
      BY <3>1, <3>3
    <3> QED
      BY <3>2, <3>4
  <2> QED
    BY <2>1, <2>2 DEF Tool
<1>4. PICK x \in States : call' = [call EXCEPT ![c] = x] /\ (pc # "tools" => x.att = 0)
  BY <1>3
<1>5. TypeOK' /\ (pc \in PCs)' /\ Budgets' /\ StatusFits' /\ Conversation'
  BY <1>1, <1>4 DEF TypeOK, Budgets, StatusFits, Conversation
<1>6. pc = "tools" => c \in plan.calls
  BY <1>2 DEF Judged
<1>7. pc \notin {"start", "loop", "plan", "dispatch"}
  BY <1>2 DEF Judged
<1>8. Judged'
  BY <1>1, <1>4, <1>6, <1>7 DEF Judged, TypeOK
<1>9. FlaggedNeedsApproval'
  BY <1>1, <1>4, <1>6 DEF FlaggedNeedsApproval, Judged, TypeOK
<1> QED
  BY <1>5, <1>8, <1>9

\* The results answer every open call, failed ones too.
LEMMA ResultsInv ==
    ASSUME IInv, results_in \/ gather_raises \/ tool_loop_denied \/ next_iteration \/ cancel_task
    PROVE  IInv'
<1> USE AgentAssumption, IdleCalls DEF IInv, TypeOK, PCs, Statuses, Moved, Budgets, StatusFits,
        Conversation, Judged, FlaggedNeedsApproval
<1>1. CASE results_in
  BY <1>1 DEF results_in, record_tool_results
<1>2. CASE gather_raises
  BY <1>2 DEF gather_raises
<1>3. CASE tool_loop_denied
  BY <1>3 DEF tool_loop_denied
<1>4. CASE next_iteration
  BY <1>4 DEF next_iteration, NoPlan, Texts
<1>5. CASE cancel_task
  BY <1>5 DEF cancel_task
<1> QED
  BY <1>1, <1>2, <1>3, <1>4, <1>5

\* A reflection is counted in the state, and its retry goes back to the policy.
LEMMA ReflectInv ==
    ASSUME IInv, maybe_reflect \/ reflect_on_resume
    PROVE  IInv'
<1> USE AgentAssumption, IdleCalls DEF IInv, TypeOK, PCs
<1>1. /\ pc \in {"reflect", "resumed"} /\ call' = Idle
      /\ UNCHANGED <<cfg, open, pad, events, reader, granted>>
  BY DEF maybe_reflect, reflect_on_resume
<1>2. /\ plan' \in [calls : SUBSET Calls, text : Texts, retry : BOOLEAN]
      /\ plan'.calls = plan.calls
      /\ pc' \in {"again", "dispatch", "final"}
  BY DEF maybe_reflect, reflect_on_resume
<1>3. \/ ex' = ex /\ spent' = spent /\ pc' = "again"
      \/ /\ ex.refl < MaxRefl
         /\ ex' = [ex EXCEPT !.status = "executing", !.refl = @ + 1]
         /\ spent' = [spent EXCEPT !.refls = @ + 1]
      \/ /\ ex.refl < MaxRefl
         /\ ex' = [ex EXCEPT !.status = "planning", !.refl = @ + 1]
         /\ spent' = [spent EXCEPT !.refls = @ + 1]
         /\ pc' = "again"
  BY DEF maybe_reflect, reflect_on_resume, reflection_due
<1>4. /\ ex' \in [status : Statuses, iter : 0 .. MaxIter, refl : 0 .. MaxRefl]
      /\ ex'.status = "executing" \/ (ex'.status = "planning" /\ pc' = "again")
      /\ ex'.iter = ex.iter /\ spent'.plans = spent.plans /\ spent'.refls = ex'.refl
      /\ spent' \in [plans : Nat, refls : Nat, resumes : Nat]
  <2>1. /\ ex \in [status : Statuses, iter : 0 .. MaxIter, refl : 0 .. MaxRefl]
        /\ ex.status = "executing" /\ spent \in [plans : Nat, refls : Nat, resumes : Nat]
        /\ spent.refls = ex.refl
    BY <1>1 DEF Budgets, StatusFits
  <2>2. ASSUME NEW to \in {"executing", "planning"}, ex.refl < MaxRefl,
               ex' = [ex EXCEPT !.status = to, !.refl = @ + 1],
               spent' = [spent EXCEPT !.refls = @ + 1]
        PROVE  /\ ex' \in [status : Statuses, iter : 0 .. MaxIter, refl : 0 .. MaxRefl]
               /\ ex'.status = to /\ ex'.iter = ex.iter
               /\ spent'.plans = spent.plans /\ spent'.refls = ex'.refl
               /\ spent' \in [plans : Nat, refls : Nat, resumes : Nat]
    <3>1. ex.refl + 1 \in 0 .. MaxRefl
      BY <2>1, <2>2
    <3>2. ex' = [status |-> to, iter |-> ex.iter, refl |-> ex.refl + 1]
      BY <2>1, <2>2
    <3>3. spent' = [plans |-> spent.plans, refls |-> spent.refls + 1, resumes |-> spent.resumes]
      BY <2>1, <2>2
    <3> QED
      BY <2>1, <3>1, <3>2, <3>3 DEF Statuses
  <2> QED
    BY <1>3, <2>1, <2>2
<1>5. TypeOK' /\ (pc \in PCs)'
  BY <1>1, <1>2, <1>4
<1>6. Budgets' /\ StatusFits' /\ Conversation'
  BY <1>1, <1>2, <1>4 DEF Budgets, StatusFits, Conversation
<1>7. Judged' /\ FlaggedNeedsApproval'
  BY <1>1, <1>2, <1>4 DEF Judged, FlaggedNeedsApproval
<1> QED
  BY <1>5, <1>6, <1>7

\* A resumption runs what the human saw, and goes on with the budgets of the snapshot; one that
\* is abandoned leaves the snapshot as it is.
LEMMA ResumeInv ==
    ASSUME IInv, resume_from_approval
    PROVE  IInv'
<1> USE AgentAssumption, IdleCalls DEF IInv, TypeOK, PCs
<1>1. /\ pc \in {"ended", "abandoned"} /\ ex.status = "waiting_approval"
      /\ spent' = [spent EXCEPT !.resumes = @ + 1]
      /\ granted' = granted \cup plan.calls
      /\ pad' = TRUE /\ reader' \in {"none", "reading"}
      /\ UNCHANGED <<cfg, plan>>
  BY DEF resume_from_approval
<1>2. CASE pc' = "abandoned"
  <2>1. call' = Idle /\ UNCHANGED <<ex, open>>
    BY <1>2 DEF resume_from_approval
  <2>2. TypeOK' /\ (pc \in PCs)'
    BY <1>1, <1>2, <2>1
  <2>3. Budgets' /\ StatusFits' /\ Conversation'
    BY <1>1, <1>2, <2>1 DEF Budgets, StatusFits, Conversation
  <2>4. Judged' /\ FlaggedNeedsApproval'
    BY <1>1, <1>2, <2>1 DEF Judged, FlaggedNeedsApproval
  <2> QED
    BY <2>2, <2>3, <2>4
<1>3. CASE pc' # "abandoned"
  <2>1. /\ pc' = "resumed" /\ open' = open \ plan.calls
        /\ ex' = [ex EXCEPT !.status = "executing"]
    BY <1>3 DEF resume_from_approval, Restored
  <2>2. PICK out \in [plan.calls -> {"ok", "failed", "denied"}] :
          call' = [c \in Calls |-> IF c \in plan.calls THEN [st |-> out[c], att |-> 1] ELSE Idle[c]]
    BY <1>3 DEF resume_from_approval
  <2>3. /\ call' \in [Calls -> [st : {"idle", "ok", "failed", "denied"}, att : {0, 1}]]
        /\ \A c \in Calls : call'[c].att > 0 => c \in plan.calls
    BY <2>2
  <2>4. TypeOK' /\ (pc \in PCs)'
    BY <1>1, <2>1, <2>3 DEF Statuses
  <2>5. Budgets' /\ StatusFits' /\ Conversation'
    BY <1>1, <2>1 DEF Budgets, StatusFits, Conversation
  <2>6. Judged' /\ FlaggedNeedsApproval'
    BY <1>1, <2>1, <2>3 DEF Judged, FlaggedNeedsApproval
  <2> QED
    BY <2>4, <2>5, <2>6
<1> QED
  BY <1>2, <1>3

\* Every step keeps the invariant.
LEMMA NextInv == IInv /\ [Next]_vars => IInv'
<1> SUFFICES ASSUME IInv, [Next]_vars PROVE IInv'
  OBVIOUS
<1>1. CASE UNCHANGED vars
  BY <1>1 DEF vars, IInv, TypeOK, Budgets, StatusFits, Conversation, Judged, FlaggedNeedsApproval
<1>2. CASE Step
  BY <1>2, LoopInv, PlanInv, DispatchInv, PauseInv, ResultsInv, ReflectInv DEF Step
<1> QED
  BY <1>1, <1>2, LoopInv, ToolInv, ResumeInv DEF Next

\* The inductive invariant holds of every behaviour.
LEMMA AgentInv == Spec => []IInv
BY InitInv, NextInv, PTL DEF Spec

\* With approvals enabled no flagged call is ever attempted that a human has not approved, and no
\* rejected one at all, in retried plans, beside other calls and after any number of resumptions.
THEOREM ApprovalBeforeAttempt == Spec => []FlaggedNeedsApproval
<1>1. IInv => FlaggedNeedsApproval
  BY DEF IInv
<1> QED
  BY <1>1, AgentInv, PTL

\* The iterations and reflections of a whole execution, resumptions included, stay within the
\* configured budgets, and the state keeps its type.
THEOREM BudgetsAlwaysHold == Spec => []BudgetsHold
<1>1. IInv => BudgetsHold
  BY AgentAssumption DEF IInv, TypeOK, Budgets, BudgetsHold
<1> QED
  BY <1>1, AgentInv, PTL

\* No model is ever asked about a conversation with a call that no tool message answers.
THEOREM ConversationAlwaysAnswered == Spec => []ConversationAnswered
<1>1. IInv => ConversationAnswered
  BY DEF IInv, Conversation, ConversationAnswered
<1> QED
  BY <1>1, AgentInv, PTL

\* Every transition that the code makes where the run is.
LegalWhereItIs ==
    /\ pc \in {"start", "again"} /\ ex.status # "planning" => Legal(<<ex.status, "planning">>)
    /\ pc \in {"loop", "plan"} => Legal(<<ex.status, "executing">>)
    /\ pc = "pause" => Legal(<<ex.status, "waiting_approval">>)
    /\ pc \in {"reflect", "resumed"} =>
         \A to \in {"executing", "planning"} : Legal(<<ex.status, "reflecting", to>>)
    /\ pc \in {"final", "limit"} => Legal(<<ex.status, "completed">>)
    /\ pc = "ended" /\ ex.status = "waiting_approval" => Legal(<<ex.status, "planning", "executing">>)

\* AgentStateManager.transition never raises: whatever the model, the tools and the human do, the
\* status a run has come to allows the transition that the code makes next.
THEOREM TransitionsAreLegal == Spec => []LegalWhereItIs
<1>1. ASSUME NEW from, NEW to, to \in VALID_TRANSITIONS[from] PROVE Legal(<<from, to>>)
  <2> DEFINE p == <<from, to>>
  <2>1. Len(p) = 2 /\ p[1] = from /\ p[2] = to
    OBVIOUS
  <2> HIDE DEF p
  <2>2. \A i \in 1 .. Len(p) - 1 : i = 1
    BY <2>1
  <2>3. Legal(p)
    BY <1>1, <2>1, <2>2 DEF Legal
  <2> QED
    BY <2>3 DEF p
<1>2. ASSUME NEW from, NEW over, NEW to,
             over \in VALID_TRANSITIONS[from], to \in VALID_TRANSITIONS[over]
      PROVE  Legal(<<from, over, to>>)
  <2> DEFINE p == <<from, over, to>>
  <2>1. Len(p) = 3 /\ p[1] = from /\ p[2] = over /\ p[3] = to
    OBVIOUS
  <2> HIDE DEF p
  <2>2. \A i \in 1 .. Len(p) - 1 : i = 1 \/ i = 2
    BY <2>1
  <2>3. Legal(p)
    BY <1>2, <2>1, <2>2 DEF Legal
  <2> QED
    BY <2>3 DEF p
<1>3. /\ "planning" \in VALID_TRANSITIONS["created"] /\ "executing" \in VALID_TRANSITIONS["planning"]
      /\ {"planning", "reflecting", "waiting_approval", "completed"} \subseteq VALID_TRANSITIONS["executing"]
      /\ {"executing", "planning"} \subseteq VALID_TRANSITIONS["reflecting"]
      /\ "planning" \in VALID_TRANSITIONS["waiting_approval"]
  BY DEF VALID_TRANSITIONS
<1>4. IInv => LegalWhereItIs
  BY <1>1, <1>2, <1>3 DEF IInv, StatusFits, LegalWhereItIs
<1> QED
  BY <1>4, AgentInv, PTL
=============================================================================
