---------------------------- MODULE AgentApproval ----------------------------
(***************************************************************************)
(* AgentApprovalService and AgentToolApprovalStore: one paused agent tool  *)
(* call, the requests that read, revise, decide or cancel it, and the two  *)
(* background sweeps that expire it or resume it after a crash.            *)
(*                                                                         *)
(* Every request or sweep is a database transaction (READ COMMITTED): its  *)
(* plain SELECTs see the committed row, its first write locks the row      *)
(* until the transaction ends, a statement that meets a locked row waits   *)
(* and then tests its WHERE clause again.  The decider's transaction stays *)
(* open while the approved calls run and the agent continues.  Approvals   *)
(* are rows of their own, so one is modelled.                              *)
(***************************************************************************)
EXTENDS Naturals, Sequences

CONSTANTS Clients,         \* slots for HTTP requests about the approval
          Sweepers,        \* runs of hitl_orphaned_snapshot_sweep
          Expirer,         \* the run of hitl_approval_expiry_sweep
          NoTxn,           \* no transaction holds the row lock
          Stages,          \* required_stages
          Proposed,        \* proposed_calls
          Edits,           \* the valid edited_calls a caller may send
          NoEdit,          \* edited_calls is null
          MaxAttempts,     \* max_attempts of the sweep job
          BackgroundJobs,  \* settings.background_jobs_enabled
          Faults,          \* which of "raise" and "disconnect" may happen
          MaxRequests,     \* bound: requests started
          MaxCrashes       \* bound: transactions lost with their process

Stage == {Stages[i] : i \in DOMAIN Stages}
\* What may be executed: the proposed calls, or an edit _validate_edited_calls accepts.
Payloads == Edits \cup {Proposed}
Txns == Clients \cup Sweepers \cup {Expirer}

ASSUME ApprovalAssumption ==
  /\ Stages \in Seq(Stage)
  /\ NoEdit \notin Payloads
  /\ NoTxn \notin Txns
  /\ Expirer \notin Clients \cup Sweepers
  /\ Clients \cap Sweepers = {}
  /\ MaxAttempts \in Nat \ {0}
  /\ BackgroundJobs \in BOOLEAN /\ Faults \subseteq {"raise", "disconnect"}
  /\ MaxRequests \in Nat /\ MaxCrashes \in Nat

VARIABLES row,       \* the committed agent_tool_approvals row and its message
          draft,     \* the row as the lock holder has written it
          lock,      \* the transaction that holds the row lock
          txn,       \* what each transaction is doing
          attempt,   \* attempt_count of each sweep job
          due,       \* expires_at <= now()
          grace,     \* decided_at < now() - grace
          execs,     \* history: how often the calls were executed
          started, crashes

vars == <<row, draft, lock, txn, attempt, due, grace, execs,
          started, crashes>>
dbvars == <<row, draft, lock>>
timevars == <<due, grace>>
counts == <<attempt, execs, started, crashes>>

Terminal == {"approved", "rejected", "expired", "cancelled"}

\* message is the status of the placeholder chat message; runs is a history
\* variable: the payloads executed by transactions that then committed.
Row == [status : Terminal \cup {"absent", "pending"}, decisions : Seq(Stage),
        edited : Edits \cup {NoEdit}, revisions : Nat, snapshot : BOOLEAN,
        message : {"none", "waiting_approval", "rejected", "stopped",
                   "expired", "complete", "error"},
        runs : Seq(Payloads)]

Op == {"none", "get", "revise", "reject", "stage", "approve", "cancel",
       "expire", "resume"}
PC == {"idle", "expire", "reread", "write", "execute", "continue", "commit",
       "raise"}

\* seen is the row last read, edit the edited_calls of the request.
Txn == [op : Op, pc : PC, seen : Row, edit : Edits \cup {NoEdit}]

Absent == [status |-> "absent", decisions |-> <<>>, edited |-> NoEdit,
           revisions |-> 0, snapshot |-> FALSE, message |-> "none",
           runs |-> <<>>]
Idle == [op |-> "none", pc |-> "idle", seen |-> Absent, edit |-> NoEdit]

TypeOK ==
  /\ row \in Row /\ draft \in Row
  /\ lock \in Txns \cup {NoTxn}
  /\ txn \in [Txns -> Txn]
  /\ attempt \in [Sweepers -> 1..MaxAttempts]
  /\ due \in BOOLEAN /\ grace \in BOOLEAN
  /\ execs \in Nat
  /\ started \in Nat /\ crashes \in Nat

-----------------------------------------------------------------------------
\* The checklist of required stages, as read from q.
Remaining(q) == Len(Stages) - Len(q.decisions)
HasOutstanding(q) == Len(q.decisions) < Len(Stages)
IsFinal(q) == Len(q.decisions) + 1 = Len(Stages)
CurrentStage(q) == Stages[Len(q.decisions) + 1]

final_payload(q) == IF q.edited = NoEdit THEN Proposed ELSE q.edited

Init ==
  /\ row = Absent /\ draft = Absent
  /\ lock = NoTxn
  /\ txn = [t \in Txns |-> Idle]
  /\ attempt = [s \in Sweepers |-> 1]
  /\ due = FALSE /\ grace = FALSE
  /\ execs = 0
  /\ started = 0 /\ crashes = 0

\* The agent turn reaches a gated call: it stores the snapshot and the
\* placeholder message and commits.
Paused == [Absent EXCEPT !.status = "pending", !.snapshot = TRUE,
                         !.message = "waiting_approval"]

pause ==
  /\ row.status = "absent"
  /\ row' = Paused /\ draft' = Paused
  /\ UNCHANGED <<lock, txn, attempt, due, grace, execs, started, crashes>>

\* The deadline and the grace period pass.
DeadlinePasses ==
  /\ row.status # "absent" /\ ~due
  /\ due' = TRUE
  /\ UNCHANGED <<dbvars, txn, grace, counts>>

GracePasses ==
  /\ "approved" \in {row.status, draft.status} /\ ~grace
  /\ grace' = TRUE
  /\ UNCHANGED <<dbvars, txn, due, counts>>

-----------------------------------------------------------------------------
Goto(t, pc) == txn' = [txn EXCEPT ![t].pc = pc]
Finish(t) == txn' = [txn EXCEPT ![t] = Idle]

\* t's first write: q is the row it writes.
Hold(t, q, pc) ==
  /\ lock = NoTxn
  /\ lock' = t /\ draft' = q
  /\ Goto(t, pc)
  /\ UNCHANGED row

\* A compare-and-swap that requires a pending row; a miss ends the request.
Cas(t, q, pc) ==
  \/ row.status = "pending" /\ Hold(t, q, pc)
  \/ /\ row.status # "pending" /\ lock = NoTxn
     /\ Finish(t)
     /\ UNCHANGED dbvars

\* The first read of a request.  now() is the start of the transaction, so
\* only this read can find the deadline passed.  The router sends an approval
\* with several stages left to record_stage_approval, which reads again, as
\* approve_and_resume does.
Begin(c, op, edit) ==
  /\ txn[c].pc = "idle"
  /\ started < MaxRequests
  /\ row.status # "absent"
  /\ op \in {"approve", "stage"} => row.status = "pending"
  /\ op = "stage" => Remaining(row) > 1
  /\ op = "approve" => Remaining(row) <= 1
  /\ row.status # "expired"
  /\ txn' = [txn EXCEPT ![c] =
       [op |-> op, seen |-> row, edit |-> edit,
        pc |-> IF row.status = "pending" /\ due THEN "expire"
               ELSE IF op \in {"stage", "approve"} THEN "reread"
               ELSE "write"]]
  /\ started' = started + 1
  /\ UNCHANGED <<dbvars, timevars, attempt, execs, crashes>>

\* Any other read leaves the row as it is.
get(c) == due /\ row.status = "pending" /\ Begin(c, "get", NoEdit)
revise(c) == \E e \in Edits : Begin(c, "revise", e)
reject(c) == Begin(c, "reject", NoEdit)
cancel(c) == Begin(c, "cancel", NoEdit)
decide_stage(c) == Begin(c, "stage", NoEdit)
decide_approve(c) == \E e \in Edits \cup {NoEdit} : Begin(c, "approve", e)

Expired(q) == [q EXCEPT !.status = "expired"]

\* The lazy expiry of get_for_owner.  Every caller but the plain read turns
\* it into ApprovalExpiredError.
expire_if_due(c) ==
  /\ txn[c].pc = "expire"
  /\ \/ /\ row.status = "pending"
        /\ Hold(c, Expired(row),
                IF txn[c].op = "get" THEN "commit" ELSE "raise")
     \/ /\ row.status # "pending" /\ lock = NoTxn
        /\ IF txn[c].op = "get" THEN Finish(c)
           ELSE Goto(c, IF txn[c].op \in {"stage", "approve"} THEN "reread" ELSE "write")
        /\ UNCHANGED dbvars
  /\ UNCHANGED <<timevars, attempt, execs, started, crashes>>

\* Whether the service goes on after its own read q of the approval.
Proceeds(op, q) ==
  /\ q.status # "expired"
  /\ op = "stage" => HasOutstanding(q) /\ ~IsFinal(q)
  /\ op = "approve" => (HasOutstanding(q) => IsFinal(q))

resolve_approval_for_decider(c) ==
  /\ txn[c].pc = "reread"
  /\ \/ /\ Proceeds(txn[c].op, row)
        /\ txn' = [txn EXCEPT ![c].pc = "write", ![c].seen = row]
     \/ /\ ~Proceeds(txn[c].op, row)
        /\ Finish(c)
  /\ UNCHANGED <<dbvars, timevars, counts>>

\* append_stage_decision appends the stage that was current in seen, the row
\* the service read, to the row q as it is now.
Staged(q, seen) == [q EXCEPT !.decisions = Append(@, CurrentStage(seen))]

\* append_revision numbers the revisions under the lock of the approval's row.
append_revision(revisions) == revisions + 1

\* cas_revise and append_revision.
Revised(q, edit) == [q EXCEPT !.edited = edit, !.revisions = append_revision(@)]

\* cas_decide, after append_stage_decision when stages were outstanding.
Decided(q, seen, status) ==
  [(IF HasOutstanding(seen) THEN Staged(q, seen) ELSE q) EXCEPT !.status = status]

\* The decider may edit the calls in the same statement.
Approved(q, seen, edit) ==
  IF edit = NoEdit THEN Decided(q, seen, "approved")
                   ELSE Revised(Decided(q, seen, "approved"), edit)

Rejected(q, seen) == [Decided(q, seen, "rejected") EXCEPT !.message = "rejected"]

Cancelled(q) == [q EXCEPT !.status = "cancelled", !.message = "stopped"]

cas_revise(c) ==
  /\ txn[c].pc = "write" /\ txn[c].op = "revise"
  /\ Cas(c, Revised(row, txn[c].edit), "commit")
  /\ UNCHANGED <<timevars, counts>>

cas_cancel(c) ==
  /\ txn[c].pc = "write" /\ txn[c].op = "cancel"
  /\ Cas(c, Cancelled(row), "commit")
  /\ UNCHANGED <<timevars, counts>>

decide_rejected(c) ==
  /\ txn[c].pc = "write" /\ txn[c].op = "reject"
  /\ Cas(c, Rejected(row, txn[c].seen), "commit")
  /\ UNCHANGED <<timevars, counts>>

record_stage_approval(c) ==
  /\ txn[c].pc = "write" /\ txn[c].op = "stage"
  /\ Cas(c, Staged(row, txn[c].seen), "commit")
  /\ UNCHANGED <<timevars, counts>>

\* decided_at is set: the grace period of the orphan sweep starts.
approve_and_resume(c) ==
  /\ txn[c].pc = "write" /\ txn[c].op = "approve"
  /\ Cas(c, Approved(row, txn[c].seen, txn[c].edit), "execute")
  /\ grace' = (grace /\ row.status # "pending")
  /\ UNCHANGED <<due, counts>>

-----------------------------------------------------------------------------
\* Faulty: a sweep whose first attempt failed is not tried again.
list_orphaned_approved_snapshots_NoRetry(s) ==
  /\ BackgroundJobs
  /\ txn[s].pc = "idle" /\ attempt[s] = 1
  /\ row.status = "approved" /\ row.snapshot /\ grace
  /\ txn' = [txn EXCEPT ![s] = [Idle EXCEPT !.op = "resume", !.pc = "write"]]
  /\ UNCHANGED <<dbvars, timevars, counts>>

\* The orphan sweep lists approved rows that still have a snapshot, then
\* claims one in a transaction of its own.
list_orphaned_approved_snapshots(s) ==
  /\ BackgroundJobs
  /\ txn[s].pc = "idle"
  /\ row.status = "approved" /\ row.snapshot /\ grace
  /\ txn' = [txn EXCEPT ![s] = [Idle EXCEPT !.op = "resume", !.pc = "write"]]
  /\ UNCHANGED <<dbvars, timevars, counts>>

Claimed(q) == [q EXCEPT !.snapshot = FALSE]

\* Faulty: the snapshot is read without FOR UPDATE and cleared at the end.
claim_pause_snapshot_NoLock(s) ==
  /\ txn[s].pc = "write"
  /\ row.status = "approved" /\ row.snapshot
  /\ draft' = Claimed(row)
  /\ Goto(s, "execute")
  /\ UNCHANGED <<row, lock, timevars, counts>>

claim_pause_snapshot(s) ==
  /\ txn[s].pc = "write"
  /\ \/ /\ row.status = "approved" /\ row.snapshot
        /\ Hold(s, Claimed(row), "execute")
        /\ UNCHANGED attempt
     \/ /\ ~(row.status = "approved" /\ row.snapshot) /\ lock = NoTxn
        /\ Finish(s)
        /\ attempt' = [attempt EXCEPT ![s] = 1]
        /\ UNCHANGED dbvars
  /\ UNCHANGED <<timevars, execs, started, crashes>>

\* The expiry sweep lists pending rows past the timeout and expires one.
list_pending_past_timeout_hours ==
  /\ BackgroundJobs
  /\ txn[Expirer].pc = "idle"
  /\ row.status = "pending" /\ due
  /\ txn' = [txn EXCEPT ![Expirer] = [Idle EXCEPT !.op = "expire", !.pc = "write"]]
  /\ UNCHANGED <<dbvars, timevars, counts>>

SweptOut(q) ==
  [q EXCEPT !.status = "expired", !.snapshot = FALSE, !.message = "expired"]

\* Faulty: the row listed as pending is expired without comparing its status.
cas_expire_pending_sweep_NoCompare ==
  /\ txn[Expirer].pc = "write"
  /\ Hold(Expirer, SweptOut(row), "commit")
  /\ UNCHANGED <<timevars, counts>>

cas_expire_pending_sweep ==
  /\ txn[Expirer].pc = "write"
  /\ Cas(Expirer, SweptOut(row), "commit")
  /\ UNCHANGED <<timevars, counts>>

-----------------------------------------------------------------------------
Executed(q) == [q EXCEPT !.runs = Append(@, final_payload(q))]
WithMessage(q, m) == [q EXCEPT !.message = m]

\* The approved calls run through the tool executor, which reports a failing
\* tool in its result.
execute_approved_calls(t) ==
  /\ txn[t].pc = "execute"
  /\ execs' = execs + 1
  /\ draft' = Executed(draft)
  /\ Goto(t, "continue")
  /\ UNCHANGED <<row, lock, timevars, attempt, started, crashes>>

\* resume_from_approval ends and the placeholder message is updated.
ContinuationEnds(t) ==
  /\ txn[t].pc = "continue"
  /\ \E m \in {"complete", "error"} : draft' = WithMessage(draft, m)
  /\ Goto(t, "commit")
  /\ UNCHANGED <<row, lock, timevars, counts>>

\* fail_safe_on_error
FailSafe(s) == attempt[s] >= MaxAttempts

\* The tool executor raises before it runs a call, over a quota or a rate limit,
\* or resume_from_approval does.  The placeholder is marked in the transaction in
\* any case; only the last attempt of a sweep then swallows the exception.
ContinuationRaises(t) ==
  /\ "raise" \in Faults
  /\ txn[t].pc \in {"execute", "continue"}
  /\ draft' = WithMessage(draft, "error")
  /\ Goto(t, IF t \in Sweepers /\ FailSafe(t) THEN "commit" ELSE "raise")
  /\ UNCHANGED <<row, lock, timevars, counts>>

\* The transaction of t ends with the committed row q.
End(t, q) ==
  /\ row' = q /\ draft' = q
  /\ lock' = NoTxn
  /\ Finish(t)

\* A failed attempt of the sweep job is retried; one that completes, or was
\* the last one, is followed by a new job.
NextAttempt(s) == IF FailSafe(s) THEN 1 ELSE attempt[s] + 1

Commit(t) ==
  /\ txn[t].pc = "commit"
  /\ End(t, draft)
  /\ attempt' = [s \in Sweepers |-> IF s = t THEN 1 ELSE attempt[s]]
  /\ UNCHANGED <<timevars, execs, started, crashes>>

\* get_db_session rolls back on any exception that leaves the handler, and
\* the sweep's session on any that leaves its block.
Rollback(t) ==
  /\ txn[t].pc = "raise"
  /\ End(t, row)
  /\ attempt' = [s \in Sweepers |-> IF s = t THEN NextAttempt(s) ELSE attempt[s]]
  /\ UNCHANGED <<timevars, execs, started, crashes>>

\* The client leaves while its stream is open: the task is cancelled, and the
\* session dependency commits what was written or, if the cancellation broke
\* a database call, rolls it back.
Disconnect(c) ==
  /\ "disconnect" \in Faults
  /\ txn[c].pc \in {"execute", "continue"}
  /\ \E q \in {row, draft} : End(c, q)
  /\ UNCHANGED <<timevars, counts>>

\* The process of t dies: its transaction is lost.
Crash(t) ==
  /\ txn[t].pc # "idle"
  /\ crashes < MaxCrashes
  /\ crashes' = crashes + 1
  /\ Finish(t)
  /\ IF lock = t THEN lock' = NoTxn /\ draft' = row ELSE UNCHANGED <<lock, draft>>
  /\ attempt' = [s \in Sweepers |-> IF s = t THEN NextAttempt(s) ELSE attempt[s]]
  /\ UNCHANGED <<row, timevars, execs, started>>

-----------------------------------------------------------------------------
ClientNext(c) ==
  \/ get(c) \/ revise(c) \/ reject(c) \/ cancel(c) \/ decide_stage(c) \/ decide_approve(c)
  \/ expire_if_due(c) \/ resolve_approval_for_decider(c)
  \/ cas_revise(c) \/ cas_cancel(c) \/ decide_rejected(c)
  \/ record_stage_approval(c) \/ approve_and_resume(c)
  \/ Disconnect(c)

SweeperNext(s) == list_orphaned_approved_snapshots(s) \/ claim_pause_snapshot(s)

ExpirerNext == list_pending_past_timeout_hours \/ cas_expire_pending_sweep

TxnNext(t) ==
  \/ execute_approved_calls(t) \/ ContinuationEnds(t) \/ ContinuationRaises(t)
  \/ Commit(t) \/ Rollback(t) \/ Crash(t)

Next ==
  \/ pause \/ DeadlinePasses \/ GracePasses
  \/ \E c \in Clients : ClientNext(c)
  \/ \E s \in Sweepers : SweeperNext(s)
  \/ ExpirerNext
  \/ \E t \in Txns : TxnNext(t)

Spec == Init /\ [][Next]_vars

\* A started transaction is run to its end, the scheduler keeps enqueueing the
\* orphan sweep, and time passes.
Running(t) ==
  \/ t \in Clients /\ (\/ expire_if_due(t) \/ resolve_approval_for_decider(t)
                      \/ cas_revise(t) \/ cas_cancel(t) \/ decide_rejected(t)
                      \/ record_stage_approval(t) \/ approve_and_resume(t))
  \/ t \in Sweepers /\ SweeperNext(t)
  \/ t = Expirer /\ cas_expire_pending_sweep
  \/ execute_approved_calls(t) \/ ContinuationEnds(t) \/ ContinuationRaises(t)
  \/ Commit(t) \/ Rollback(t)

Fairness == /\ \A t \in Txns : WF_vars(Running(t))
            /\ WF_vars(GracePasses)

LiveSpec == Spec /\ Fairness

-----------------------------------------------------------------------------
(* Properties *)

\* A terminal status is never overwritten once it is committed, whichever of
\* the racing requests and sweeps waited for the row lock.
TerminalIsFinal ==
  [][row.status \in Terminal => row'.status = row.status]_row

\* The calls of an approval that was committed as rejected, cancelled or
\* expired are not executed from then on, neither by a decider that had read
\* it pending nor by the orphan sweep.
RefusedNeverRuns ==
  [][row.status \in {"rejected", "cancelled", "expired"} => execs' = execs]_execs

\* Whatever is executed by a transaction that commits is what the committed
\* approval records, edits included; it is executed at most once by the
\* decider and at most once by the orphan sweep.
CommittedRunsMatch ==
  /\ row.runs # <<>> => row.status = "approved"
  /\ \A i \in DOMAIN row.runs : row.runs[i] = final_payload(row)
  /\ Len(row.runs) <= IF row.snapshot THEN 1 ELSE 2

\* Two transactions never execute the calls at the same time: the decider and
\* every sweep keep the row locked while the tools run.
OneExecutor ==
  \A t, u \in Txns :
    txn[t].pc \in {"execute", "continue"} /\ txn[u].pc \in {"execute", "continue"}
      => t = u

\* An approval is not final before its checklist has an entry for each
\* required stage, although the stages are counted on a stale read.
ChecklistComplete == row.status = "approved" => Len(row.decisions) >= Len(Stages)

\* The placeholder message tells the chat user what became of the approval.
MessageFollows ==
  /\ row.status = "pending" => row.message = "waiting_approval"
  /\ row.status = "rejected" => row.message = "rejected"
  /\ row.status = "cancelled" => row.message = "stopped"
  /\ row.status = "approved" /\ row.message = "waiting_approval" => row.snapshot

\* What holds of the approval row at every moment: what was run, who runs it, who
\* decided it and what the chat user is told agree.
ApprovalSafe ==
  TypeOK /\ CommittedRunsMatch /\ OneExecutor /\ ChecklistComplete /\ MessageFollows

\* A committed decision stands, and a refusal keeps the calls from running.
DecisionStands == TerminalIsFinal /\ RefusedNeverRuns

\* A resume snapshot that outlives its grace period is eventually consumed by
\* the orphan sweep, by the fail-safe of its last attempt if need be.
OrphanResolved ==
  row.status = "approved" /\ row.snapshot ~> ~row.snapshot

=============================================================================
