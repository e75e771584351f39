------------------------------ MODULE JobQueue ------------------------------
(***************************************************************************)
(* The background_jobs table (PostgresJobQueue) and the JobWorker          *)
(* processes that poll it: claim with a lease, handler dispatch, settling  *)
(* by compare-and-swap on version, retry with backoff, dead-lettering,     *)
(* operator cancel and retry, retention.                                   *)
(*                                                                         *)
(* Every queue operation is one committed SQL transaction and is one       *)
(* action.  Between the claim and the settling transaction a job is only   *)
(* an in-memory copy in its worker (disp), and everything interleaves.     *)
(*                                                                         *)
(* Timestamps are kept relative to Postgres now(): 0 is now, -3 is three   *)
(* ticks ago, 2 is two ticks ahead.  Tick ages all of them and stops at    *)
(* the oldest value a query can tell apart, so that time is unbounded and  *)
(* the state space is not.                                                 *)
(***************************************************************************)
EXTENDS Integers, FiniteSets

CONSTANTS Jobs,             \* job ids (uuid4, never reused)
          Workers,          \* worker ids: one per process incarnation
          NoOne,            \* NULL in locked_by
          MaxAttempts,      \* background_jobs_default_max_attempts
          BatchSize,        \* background_jobs_worker_batch_size
          LeaseSeconds,     \* background_jobs_claim_lease_seconds
          HandlerTimeout,   \* background_jobs_handler_timeout_seconds
          DispatchSlack,    \* longest delay from claim to handler start
          BaseDelay,        \* background_jobs_retry_base_delay_seconds
          MaxDelay,         \* background_jobs_retry_max_delay_seconds
          RetentionAge,     \* background_jobs_retention_days
          MaxVersion        \* bound: no operator retry of a row past it

ASSUME QueueAssumption ==
  /\ NoOne \notin Workers
  /\ MaxAttempts \in Nat \ {0}
  /\ BatchSize \in Nat \ {0}
  /\ LeaseSeconds \in Nat \ {0}
  /\ HandlerTimeout \in Nat \ {0}
  /\ DispatchSlack \in Nat
  /\ BaseDelay \in Nat
  /\ MaxDelay \in Nat
  /\ RetentionAge \in Nat
  /\ MaxVersion \in Nat

\* validate_background_jobs_requirements demands timeout < lease; the margin it
\* leaves must also cover the time the event loop takes to start the handler.
ASSUME LeaseAssumption == DispatchSlack + HandlerTimeout <= LeaseSeconds

VARIABLES row,       \* the background_jobs table
          wstate,    \* where each worker's run_forever loop is
          shutdown,  \* JobWorker._shutdown
          disp       \* the jobs each worker has claimed and not yet settled

vars == <<row, wstate, shutdown, disp>>

-----------------------------------------------------------------------------
(* Types *)

Settled == {"succeeded", "dead_letter", "cancelled"}

\* "absent" is a row not inserted yet, "deleted" one that retention removed.
Status == {"absent", "queued", "running", "deleted"} \cup Settled

\* locked_at and finished_at are 0 when NULL; they are read only in the
\* statuses that set them.
JobRow == [status : Status, attempt_count : Nat, version : Nat, run_at : Int,
           locked_by : Workers \cup {NoOne}, locked_at : Int, finished_at : Int]

Outcome == {"ok", "error", "nonretryable"}

\* since is when the phase began, retry_at the backoff computed on failure.
Dispatch == [phase : {"none", "claimed", "handling", "returned"},
             version : Nat, attempt_count : Nat, since : Int,
             outcome : Outcome, retry_at : Int]

NoDispatch == [phase |-> "none", version |-> 0, attempt_count |-> 0,
               since |-> 0, outcome |-> "ok", retry_at |-> 0]

TypeOK ==
  /\ row \in [Jobs -> JobRow]
  /\ wstate \in [Workers -> {"idle", "claiming", "busy", "stopped"}]
  /\ shutdown \in [Workers -> BOOLEAN]
  /\ disp \in [Workers -> [Jobs -> Dispatch]]

-----------------------------------------------------------------------------
(* Helpers *)

Older(t, floor) == IF t > floor THEN t - 1 ELSE t

Min2(a, b) == IF a < b THEN a ELSE b

compute_backoff_seconds(n) == Min2(BaseDelay * 2 ^ n, MaxDelay)

LeaseExpired(r) == r.status = "running" /\ r.locked_at < -LeaseSeconds

\* Faulty: no sweep of leases that ran out on the last attempt.
Exhausted_Never(r) == FALSE

\* Faulty: a running row is taken over without looking at its lease.
Due_NoLease(r) == \/ r.status = "queued" /\ r.run_at <= 0
                  \/ r.status = "running" /\ r.attempt_count < MaxAttempts

\* The two WHERE clauses of claim_due.
Exhausted(r) == LeaseExpired(r) /\ r.attempt_count >= MaxAttempts

Due(r) == \/ r.status = "queued" /\ r.run_at <= 0
          \/ LeaseExpired(r) /\ r.attempt_count < MaxAttempts

Unlocked(r) == [r EXCEPT !.locked_by = NoOne, !.locked_at = 0,
                         !.version = @ + 1]

DeadLettered(r) == [Unlocked(r) EXCEPT !.status = "dead_letter",
                                       !.finished_at = 0]

ClaimedBy(r, w) == [r EXCEPT !.status = "running", !.locked_by = w,
                             !.locked_at = 0, !.attempt_count = @ + 1,
                             !.version = @ + 1]

\* The copy of a claimed row that claim_due returns to the worker.
CopyOf(r) == [NoDispatch EXCEPT !.phase = "claimed", !.version = r.version,
                                !.attempt_count = r.attempt_count]

\* The row complete() or fail() writes for the copy d a worker holds.
SettledRow(r, d) ==
  CASE d.outcome = "ok" ->
         [Unlocked(r) EXCEPT !.status = "succeeded", !.finished_at = 0]
    [] d.outcome = "error" /\ d.attempt_count < MaxAttempts ->
         [Unlocked(r) EXCEPT !.status = "queued", !.run_at = d.retry_at]
    [] OTHER -> DeadLettered(r)

\* The compare-and-swap of _update_with_version.
HoldsClaim(r, d) == r.status = "running" /\ r.version = d.version

InFlight(w) == {j \in Jobs : disp[w][j].phase # "none"}

\* poll_once returns, and the loop goes round, when the last dispatch ends.
EndDispatch(w, j) ==
  /\ disp' = [disp EXCEPT ![w][j] = NoDispatch]
  /\ wstate' = [wstate EXCEPT ![w] = IF InFlight(w) = {j} THEN "idle" ELSE @]

-----------------------------------------------------------------------------
(* Queue operations called from request handlers and other jobs *)

NewRow(delay) == [status |-> "queued", attempt_count |-> 0, version |-> 1,
                  run_at |-> delay, locked_by |-> NoOne, locked_at |-> 0,
                  finished_at |-> 0]

AbsentRow == [NewRow(0) EXCEPT !.status = "absent", !.version = 0]

enqueue(j) ==
  /\ row[j].status = "absent"
  /\ \E delay \in 0 .. MaxDelay : row' = [row EXCEPT ![j] = NewRow(delay)]
  /\ UNCHANGED <<wstate, shutdown, disp>>

Cancelled(r) == [r EXCEPT !.status = "cancelled", !.finished_at = 0,
                          !.version = @ + 1]

\* A caller whose expected_version is stale, or whose row is not queued any
\* more, gets None and changes nothing.
cancel(j) ==
  /\ row[j].status = "queued"
  /\ row' = [row EXCEPT ![j] = Cancelled(@)]
  /\ UNCHANGED <<wstate, shutdown, disp>>

Revived(r) == [NewRow(0) EXCEPT !.version = r.version + 1]

\* Faulty: any settled job can be sent round again.
retry_dead_letter_Any(j) ==
  /\ row[j].status \in Settled
  /\ row[j].version < MaxVersion
  /\ row' = [row EXCEPT ![j] = Revived(@)]
  /\ UNCHANGED <<wstate, shutdown, disp>>

retry_dead_letter(j) ==
  /\ row[j].status = "dead_letter"
  /\ row[j].version < MaxVersion
  /\ row' = [row EXCEPT ![j] = Revived(@)]
  /\ UNCHANGED <<wstate, shutdown, disp>>

delete_background_jobs(j) ==
  /\ row[j].status \in Settled
  /\ row[j].finished_at < -RetentionAge
  /\ row' = [row EXCEPT ![j].status = "deleted"]
  /\ UNCHANGED <<wstate, shutdown, disp>>

-----------------------------------------------------------------------------
(* JobWorker *)

\* poll_once tests the shutdown flag and then awaits the claim transaction.
poll_once(w) ==
  /\ wstate[w] = "idle"
  /\ ~shutdown[w]
  /\ wstate' = [wstate EXCEPT ![w] = "claiming"]
  /\ UNCHANGED <<row, shutdown, disp>>

\* Every exhausted row is dead-lettered and up to BatchSize due rows are taken.
SweptAndClaimed(w, S) ==
  [j \in Jobs |-> IF Exhausted(row[j]) THEN DeadLettered(row[j])
                  ELSE IF j \in S THEN ClaimedBy(row[j], w)
                  ELSE row[j]]

ClaimSet(w, S) ==
  /\ wstate[w] = "claiming"
  /\ row' = SweptAndClaimed(w, S)
  /\ disp' = [disp EXCEPT ![w] =
                [j \in Jobs |-> IF j \in S THEN CopyOf(ClaimedBy(row[j], w))
                                ELSE disp[w][j]]]
  /\ wstate' = [wstate EXCEPT ![w] = IF S = {} THEN "idle" ELSE "busy"]
  /\ UNCHANGED shutdown

\* FOR UPDATE SKIP LOCKED may pass over any row, so any such set is claimable.
Claimable == {S \in SUBSET {j \in Jobs : Due(row[j])} : Cardinality(S) <= BatchSize}

claim_due(w) == \E S \in Claimable : ClaimSet(w, S)

\* Nothing in run_forever catches a database error: the loop task ends.  The
\* error may come from the depth counts that follow a committed sweep; the rows
\* that were claimed with it are then dropped.
claim_due_error(w) ==
  /\ wstate[w] = "claiming"
  /\ wstate' = [wstate EXCEPT ![w] = "stopped"]
  /\ \/ UNCHANGED row
     \/ /\ \E j \in Jobs : Exhausted(row[j])
        /\ \E S \in Claimable : row' = SweptAndClaimed(w, S)
  /\ UNCHANGED <<shutdown, disp>>

Started(d) == [d EXCEPT !.phase = "handling", !.since = 0]

dispatch(w, j) ==
  /\ disp[w][j].phase = "claimed"
  /\ disp' = [disp EXCEPT ![w][j] = Started(@)]
  /\ UNCHANGED <<row, wstate, shutdown>>

\* The handler ended with outcome o.  An unknown job type is "nonretryable".
Returned(d, o) ==
  [d EXCEPT !.phase = "returned", !.since = 0, !.outcome = o,
            !.retry_at = IF o = "error" /\ d.attempt_count < MaxAttempts
                         THEN compute_backoff_seconds(d.attempt_count - 1)
                         ELSE 0]

HandlerEnds(w, j, o) == disp' = [disp EXCEPT ![w][j] = Returned(@, o)]

handler_returns(w, j) ==
  /\ disp[w][j].phase = "handling"
  /\ \E o \in Outcome : HandlerEnds(w, j, o)
  /\ UNCHANGED <<row, wstate, shutdown>>

\* asyncio.wait_for cancels the handler; a timeout is an ordinary failure.
handler_timeout(w, j) ==
  /\ disp[w][j].phase = "handling"
  /\ disp[w][j].since = -HandlerTimeout
  /\ HandlerEnds(w, j, "error")
  /\ UNCHANGED <<row, wstate, shutdown>>

\* Faulty: the settling UPDATE has no version in its WHERE clause.
settle_Blind(w, j) ==
  /\ disp[w][j].phase = "returned"
  /\ row' = IF row[j].status = "running"
            THEN [row EXCEPT ![j] = SettledRow(@, disp[w][j])]
            ELSE row
  /\ EndDispatch(w, j)
  /\ UNCHANGED shutdown

\* complete() or fail(): on a lost compare-and-swap JobConcurrencyError is
\* logged by the batch's gather and the copy is dropped.
settle(w, j) ==
  /\ disp[w][j].phase = "returned"
  /\ row' = IF HoldsClaim(row[j], disp[w][j])
            THEN [row EXCEPT ![j] = SettledRow(@, disp[w][j])]
            ELSE row
  /\ EndDispatch(w, j)
  /\ UNCHANGED shutdown

\* The settling transaction itself fails: the row keeps its lease.
settle_error(w, j) ==
  /\ disp[w][j].phase = "returned"
  /\ EndDispatch(w, j)
  /\ UNCHANGED <<row, shutdown>>

request_shutdown(w) ==
  /\ ~shutdown[w]
  /\ wstate[w] # "stopped"
  /\ shutdown' = [shutdown EXCEPT ![w] = TRUE]
  /\ UNCHANGED <<row, wstate, disp>>

run_forever_exit(w) ==
  /\ wstate[w] = "idle"
  /\ shutdown[w]
  /\ wstate' = [wstate EXCEPT ![w] = "stopped"]
  /\ UNCHANGED <<row, shutdown, disp>>

Crash(w) ==
  /\ wstate[w] # "stopped"
  /\ wstate' = [wstate EXCEPT ![w] = "stopped"]
  /\ disp' = [disp EXCEPT ![w] = [j \in Jobs |-> NoDispatch]]
  /\ UNCHANGED <<row, shutdown>>

-----------------------------------------------------------------------------
(* Time *)

AgedRow(r) ==
  CASE r.status = "queued"  -> [r EXCEPT !.run_at = Older(@, 0)]
    [] r.status = "running" -> [r EXCEPT !.locked_at = Older(@, -LeaseSeconds - 1)]
    [] r.status \in Settled -> [r EXCEPT !.finished_at = Older(@, -RetentionAge - 1)]
    [] OTHER -> r

AgedDispatch(d) ==
  CASE d.phase = "none" -> d
    [] d.phase = "returned" -> [d EXCEPT !.retry_at = Older(@, 0)]
    [] OTHER -> [d EXCEPT !.since = @ - 1]

\* The event loop starts a claimed job and fires a handler's timeout in time.
Prompt(d) == /\ d.phase = "claimed" => d.since > -DispatchSlack
             /\ d.phase = "handling" => d.since > -HandlerTimeout

Tick ==
  /\ \A w \in Workers, j \in Jobs : Prompt(disp[w][j])
  /\ row' = [j \in Jobs |-> AgedRow(row[j])]
  /\ disp' = [w \in Workers |-> [j \in Jobs |-> AgedDispatch(disp[w][j])]]
  /\ UNCHANGED <<wstate, shutdown>>

-----------------------------------------------------------------------------
Init ==
  /\ row = [j \in Jobs |-> AbsentRow]
  /\ wstate = [w \in Workers |-> "idle"]
  /\ shutdown = [w \in Workers |-> FALSE]
  /\ disp = [w \in Workers |-> [j \in Jobs |-> NoDispatch]]

QueueStep(j) == enqueue(j) \/ cancel(j) \/ retry_dead_letter(j)
                \/ delete_background_jobs(j)

LoopStep(w) == poll_once(w) \/ claim_due(w) \/ claim_due_error(w)
               \/ request_shutdown(w) \/ run_forever_exit(w) \/ Crash(w)

JobStep(w, j) == dispatch(w, j) \/ handler_returns(w, j) \/ handler_timeout(w, j)
                 \/ settle(w, j) \/ settle_error(w, j)

Next == \/ \E j \in Jobs : QueueStep(j)
        \/ \E w \in Workers : LoopStep(w)
        \/ \E w \in Workers, j \in Jobs : JobStep(w, j)
        \/ Tick

Spec == Init /\ [][Next]_vars

(***************************************************************************)
(* Fairness.  The loops poll for as long as their process lives, asyncio   *)
(* runs every ready task, and time passes.  A row lock lasts for one short *)
(* transaction and claim_due takes the oldest run_at first, so a due row   *)
(* is not passed over for ever: strong fairness per job.  Nothing is       *)
(* assumed of operators, enqueuers, retention, errors or crashes.          *)
(***************************************************************************)
Fairness ==
  /\ WF_vars(Tick)
  /\ \A w \in Workers : /\ WF_vars(poll_once(w))
                        /\ WF_vars(claim_due(w))
                        /\ WF_vars(run_forever_exit(w))
  /\ \A w \in Workers, j \in Jobs : /\ WF_vars(dispatch(w, j))
                                    /\ WF_vars(handler_timeout(w, j))
                                    /\ WF_vars(settle(w, j) \/ settle_error(w, j))
  /\ \A j \in Jobs : SF_vars(\E w \in Workers : \E S \in Claimable :
                               j \in S /\ ClaimSet(w, S))

FairSpec == Spec /\ Fairness

-----------------------------------------------------------------------------
(* Properties *)

\* While a worker is about to run, or is running, a job's handler, the row is
\* running under that worker's own claim and its lease has not expired.  This is
\* what the start-up check "timeout < lease" is for.
LeaseCoversHandler ==
  \A w \in Workers, j \in Jobs :
    disp[w][j].phase \in {"claimed", "handling"} =>
      /\ HoldsClaim(row[j], disp[w][j])
      /\ row[j].locked_by = w
      /\ ~LeaseExpired(row[j])

\* No two workers run the handler of one job at the same time, whatever crashes,
\* reclaims, lost settlements and operator retries happen.
HandlersNeverOverlap ==
  \A v, w \in Workers, j \in Jobs :
    (disp[v][j].phase = "handling" /\ disp[w][j].phase = "handling") => v = w

\* A copy whose compare-and-swap would still succeed belongs to the worker the
\* row is locked by: version is a fencing token that is never seen twice.
VersionFences ==
  \A w \in Workers, j \in Jobs :
    (disp[w][j].phase # "none" /\ HoldsClaim(row[j], disp[w][j]))
      => row[j].locked_by = w

\* A claim is never made beyond max_attempts.  claim_due does not test the count
\* of a queued row: it relies on every path back to queued leaving one attempt.
AttemptsBounded ==
  \A j \in Jobs :
    /\ row[j].attempt_count <= MaxAttempts
    /\ row[j].status = "queued" => row[j].attempt_count < MaxAttempts

\* A row is locked exactly while it runs, so that the lease test of claim_due
\* sees every running row and no other: none can be stranded as running.
LockedIffRunning ==
  \A j \in Jobs : row[j].status = "running" <=> row[j].locked_by # NoOne

\* What holds of the queue at every moment: leases, fencing tokens, attempt
\* counts and locks all agree with what the workers are doing.
JobsSafe ==
  /\ TypeOK /\ LeaseCoversHandler /\ HandlersNeverOverlap
  /\ VersionFences /\ AttemptsBounded /\ LockedIffRunning

\* A worker that settles late, after its lease was taken over, the row
\* dead-lettered, retried or deleted, changes nothing.
OnlyClaimantSettles ==
  [][\A w \in Workers, j \in Jobs :
       (disp[w][j].phase = "returned" /\ disp'[w][j].phase = "none" /\ row'[j] # row[j])
         => row[j].status = "running" /\ row[j].locked_by = w]_vars

\* As long as some worker process lives, every job that was enqueued is settled:
\* leases of crashed workers and of lost settlements are reclaimed, retries end.
EveryJobSettles ==
  [](\E w \in Workers : wstate[w] # "stopped")
    => \A j \in Jobs : (row[j].status \in {"queued", "running"})
                          ~> (row[j].status \in Settled \cup {"deleted"})

\* A worker told to shut down drains what it claimed and its loop ends.
ShutdownCompletes ==
  \A w \in Workers : shutdown[w] ~> (wstate[w] = "stopped")

\* Nothing the queue has taken on, and no loop told to stop, goes on for ever.
WorkFinishes == EveryJobSettles /\ ShutdownCompletes

-----------------------------------------------------------------------------
(* What the queue promises of one job, whoever runs it. *)

Lifecycle == INSTANCE JobLifecycle WITH
  job <- [j \in Jobs |-> [status |-> row[j].status,
                          attempts |-> row[j].attempt_count]]

\* The queue implements the job lifecycle: claims are bounded, only a running
\* job succeeds or fails, cancel beats only queued jobs, settled is final.
ImplementsLifecycle == Lifecycle!Spec

=============================================================================
