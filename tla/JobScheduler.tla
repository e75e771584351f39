---------------------------- MODULE JobScheduler ----------------------------
(***************************************************************************)
(* JobScheduler and PostgresJobScheduleStore: application processes that   *)
(* each poll one recurring schedule, enqueue a job for its due tick under  *)
(* an idempotency key and advance next_run_at, both in one transaction.    *)
(* A process first reconciles the schedule's status with its own settings  *)
(* (start_background_jobs) and then runs the scheduler loop.               *)
(*                                                                         *)
(* Schedules are independent rows in transactions of their own, so one is  *)
(* modelled.  The job rows matter here only through their idempotency key, *)
(* which is the tick (the schedule's name is fixed).                       *)
(***************************************************************************)
EXTENDS Integers

CONSTANTS Procs,              \* application processes
          Interval,           \* interval_seconds of the schedule
          Skew,               \* how far an application clock may be off
          Desired,            \* the status each process's settings ask for
          ReconcileAttempts,  \* _RECONCILE_MAX_ATTEMPTS
          MaxStarts,          \* bound: process starts
          MaxTime             \* bound: when the database clock stops

ASSUME SchedulerAssumption ==
  /\ Interval \in Nat \ {0}
  /\ Skew \in Nat
  /\ Desired \in [Procs -> {"enabled", "disabled"}]
  /\ ReconcileAttempts \in Nat \ {0}
  /\ MaxStarts \in Nat
  /\ MaxTime \in Nat

VARIABLES clock,   \* Postgres now()
          sched,   \* the background_job_schedules row
          keys,    \* ticks whose job is in background_jobs (the unique index)
          fired,   \* history: ticks for which a job was ever inserted
          proc,    \* what each process is doing, with what it has read
          starts   \* number of process starts so far

vars == <<clock, sched, keys, fired, proc, starts>>

Schedule == [next_run_at : Int, version : Nat, status : {"enabled", "disabled"}]

ProcState == {"down", "starting", "reconciling", "idle", "listing", "ticking"}

\* seen is the schedule row last read, now the clock read by tick_once.
Process == [state : ProcState, seen : Schedule, now : Int, tries : Nat,
            shutdown : BOOLEAN]

TypeOK ==
  /\ clock \in Nat
  /\ sched \in Schedule
  /\ keys \subseteq Int /\ fired \subseteq Int
  /\ proc \in [Procs -> Process]
  /\ starts \in Nat

-----------------------------------------------------------------------------
compute_advanced_next_run_at(current, now) ==
  LET skipped == (now - current) \div Interval + 1
  IN  current + Interval * (IF skipped > 1 THEN skipped ELSE 1)

Goes(p, state) == proc' = [proc EXCEPT ![p].state = state]

-----------------------------------------------------------------------------
(* start_background_jobs *)

start(p) ==
  /\ proc[p].state = "down"
  /\ starts < MaxStarts
  /\ starts' = starts + 1
  /\ proc' = [proc EXCEPT ![p] = [@ EXCEPT !.state = "starting", !.tries = 0,
                                           !.shutdown = FALSE]]
  /\ UNCHANGED <<clock, sched, keys, fired>>

get_by_name(p) ==
  /\ proc[p].state = "starting"
  /\ proc' = [proc EXCEPT ![p] =
       IF sched.status = Desired[p]
       THEN [@ EXCEPT !.state = "idle"]
       ELSE [@ EXCEPT !.state = "reconciling", !.seen = sched]]
  /\ UNCHANGED <<clock, sched, keys, fired, starts>>

\* Round the loop again, or give up with a warning and start the scheduler.
ReconcileLost(q) ==
  [q EXCEPT !.tries = @ + 1,
            !.state = IF q.tries + 1 = ReconcileAttempts THEN "idle" ELSE "starting"]

\* The compare-and-swap of set_status and the retry loop around it.
set_status(p) ==
  /\ proc[p].state = "reconciling"
  /\ IF proc[p].seen.version = sched.version
     THEN /\ sched' = [sched EXCEPT !.status = Desired[p], !.version = @ + 1]
          /\ Goes(p, "idle")
     ELSE /\ proc' = [proc EXCEPT ![p] = ReconcileLost(@)]
          /\ UNCHANGED sched
  /\ UNCHANGED <<clock, keys, fired, starts>>

-----------------------------------------------------------------------------
(* JobScheduler *)

\* tick_once reads the application's own clock, then awaits list_due.
tick_once(p) ==
  /\ proc[p].state = "idle"
  /\ ~proc[p].shutdown
  /\ \E now \in clock - Skew .. clock + Skew :
       proc' = [proc EXCEPT ![p] = [@ EXCEPT !.state = "listing", !.now = now]]
  /\ UNCHANGED <<clock, sched, keys, fired, starts>>

\* Faulty: a tick that is due right now is not listed.
list_due_Strict(p) ==
  /\ proc[p].state = "listing"
  /\ proc' = [proc EXCEPT ![p] =
       IF sched.status = "enabled" /\ sched.next_run_at < proc[p].now
       THEN [@ EXCEPT !.state = "ticking", !.seen = sched]
       ELSE [@ EXCEPT !.state = "idle"]]
  /\ UNCHANGED <<clock, sched, keys, fired, starts>>

list_due(p) ==
  /\ proc[p].state = "listing"
  /\ proc' = [proc EXCEPT ![p] =
       IF sched.status = "enabled" /\ sched.next_run_at <= proc[p].now
       THEN [@ EXCEPT !.state = "ticking", !.seen = sched]
       ELSE [@ EXCEPT !.state = "idle"]]
  /\ UNCHANGED <<clock, sched, keys, fired, starts>>

\* Nothing in run_forever catches a database error of list_due.
list_due_error(p) ==
  /\ proc[p].state = "listing"
  /\ Goes(p, "down")
  /\ UNCHANGED <<clock, sched, keys, fired, starts>>

\* The update for the version that was read, whatever the status.
advance_in_transaction(next) == [sched EXCEPT !.version = @ + 1, !.next_run_at = next]

\* Faulty: the enqueue commits although the advance lost its race.
process_schedule_NoRollback(p) ==
  /\ proc[p].state = "ticking"
  /\ keys' = keys \cup {proc[p].seen.next_run_at}
  /\ fired' = fired \cup {proc[p].seen.next_run_at}
  /\ sched' = IF proc[p].seen.version # sched.version THEN sched
              ELSE advance_in_transaction(
                       compute_advanced_next_run_at(proc[p].seen.next_run_at, proc[p].now))
  /\ Goes(p, "idle")
  /\ UNCHANGED <<clock, starts>>

\* enqueue_in_transaction (which inserts nothing when the key exists) and
\* the advance, both rolled back when the version moved on.
process_schedule(p) ==
  LET tick == proc[p].seen.next_run_at IN
  /\ proc[p].state = "ticking"
  /\ IF proc[p].seen.version = sched.version
     THEN /\ keys' = keys \cup {tick}
          /\ fired' = fired \cup ({tick} \ keys)
          /\ sched' = advance_in_transaction(compute_advanced_next_run_at(tick, proc[p].now))
     ELSE UNCHANGED <<sched, keys, fired>>
  /\ Goes(p, "idle")
  /\ UNCHANGED <<clock, starts>>

\* The transaction fails and is rolled back; tick_once logs the exception.
process_schedule_error(p) ==
  /\ proc[p].state = "ticking"
  /\ Goes(p, "idle")
  /\ UNCHANGED <<clock, sched, keys, fired, starts>>

request_shutdown(p) ==
  /\ proc[p].state \in {"idle", "listing", "ticking"}
  /\ ~proc[p].shutdown
  /\ proc' = [proc EXCEPT ![p].shutdown = TRUE]
  /\ UNCHANGED <<clock, sched, keys, fired, starts>>

run_forever_exit(p) ==
  /\ proc[p].state = "idle"
  /\ proc[p].shutdown
  /\ Goes(p, "down")
  /\ UNCHANGED <<clock, sched, keys, fired, starts>>

Crash(p) ==
  /\ proc[p].state # "down"
  /\ Goes(p, "down")
  /\ UNCHANGED <<clock, sched, keys, fired, starts>>

-----------------------------------------------------------------------------
\* Retention removes the job row, and with it the idempotency key.
delete_background_jobs ==
  /\ \E t \in keys : keys' = keys \ {t}
  /\ UNCHANGED <<clock, sched, fired, proc, starts>>

Tick ==
  /\ clock < MaxTime
  /\ clock' = clock + 1
  /\ UNCHANGED <<sched, keys, fired, proc, starts>>

Init ==
  /\ clock = 0
  /\ sched = [next_run_at |-> 0, version |-> 1, status |-> "enabled"]
  /\ keys = {} /\ fired = {}
  /\ proc = [p \in Procs |-> [state |-> "down", seen |-> sched, now |-> 0,
                              tries |-> 0, shutdown |-> FALSE]]
  /\ starts = 0

ProcStep(p) ==
  \/ start(p) \/ get_by_name(p) \/ set_status(p)
  \/ tick_once(p) \/ list_due(p) \/ list_due_error(p)
  \/ process_schedule(p) \/ process_schedule_error(p)
  \/ request_shutdown(p) \/ run_forever_exit(p) \/ Crash(p)

Next == \/ \E p \in Procs : ProcStep(p)
        \/ delete_background_jobs
        \/ Tick

Spec == Init /\ [][Next]_vars

(***************************************************************************)
(* Fairness.  A live process keeps running its loop, time passes, a poll   *)
(* is eventually made on a clock that is not behind, and the tick's        *)
(* transaction does not fail for ever.                                     *)
(***************************************************************************)
Fairness ==
  /\ WF_vars(Tick)
  /\ \A p \in Procs :
       /\ WF_vars(get_by_name(p)) /\ WF_vars(set_status(p))
       /\ WF_vars(tick_once(p)) /\ WF_vars(list_due(p))
       /\ WF_vars(run_forever_exit(p))
       /\ SF_vars(process_schedule(p))
       /\ WF_vars(process_schedule(p) \/ process_schedule_error(p))

FairSpec == Spec /\ Fairness

-----------------------------------------------------------------------------
(* Properties *)

\* No tick ever gets a second job, not even when retention has removed the row
\* whose idempotency key would have refused it: the version check of the advance
\* does that on its own.
TickEnqueuedOnce == [][\A t \in keys' \ keys : t \notin fired]_vars

\* A tick is enqueued exactly when the schedule moves past it: no tick is lost
\* by an advance without a job, or repeated by a job without an advance.
EnqueueIffAdvance ==
  [][sched'.next_run_at # sched.next_run_at <=> sched.next_run_at \in fired' \ fired]_vars

\* A schedule that was disabled between list_due and the tick's transaction does
\* not fire, although advance_in_transaction does not look at the status.
OnlyEnabledFires == [][fired' # fired => sched.status = "enabled"]_vars

\* On recovery missed ticks are skipped: next_run_at goes to the first boundary
\* after the clock the process read, and to no later one.
SkipsMissedTicks ==
  [][\A p \in Procs :
       (proc[p].state = "ticking" /\ sched'.next_run_at # sched.next_run_at
          /\ proc'[p].state = "idle")
         => /\ sched'.next_run_at > proc[p].now
            /\ sched'.next_run_at - Interval <= proc[p].now
            /\ (sched'.next_run_at - sched.next_run_at) % Interval = 0]_vars

\* Every tick is enqueued once, with the advance that leaves it, only while the
\* schedule is enabled, and the ticks missed meanwhile are skipped.
TicksExact ==
  []TypeOK /\ TickEnqueuedOnce /\ EnqueueIffAdvance /\ OnlyEnabledFires /\ SkipsMissedTicks

\* If from some time on there is always a live process, every tick that all clocks
\* agree is due is enqueued, or the schedule is disabled.
DueTickFires ==
  <>[](\E p \in Procs : proc[p].state # "down") =>
    \A t \in 0 .. MaxTime :
      (sched.next_run_at = t /\ sched.status = "enabled" /\ t <= clock - Skew)
        ~> (sched.next_run_at > t \/ sched.status = "disabled")

=============================================================================
