------------------------- MODULE JobSchedulerProofs -------------------------
(***************************************************************************)
(* Proofs about JobScheduler for any number of processes, any interval,    *)
(* any clock skew and any settings.                                        *)
(*                                                                         *)
(* The argument: whatever a process has read of the schedule is not newer  *)
(* than the row, equals it when the versions agree, and was enabled and    *)
(* due on the clock of the process (ReadsAgree); and every tick that fired *)
(* lies before next_run_at (FiredBehind), which only grows.                *)
(***************************************************************************)
EXTENDS JobScheduler, Memory, NaturalsInduction, WellFoundedInduction, TLAPS

ReadsAgree ==
  \A p \in Procs :
    proc[p].state \in {"reconciling", "ticking"} =>
      /\ proc[p].seen.version <= sched.version
      /\ proc[p].seen.version = sched.version => proc[p].seen = sched
      /\ proc[p].state = "ticking" =>
           proc[p].seen.status = "enabled" /\ proc[p].seen.next_run_at <= proc[p].now

FiredBehind == /\ keys \subseteq fired
               /\ \A t \in fired : t < sched.next_run_at

IInv == TypeOK /\ ReadsAgree /\ FiredBehind

-----------------------------------------------------------------------------
\* Advancing a schedule moves it forward.
LEMMA AdvanceGrows ==
  ASSUME NEW current \in Int, NEW now \in Int
  PROVE  /\ compute_advanced_next_run_at(current, now) \in Int
         /\ compute_advanced_next_run_at(current, now) > current
<1> DEFINE skipped == (now - current) \div Interval + 1
           k == IF skipped > 1 THEN skipped ELSE 1
<1>1. skipped \in Int
  BY SchedulerAssumption
<1>2. k \in Int /\ k >= 1
  BY <1>1
<1>3. compute_advanced_next_run_at(current, now) = current + Interval * k
  BY DEF compute_advanced_next_run_at
<1> HIDE DEF k
<1>4. Interval * k \in Int /\ Interval * k >= Interval
  <2>1. \A a \in Nat \ {0}, b \in Int : b >= 1 => a * b \in Int /\ a * b >= a
    OBVIOUS
  <2> QED
    BY <1>2, <2>1, SchedulerAssumption
<1> QED
  BY <1>3, <1>4, SchedulerAssumption

\* From a boundary that is due the schedule goes to the first boundary after now.
LEMMA AdvanceSkips ==
  ASSUME NEW current \in Int, NEW now \in Int, current <= now
  PROVE  /\ compute_advanced_next_run_at(current, now) > now
         /\ compute_advanced_next_run_at(current, now) - Interval <= now
         /\ (compute_advanced_next_run_at(current, now) - current) % Interval = 0
<1> DEFINE d == now - current
           k == d \div Interval
           step == Interval * (k + 1)
<1>1. d \in Nat /\ Interval \in Nat \ {0}
  BY SchedulerAssumption
<1>2. k \in Nat /\ Interval * k <= d /\ d < Interval * k + Interval
  <2> HIDE DEF d
  <2>1. \A a \in Nat, b \in Nat \ {0} :
          a \div b \in Nat /\ b * (a \div b) <= a /\ a < b * (a \div b) + b
    OBVIOUS
  <2> QED
    BY <1>1, <2>1
<1>3. compute_advanced_next_run_at(current, now) = current + step
  <2>1. k + 1 = (IF k + 1 > 1 THEN k + 1 ELSE 1)
    BY <1>2
  <2> QED
    BY <2>1 DEF compute_advanced_next_run_at
<1> HIDE DEF k
<1>4. step = Interval * k + Interval /\ Interval * k \in Int
  <2>1. \A a \in Nat \ {0}, b \in Nat : a * (b + 1) = a * b + a /\ a * b \in Int
    OBVIOUS
  <2> QED
    BY <1>1, <1>2, <2>1
<1>5. step % Interval = 0
  <2>1. \A a \in Nat \ {0}, b \in Nat : (a * b) % a = 0
    OBVIOUS
  <2> QED
    BY <1>1, <1>2, <2>1
<1> HIDE DEF step
<1>6. current + step > now /\ current + step - Interval <= now
  BY <1>1, <1>2, <1>4
<1>7. (current + step) - current = step
  BY <1>1, <1>4
<1> DEFINE next == compute_advanced_next_run_at(current, now)
<1> HIDE DEF next
<1>8. next = current + step
  BY <1>3 DEF next
<1>9. next > now /\ next - Interval <= now
  BY <1>1, <1>4, <1>6, <1>8
<1>10. next - current = step
  BY <1>7, <1>8
<1>11. (next - current) % Interval = 0
  BY <1>5, <1>10, Zenon
<1> QED
  BY <1>9, <1>11 DEF next

\* Changing one field of a schedule or a process leaves it one.
LEMMA FieldUpdates ==
  /\ \A s \in Schedule :
       /\ \A x \in Int : [s EXCEPT !.next_run_at = x] \in Schedule
       /\ \A x \in Nat : [s EXCEPT !.version = x] \in Schedule
       /\ \A x \in {"enabled", "disabled"} : [s EXCEPT !.status = x] \in Schedule
  /\ \A q \in Process :
       /\ \A x \in ProcState : [q EXCEPT !.state = x] \in Process
       /\ \A x \in Schedule : [q EXCEPT !.seen = x] \in Process
       /\ \A x \in Int : [q EXCEPT !.now = x] \in Process
       /\ \A x \in Nat : [q EXCEPT !.tries = x] \in Process
       /\ \A x \in BOOLEAN : [q EXCEPT !.shutdown = x] \in Process
  BY DEF Schedule, Process

LEMMA InitIInv == Init => IInv
  BY DEF Init, IInv, TypeOK, ReadsAgree, FiredBehind, Schedule, Process, ProcState

\* A step that leaves the row alone and one process in a state in which what it
\* has read does not matter, or is the row itself.
LEMMA ProcChange ==
  ASSUME IInv, NEW p \in Procs, NEW q \in Process, proc' = [proc EXCEPT ![p] = q],
         UNCHANGED <<clock, sched, keys, fired>>, starts' \in Nat,
         \/ q.state \notin {"reconciling", "ticking"}
         \/ /\ q.seen = sched
            /\ q.state = "ticking" => sched.status = "enabled" /\ sched.next_run_at <= q.now
         \/ q.seen = proc[p].seen /\ q.state = proc[p].state /\ q.now = proc[p].now
  PROVE  IInv'
<1>1. TypeOK'
  BY DEF IInv, TypeOK
<1>2. proc'[p] = q /\ \A o \in Procs : o # p => proc'[o] = proc[o]
  BY DEF IInv, TypeOK
<1>3. sched.version \in Nat
  BY DEF IInv, TypeOK, Schedule
<1>4. ReadsAgree'
  BY <1>2, <1>3 DEF IInv, ReadsAgree
<1>5. FiredBehind'
  BY DEF IInv, FiredBehind
<1> QED
  BY <1>1, <1>4, <1>5 DEF IInv

\* A step that wins the compare-and-swap: every other process's read is stale.
LEMMA RowChange ==
  ASSUME IInv, NEW p \in Procs, NEW s \in Schedule, sched' = s,
         s.version = sched.version + 1, Goes(p, "idle"),
         UNCHANGED <<clock, starts>>,
         keys' \subseteq fired', fired' \subseteq Int,
         \A t \in fired' : t < s.next_run_at
  PROVE  IInv'
<1>1. proc[p] \in Process /\ sched \in Schedule
  BY DEF IInv, TypeOK
<1>2. [proc[p] EXCEPT !.state = "idle"] \in Process
  BY <1>1, FieldUpdates DEF ProcState
<1>3. TypeOK'
  BY <1>2 DEF Goes, IInv, TypeOK
<1>4. proc'[p].state = "idle" /\ \A o \in Procs : o # p => proc'[o] = proc[o]
  BY <1>1 DEF Goes, IInv, TypeOK, Process
<1>5. ASSUME NEW o \in Procs, proc'[o].state \in {"reconciling", "ticking"}
      PROVE  /\ proc'[o].seen.version <= s.version
             /\ proc'[o].seen.version # s.version
             /\ proc'[o].state = "ticking" =>
                  proc'[o].seen.status = "enabled" /\ proc'[o].seen.next_run_at <= proc'[o].now
  <2>1. proc'[o] = proc[o]
    BY <1>4, <1>5
  <2>2. proc[o].seen \in Schedule
    BY DEF IInv, TypeOK, Process
  <2>3. proc[o].seen.version <= sched.version
    BY <1>5, <2>1 DEF IInv, ReadsAgree
  <2>4. proc[o].seen.version \in Nat /\ sched.version \in Nat
    BY <1>1, <2>2 DEF Schedule
  <2> QED
    BY <1>5, <2>1, <2>3, <2>4 DEF IInv, ReadsAgree
<1>6. ReadsAgree'
  BY <1>5 DEF ReadsAgree
<1>7. FiredBehind'
  BY DEF FiredBehind
<1> QED
  BY <1>3, <1>6, <1>7 DEF IInv

\* The winning tick: its tick is the row's own next_run_at and the row moves on.
LEMMA TickWins ==
  ASSUME IInv, NEW p \in Procs, process_schedule(p),
         proc[p].seen.version = sched.version
  PROVE  /\ proc[p].seen = sched
         /\ sched.status = "enabled" /\ sched.next_run_at <= proc[p].now
         /\ sched'.next_run_at = compute_advanced_next_run_at(sched.next_run_at, proc[p].now)
         /\ sched.next_run_at \notin fired
         /\ fired' = fired \cup {sched.next_run_at}
         /\ keys' = keys \cup {sched.next_run_at}
         /\ sched' \in Schedule
         /\ sched'.version = sched.version + 1
         /\ sched'.next_run_at > sched.next_run_at
<1>1. /\ proc[p].seen = sched /\ proc[p].seen.status = "enabled"
      /\ proc[p].seen.next_run_at <= proc[p].now
  BY DEF process_schedule, advance_in_transaction, IInv, ReadsAgree
<1>2. sched \in Schedule /\ proc[p].now \in Int /\ sched.next_run_at \in Int
  BY DEF IInv, TypeOK, Process, Schedule
<1>3. sched.next_run_at \notin fired
  BY <1>2 DEF IInv, FiredBehind
<1>4. sched.next_run_at \notin keys
  BY <1>3 DEF IInv, FiredBehind
<1>5. fired' = fired \cup {sched.next_run_at} /\ keys' = keys \cup {sched.next_run_at}
  BY <1>1, <1>4 DEF process_schedule, advance_in_transaction
<1> DEFINE next == compute_advanced_next_run_at(sched.next_run_at, proc[p].now)
<1>6. sched' = [sched EXCEPT !.version = sched.version + 1, !.next_run_at = next]
  BY <1>1 DEF process_schedule, advance_in_transaction
<1>7. next \in Int /\ next > sched.next_run_at
  BY <1>2, AdvanceGrows
<1> HIDE DEF next
<1>8. sched.version + 1 \in Nat
  BY <1>2 DEF Schedule
<1>9. sched' \in Schedule
  BY <1>2, <1>6, <1>7, <1>8, FieldUpdates, Zenon
<1>10. sched'.version = sched.version + 1 /\ sched'.next_run_at = next
  BY <1>2, <1>6 DEF Schedule
<1> QED
  BY <1>1, <1>3, <1>5, <1>7, <1>9, <1>10 DEF next

LEMMA ProcStepIInv ==
  ASSUME IInv, NEW p \in Procs, ProcStep(p) PROVE IInv'
<1>0. proc[p] \in Process /\ sched \in Schedule /\ starts \in Nat /\ clock \in Nat
  BY DEF IInv, TypeOK
<1>00. \A x \in ProcState : /\ [proc[p] EXCEPT !.state = x] \in Process
                            /\ [proc[p] EXCEPT !.state = x].state = x
  BY <1>0, FieldUpdates DEF Process
<1>1. CASE start(p)
  <2> DEFINE q == [proc[p] EXCEPT !.state = "starting", !.tries = 0, !.shutdown = FALSE]
  <2>1. /\ proc' = [proc EXCEPT ![p] = q]
        /\ UNCHANGED <<clock, sched, keys, fired>>
        /\ starts' \in Nat
    BY <1>0, <1>1 DEF start
  <2>2. "starting" \in ProcState /\ 0 \in Nat /\ FALSE \in BOOLEAN
    BY DEF ProcState
  <2>3. q \in Process
    BY <1>0, <2>2, FieldUpdates, Zenon
  <2>4. q.state = "starting"
    BY <1>0 DEF Process
  <2> HIDE DEF q
  <2> QED
    BY <2>1, <2>3, <2>4, ProcChange
<1>2. CASE get_by_name(p)
  <2>1. UNCHANGED <<clock, sched, keys, fired, starts>>
    BY <1>2 DEF get_by_name
  <2>2. CASE sched.status = Desired[p]
    <3>1. proc' = [proc EXCEPT ![p] = [proc[p] EXCEPT !.state = "idle"]]
      BY <1>2, <2>2 DEF get_by_name
    <3>2. "idle" \in ProcState
      BY DEF ProcState
    <3> QED
      BY <1>0, <1>00, <2>1, <3>1, <3>2, ProcChange
  <2>3. CASE sched.status # Desired[p]
    <3> DEFINE q == [proc[p] EXCEPT !.state = "reconciling", !.seen = sched]
    <3>1. proc' = [proc EXCEPT ![p] = q]
      BY <1>2, <2>3 DEF get_by_name
    <3>2. "reconciling" \in ProcState
      BY DEF ProcState
    <3>3. q \in Process
      BY <1>0, <3>2, FieldUpdates, Zenon
    <3>4. q.state = "reconciling" /\ q.seen = sched
      BY <1>0 DEF Process
    <3> HIDE DEF q
    <3> QED
      BY <1>0, <2>1, <3>1, <3>3, <3>4, ProcChange
  <2> QED
    BY <2>2, <2>3
<1>3. CASE set_status(p) /\ proc[p].seen.version = sched.version
  <2> DEFINE s == [sched EXCEPT !.status = Desired[p], !.version = sched.version + 1]
  <2>1. sched' = s /\ Goes(p, "idle") /\ UNCHANGED <<clock, keys, fired, starts>>
    BY <1>3 DEF set_status
  <2>2. Desired[p] \in {"enabled", "disabled"} /\ sched.version + 1 \in Nat
    BY <1>0, SchedulerAssumption DEF Schedule
  <2>3. s \in Schedule
    BY <1>0, <2>2, FieldUpdates, Zenon
  <2>4. s.version = sched.version + 1 /\ s.next_run_at = sched.next_run_at
    BY <1>0 DEF Schedule
  <2> HIDE DEF s
  <2>5. keys' \subseteq fired' /\ fired' \subseteq Int /\ \A t \in fired' : t < s.next_run_at
    BY <2>1, <2>4 DEF IInv, TypeOK, FiredBehind
  <2> QED
    BY <2>1, <2>3, <2>4, <2>5, RowChange
<1>4. CASE set_status(p) /\ proc[p].seen.version # sched.version
  <2> DEFINE x == IF proc[p].tries + 1 = ReconcileAttempts THEN "idle" ELSE "starting"
             q == ReconcileLost(proc[p])
  <2>1. /\ proc' = [proc EXCEPT ![p] = q]
        /\ UNCHANGED <<clock, sched, keys, fired, starts>>
    BY <1>4 DEF set_status
  <2>2. x \in ProcState /\ proc[p].tries + 1 \in Nat /\ x \in {"idle", "starting"}
    BY <1>0 DEF ProcState, Process
  <2>3. q \in Process
    BY <1>0, <2>2, FieldUpdates, Zenon DEF ReconcileLost
  <2>4. q.state \notin {"reconciling", "ticking"}
    BY <1>0 DEF Process, ReconcileLost
  <2> HIDE DEF q
  <2> QED
    BY <1>0, <2>1, <2>3, <2>4, ProcChange
<1>5. CASE tick_once(p)
  <2>1. PICK now \in clock - Skew .. clock + Skew :
          proc' = [proc EXCEPT ![p] = [proc[p] EXCEPT !.state = "listing", !.now = now]]
    BY <1>5 DEF tick_once
  <2> DEFINE q == [proc[p] EXCEPT !.state = "listing", !.now = now]
  <2>2. "listing" \in ProcState /\ now \in Int
    BY <1>0, <2>1, SchedulerAssumption DEF ProcState
  <2>3. q \in Process
    BY <1>0, <2>2, FieldUpdates, Zenon
  <2>4. q.state = "listing"
    BY <1>0 DEF Process
  <2>5. UNCHANGED <<clock, sched, keys, fired, starts>>
    BY <1>5 DEF tick_once
  <2> HIDE DEF q
  <2>6. proc' = [proc EXCEPT ![p] = q]
    BY <2>1 DEF q
  <2> QED
    BY <1>0, <2>3, <2>4, <2>5, <2>6, ProcChange
<1>6. CASE list_due(p)
  <2>1. UNCHANGED <<clock, sched, keys, fired, starts>>
    BY <1>6 DEF list_due
  <2>2. CASE ~(sched.status = "enabled" /\ sched.next_run_at <= proc[p].now)
    <3>1. proc' = [proc EXCEPT ![p] = [proc[p] EXCEPT !.state = "idle"]]
      BY <1>6, <2>2 DEF list_due
    <3>2. "idle" \in ProcState
      BY DEF ProcState
    <3> QED
      BY <1>0, <1>00, <2>1, <3>1, <3>2, ProcChange
  <2>3. CASE sched.status = "enabled" /\ sched.next_run_at <= proc[p].now
    <3> DEFINE q == [proc[p] EXCEPT !.state = "ticking", !.seen = sched]
    <3>1. proc' = [proc EXCEPT ![p] = q]
      BY <1>6, <2>3 DEF list_due
    <3>2. "ticking" \in ProcState
      BY DEF ProcState
    <3>3. q \in Process
      BY <1>0, <3>2, FieldUpdates, Zenon
    <3>4. q.state = "ticking" /\ q.seen = sched /\ q.now = proc[p].now
      BY <1>0 DEF Process
    <3> HIDE DEF q
    <3> QED
      BY <1>0, <2>1, <2>3, <3>1, <3>3, <3>4, ProcChange
  <2> QED
    BY <2>2, <2>3
<1>7. CASE process_schedule(p) /\ proc[p].seen.version = sched.version
  <2>1. Goes(p, "idle") /\ UNCHANGED <<clock, starts>>
    BY <1>7 DEF process_schedule, advance_in_transaction
  <2>2. sched.next_run_at \in Int /\ sched'.next_run_at \in Int
    BY <1>0, <1>7, TickWins DEF Schedule
  <2>3. /\ keys' \subseteq fired' /\ fired' \subseteq Int
        /\ \A t \in fired' : t < sched'.next_run_at
    <3>1. /\ fired' = fired \cup {sched.next_run_at}
          /\ keys' = keys \cup {sched.next_run_at}
          /\ sched'.next_run_at > sched.next_run_at
      BY <1>7, TickWins
    <3>2. keys \subseteq fired /\ fired \subseteq Int
      BY DEF IInv, TypeOK, FiredBehind
    <3>3. \A t \in fired : t \in Int /\ t < sched.next_run_at
      BY <3>2 DEF IInv, FiredBehind
    <3>4. \A t \in fired' : t < sched'.next_run_at
      BY <2>2, <3>1, <3>3
    <3> QED
      BY <2>2, <3>1, <3>2, <3>4
  <2> QED
    BY <1>7, <2>1, <2>3, TickWins, RowChange
<1>8. CASE \/ process_schedule(p) /\ proc[p].seen.version # sched.version
           \/ process_schedule_error(p) \/ list_due_error(p)
           \/ run_forever_exit(p) \/ Crash(p)
  <2>1. UNCHANGED <<clock, sched, keys, fired, starts>>
    BY <1>8 DEF process_schedule, advance_in_transaction, process_schedule_error, list_due_error,
       run_forever_exit, Crash
  <2>2. PICK x \in {"idle", "down"} :
          proc' = [proc EXCEPT ![p] = [proc[p] EXCEPT !.state = x]]
    BY <1>8 DEF process_schedule, advance_in_transaction, process_schedule_error, list_due_error,
       run_forever_exit, Crash, Goes
  <2>3. x \in ProcState /\ x \notin {"reconciling", "ticking"}
    BY DEF ProcState
  <2> QED
    BY <1>0, <1>00, <2>1, <2>2, <2>3, ProcChange
<1>9. CASE request_shutdown(p)
  <2> DEFINE q == [proc[p] EXCEPT !.shutdown = TRUE]
  <2>1. proc' = [proc EXCEPT ![p] = q] /\ UNCHANGED <<clock, sched, keys, fired, starts>>
    BY <1>9 DEF request_shutdown
  <2>2. q \in Process /\ q.seen = proc[p].seen /\ q.state = proc[p].state /\ q.now = proc[p].now
    BY <1>0 DEF Process
  <2> HIDE DEF q
  <2> QED
    BY <1>0, <2>1, <2>2, ProcChange
<1> QED
  BY <1>1, <1>2, <1>3, <1>4, <1>5, <1>6, <1>7, <1>8, <1>9 DEF ProcStep

LEMMA StepIInv == IInv /\ [Next]_vars => IInv'
<1> SUFFICES ASSUME IInv, [Next]_vars PROVE IInv'
  OBVIOUS
<1>1. CASE \E p \in Procs : ProcStep(p)
  BY <1>1, ProcStepIInv
<1>2. CASE delete_background_jobs \/ Tick \/ UNCHANGED vars
  <2>1. UNCHANGED <<sched, proc, fired>> /\ keys' \subseteq keys
    BY <1>2 DEF delete_background_jobs, Tick, vars
  <2>2. clock' \in Nat /\ starts' \in Nat
    BY <1>2 DEF delete_background_jobs, Tick, vars, IInv, TypeOK
  <2> QED
    BY <2>1, <2>2 DEF IInv, TypeOK, ReadsAgree, FiredBehind
<1> QED
  BY <1>1, <1>2 DEF Next

\* The inductive invariant holds of every reachable state.
THEOREM InvariantHolds == Spec => []IInv
  BY InitIInv, StepIInv, PTL DEF Spec

\* A step inserts a tick or moves the schedule only by winning _process_schedule.
LEMMA OnlyTickChanges ==
  ASSUME IInv, [Next]_vars,
         ~(keys' \subseteq keys) \/ fired' # fired \/ sched'.next_run_at # sched.next_run_at
  PROVE  /\ sched.status = "enabled"
         /\ sched.next_run_at \notin fired
         /\ fired' = fired \cup {sched.next_run_at}
         /\ keys' = keys \cup {sched.next_run_at}
         /\ sched'.next_run_at # sched.next_run_at
<1>0. sched \in Schedule
  BY DEF IInv, TypeOK
<1>1. PICK p \in Procs : ProcStep(p)
  BY DEF Next, vars, delete_background_jobs, Tick
<1>2. ASSUME set_status(p) PROVE FALSE
  <2>1. sched'.next_run_at = sched.next_run_at
    BY <1>0, <1>2 DEF set_status, Schedule
  <2> QED
    BY <1>2, <2>1 DEF set_status
<1>3. process_schedule(p) /\ proc[p].seen.version = sched.version
  BY <1>1, <1>2 DEF ProcStep, start, get_by_name, tick_once, list_due, list_due_error,
     process_schedule, process_schedule_error, request_shutdown, run_forever_exit, Crash
<1>4. sched.next_run_at \in Int /\ sched'.next_run_at \in Int
  BY <1>0, <1>3, TickWins DEF Schedule
<1> QED
  BY <1>3, <1>4, TickWins

\* No tick is ever enqueued twice, for any number of processes and any skew, even
\* when retention has freed its idempotency key (_process_schedule).
THEOREM TickOnce == Spec => TickEnqueuedOnce
<1>1. IInv /\ [Next]_vars => [\A t \in keys' \ keys : t \notin fired]_vars
  BY OnlyTickChanges
<1> QED
  BY <1>1, InvariantHolds, PTL DEF Spec, TickEnqueuedOnce

\* A schedule moves on exactly when the tick it leaves is enqueued
\* (enqueue_in_transaction and advance_in_transaction commit together).
THEOREM AtomicTick == Spec => EnqueueIffAdvance
<1>1. IInv /\ [Next]_vars =>
        [sched'.next_run_at # sched.next_run_at <=> sched.next_run_at \in fired' \ fired]_vars
  BY OnlyTickChanges
<1> QED
  BY <1>1, InvariantHolds, PTL DEF Spec, EnqueueIffAdvance

\* A disabled schedule never fires, however stale the list a process works from
\* (list_due, set_status, advance_in_transaction).
THEOREM DisabledIsSilent == Spec => OnlyEnabledFires
<1>1. IInv /\ [Next]_vars => [fired' # fired => sched.status = "enabled"]_vars
  BY OnlyTickChanges
<1> QED
  BY <1>1, InvariantHolds, PTL DEF Spec, OnlyEnabledFires

\* The schedule goes to the first boundary after the clock the process read, and
\* to no later one, whatever the interval and however many ticks were missed
\* (compute_advanced_next_run_at).
THEOREM MissedAreSkipped == Spec => SkipsMissedTicks
<1> DEFINE A == \A p \in Procs :
       (proc[p].state = "ticking" /\ sched'.next_run_at # sched.next_run_at
          /\ proc'[p].state = "idle")
         => /\ sched'.next_run_at > proc[p].now
            /\ sched'.next_run_at - Interval <= proc[p].now
            /\ (sched'.next_run_at - sched.next_run_at) % Interval = 0
<1>1. IInv /\ [Next]_vars => [A]_vars
  <2> SUFFICES ASSUME IInv, [Next]_vars, NEW p \in Procs, proc[p].state = "ticking",
                      sched'.next_run_at # sched.next_run_at, proc'[p].state = "idle"
               PROVE  /\ sched'.next_run_at > proc[p].now
                      /\ sched'.next_run_at - Interval <= proc[p].now
                      /\ (sched'.next_run_at - sched.next_run_at) % Interval = 0
    OBVIOUS
  <2>0. sched \in Schedule /\ sched.next_run_at \in Int /\ proc[p].now \in Int
    BY DEF IInv, TypeOK, Schedule, Process
  <2>1. PICK o \in Procs : ProcStep(o)
    BY DEF Next, vars, delete_background_jobs, Tick
  <2>2. ASSUME set_status(o) PROVE FALSE
    BY <2>0, <2>2 DEF set_status, Schedule
  <2>3. process_schedule(o) /\ proc[o].seen.version = sched.version
    BY <2>1, <2>2 DEF ProcStep, start, get_by_name, tick_once, list_due, list_due_error,
       process_schedule, process_schedule_error, request_shutdown, run_forever_exit, Crash
  <2>4. o = p
    BY <2>3 DEF process_schedule, advance_in_transaction, Goes, IInv, TypeOK
  <2> QED
    BY <2>0, <2>3, <2>4, TickWins, AdvanceSkips
<1> QED
  BY <1>1, InvariantHolds, PTL DEF Spec, SkipsMissedTicks

\* Every tick gets one job, with the advance that leaves it, only while the schedule
\* is enabled, and missed ticks are skipped (JobScheduler and its store together).
THEOREM TicksAreExact == Spec => TicksExact
<1>1. IInv => TypeOK
  BY DEF IInv
<1> QED
  BY <1>1, InvariantHolds, TickOnce, AtomicTick, DisabledIsSilent, MissedAreSkipped, PTL DEF TicksExact

(***************************************************************************)
(* The proofs of Memory, whose lifecycle passes are the other periodic     *)
(* work on stored rows. They use nothing of the ones above: the two        *)
(* components share no variable. The invariant says that whatever a pass   *)
(* has retired, has flushed or has set out to retire is superseded by a    *)
(* better record that is stored.                                           *)
(***************************************************************************)

Retired == {"consolidated", "archived", "deleted"}

MemoryTypes ==
    /\ session \in [Turns -> Sessions] /\ place \in [Records -> Places]
    /\ row \in [Records -> LifecycleState \cup {"absent"}]
    /\ kind \in [Records -> {"none", "user", "project"}]
    /\ pend \in [Actors -> [Records -> LifecycleState \cup {"none"}]]
    /\ turn \in [Turns -> [pc : {"idle", "filtered", "persisting", "done"}, todo : SUBSET Contents, tries : Nat]]
    /\ pass \in [Turns -> [pc : {"none", "scheduled", "done"} \cup Retired,
                           todo : SUBSET Records, at : SUBSET Records]]
    /\ del \in [pc : {"idle", "read", "written", "done"}, rec : SUBSET Records]

\* What is stored, or about to be, has a kind; a turn that has not begun has stored nothing.
Learned ==
    /\ \A r \in Records : row[r] # "absent" => kind[r] # "none"
    /\ \A t \in Turns : \A r \in Records : pend[<<"turn", t>>][r] # "none" =>
          r[1] = t /\ kind[r] # "none" /\ pend[<<"turn", t>>][r] = "active"
    /\ \A t \in Turns : \A c \in turn[t].todo : kind[<<t, c>>] # "none"
    /\ \A t \in Turns : turn[t].pc = "idle" => \A r \in Records :
          (r[1] = t => row[r] = "absent") /\ pend[<<"turn", t>>][r] = "none"

\* Passes and the user write only over what is stored.
Rewrites ==
    /\ \A t \in Turns : \A r \in Records : pend[<<"pass", t>>][r] # "none" =>
          row[r] # "absent" /\ pend[<<"pass", t>>][r] \in Retired
    /\ \A t \in Turns : \A r \in pass[t].todo \cup pass[t].at : row[r] # "absent"
    /\ \A t \in Turns : pass[t].pc \notin Retired => pass[t].todo = {} /\ pass[t].at = {}
    /\ \A t \in Turns : turn[t].pc # "done" => pass[t].pc = "none"
    /\ \A r \in Records : pend[Deleter][r] # "none" => r \in del.rec
    /\ \A r \in del.rec : row[r] # "absent"
    /\ del.pc = "idle" => del.rec = {}

\* A better record that says the same is stored.
Superseded(r) == \E q \in Records : q[2] = r[2] /\ Better(q, r) /\ row[q] # "absent"

\* A row a step changes is retired for a reason.
Rightly(r) == row'[r] \in Retired /\ r \notin del.rec => Superseded(r)

\* What housekeeping has retired, or is about to, is superseded.
Losers ==
    \A r \in Records \ del.rec :
        /\ row[r] \in Retired => Superseded(r)
        /\ \A t \in Turns :
              pend[<<"pass", t>>][r] # "none" \/ r \in pass[t].todo \cup pass[t].at => Superseded(r)

MemoryInv == BoundsAssumption /\ MemoryTypes /\ Learned /\ Rewrites /\ Losers
-----------------------------------------------------------------------------
LEMMA ActorNames ==
  /\ \A t \in Turns : <<"turn", t>> \in Actors /\ <<"pass", t>> \in Actors
  /\ Deleter \in Actors
  /\ \A t, u \in Turns : <<"turn", t>> # <<"pass", u>> /\ <<"turn", t>> # Deleter /\ <<"pass", t>> # Deleter
  /\ \A a \in Actors : a = Deleter \/ (\E t \in Turns : a = <<"turn", t>>) \/ (\E t \in Turns : a = <<"pass", t>>)
BY DEF Actors, Turn, Pass, Deleter

LEMMA RecordNames == \A r \in Records : r = <<r[1], r[2]>> /\ r[1] \in Turns /\ r[2] \in Contents
BY DEF Records

LEMMA InitInv == BoundsAssumption /\ MemoryInit => MemoryInv
<1> SUFFICES ASSUME BoundsAssumption, MemoryInit PROVE MemoryInv
  OBVIOUS
<1>1. pend \in [Actors -> [Records -> LifecycleState \cup {"none"}]]
      /\ \A a \in Actors : \A r \in Records : pend[a][r] = "none"
  BY DEF MemoryInit, NoWrites
<1>2. turn \in [Turns -> [pc : {"idle", "filtered", "persisting", "done"}, todo : SUBSET Contents, tries : Nat]]
      /\ \A t \in Turns : turn[t].todo = {}
  BY DEF MemoryInit
<1>3. pass \in [Turns -> [pc : {"none", "scheduled", "done"} \cup Retired, todo : SUBSET Records, at : SUBSET Records]]
      /\ \A t \in Turns : pass[t].todo = {} /\ pass[t].at = {} /\ pass[t].pc = "none"
  BY DEF MemoryInit, NoPass
<1>4. del \in [pc : {"idle", "read", "written", "done"}, rec : SUBSET Records] /\ del.rec = {}
  BY DEF MemoryInit
<1>5. MemoryTypes
  BY <1>1, <1>2, <1>3, <1>4 DEF MemoryTypes, MemoryInit
<1>6. \A r \in Records : row[r] = "absent"
  BY DEF MemoryInit
<1>7. \A t \in Turns : \A r \in Records : pend[<<"turn", t>>][r] = "none" /\ pend[<<"pass", t>>][r] = "none"
  BY <1>1, ActorNames
<1>8. \A r \in Records : pend[Deleter][r] = "none"
  BY <1>1, ActorNames
<1>9. Learned
  BY <1>2, <1>6, <1>7 DEF Learned
<1>10. Rewrites
  BY <1>3, <1>4, <1>7, <1>8 DEF Rewrites
<1>11. Losers
  BY <1>3, <1>6, <1>7 DEF Losers, Retired
<1> QED
  BY <1>5, <1>9, <1>10, <1>11 DEF MemoryInv

\* What is stored stays stored, so that what was superseded stays superseded.
LEMMA SupersededKept ==
  ASSUME UNCHANGED place, \A r \in Records : row[r] # "absent" => row'[r] # "absent",
         NEW r \in Records, Superseded(r)
  PROVE  Superseded(r)'
BY DEF Superseded, Better

LEMMA Types == MemoryInv => MemoryTypes
BY DEF MemoryInv

\* The preservation argument: what a step adds to the rows, the open transactions and the
\* work of the passes.
LEMMA StepInv ==
  ASSUME MemoryInv, MemoryTypes', UNCHANGED place,
         \A r \in Records : row'[r] = row[r] \/ (row'[r] # "absent" /\ kind'[r] # "none" /\ turn'[r[1]].pc # "idle" /\ Rightly(r)),
         \A r \in Records : kind'[r] = kind[r] \/ kind'[r] # "none" \/ row[r] = "absent",
         \A t \in Turns : \A r \in Records :
             /\ pend'[<<"turn", t>>][r] # "none" =>
                   r[1] = t /\ kind'[r] # "none" /\ pend'[<<"turn", t>>][r] = "active" /\ turn'[t].pc # "idle"
             /\ pend'[<<"pass", t>>][r] # "none" =>
                   pend'[<<"pass", t>>][r] = pend[<<"pass", t>>][r] \/ (r \in pass[t].at /\ pend'[<<"pass", t>>][r] \in Retired),
         \A t \in Turns : \A c \in turn'[t].todo : kind'[<<t, c>>] # "none",
         \A t \in Turns : turn'[t].pc = "idle" => turn[t].pc = "idle",
         \A t \in Turns : \A r \in pass'[t].todo \cup pass'[t].at :
             r \in Records /\ row[r] # "absent" /\ (r \in del.rec \/ Superseded(r)),
         \A t \in Turns : turn'[t].pc # "done" => pass'[t].pc = "none",
         \A t \in Turns : pass'[t].pc \notin Retired => pass'[t].todo = {} /\ pass'[t].at = {},
         \A r \in Records : pend'[Deleter][r] # "none" => r \in del'.rec,
         del.rec \subseteq del'.rec, \A r \in del'.rec : row[r] # "absent", del'.pc = "idle" => del'.rec = {}
  PROVE  MemoryInv'
<1>1. BoundsAssumption'
  BY DEF MemoryInv, BoundsAssumption
<1>2. \A r \in Records : row[r] # "absent" => row'[r] # "absent"
  OBVIOUS
<1>3. \A r \in Records : Superseded(r) => Superseded(r)'
  BY <1>2, SupersededKept
<1>4. Learned'
  <2>1. \A r \in Records : row'[r] # "absent" => kind'[r] # "none"
    BY DEF MemoryInv, Learned
  <2>2. ASSUME NEW t \in Turns, turn'[t].pc = "idle", NEW r \in Records
        PROVE  (r[1] = t => row'[r] = "absent") /\ pend'[<<"turn", t>>][r] = "none"
    <3>1. turn[t].pc = "idle"
      BY <2>2
    <3>2. r[1] = t => row[r] = "absent" /\ row'[r] = row[r]
      <4> SUFFICES ASSUME r[1] = t PROVE row[r] = "absent" /\ row'[r] = row[r]
        OBVIOUS
      <4>1. row[r] = "absent"
        BY <3>1 DEF MemoryInv, Learned
      <4>2. turn'[r[1]].pc = "idle"
        BY <2>2
      <4> QED
        BY <4>1, <4>2
    <3>3. pend'[<<"turn", t>>][r] # "none" => turn'[t].pc # "idle"
      OBVIOUS
    <3> QED
      BY <2>2, <3>2, <3>3
  <2> QED
    BY <2>1, <2>2 DEF Learned
<1>5. Rewrites'
  <2>1. ASSUME NEW t \in Turns, NEW r \in Records, pend'[<<"pass", t>>][r] # "none"
        PROVE  row'[r] # "absent" /\ pend'[<<"pass", t>>][r] \in Retired
    <3>1. CASE pend'[<<"pass", t>>][r] = pend[<<"pass", t>>][r]
      <4>1. pend[<<"pass", t>>][r] # "none"
        BY <2>1, <3>1
      <4>2. row[r] # "absent" /\ pend[<<"pass", t>>][r] \in Retired
        BY <4>1 DEF MemoryInv, Rewrites
      <4> QED
        BY <1>2, <3>1, <4>2
    <3>2. CASE r \in pass[t].at /\ pend'[<<"pass", t>>][r] \in Retired
      BY <1>2, <3>2 DEF MemoryInv, Rewrites
    <3> QED
      BY <2>1, <3>1, <3>2
  <2>2. \A r \in del'.rec : r \in Records
    BY DEF MemoryTypes
  <2> QED
    BY <1>2, <2>1, <2>2 DEF Rewrites
<1>6. Losers'
  <2> SUFFICES ASSUME NEW r \in Records \ del'.rec
               PROVE  /\ row'[r] \in Retired => Superseded(r)
                      /\ \A t \in Turns :
                            pend'[<<"pass", t>>][r] # "none" \/ r \in pass'[t].todo \cup pass'[t].at => Superseded(r)
    BY <1>3 DEF Losers
  <2>1. r \in Records /\ r \notin del.rec
    OBVIOUS
  <2>2. row'[r] \in Retired => Superseded(r)
    BY <2>1 DEF MemoryInv, Losers, Rightly
  <2>3. ASSUME NEW t \in Turns, pend'[<<"pass", t>>][r] # "none" PROVE Superseded(r)
    <3>1. CASE pend'[<<"pass", t>>][r] = pend[<<"pass", t>>][r]
      <4>1. pend[<<"pass", t>>][r] # "none"
        BY <2>3, <3>1
      <4> QED
        BY <2>1, <4>1 DEF MemoryInv, Losers
    <3>2. CASE r \in pass[t].at
      BY <2>1, <3>2 DEF MemoryInv, Losers
    <3> QED
      BY <2>3, <3>1, <3>2
  <2> QED
    BY <2>1, <2>2, <2>3
<1> QED
  BY <1>1, <1>4, <1>5, <1>6 DEF MemoryInv

LEMMA Facts ==
  ASSUME MemoryInv
  PROVE  /\ \A t \in Turns : \A r \in Records : pend[<<"turn", t>>][r] # "none" =>
               r[1] = t /\ kind[r] # "none" /\ pend[<<"turn", t>>][r] = "active" /\ turn[t].pc # "idle"
         /\ \A t \in Turns : \A r \in Records : pend[<<"pass", t>>][r] # "none" =>
               row[r] # "absent" /\ pend[<<"pass", t>>][r] \in Retired /\ (r \in del.rec \/ Superseded(r))
         /\ \A t \in Turns : \A c \in turn[t].todo : kind[<<t, c>>] # "none"
         /\ \A t \in Turns : \A r \in pass[t].todo \cup pass[t].at :
               r \in Records /\ row[r] # "absent" /\ (r \in del.rec \/ Superseded(r))
         /\ \A t \in Turns : pass[t].pc \notin Retired => pass[t].todo = {} /\ pass[t].at = {}
         /\ \A t \in Turns : turn[t].pc # "done" => pass[t].pc = "none"
         /\ \A r \in Records : pend[Deleter][r] # "none" => r \in del.rec
         /\ \A r \in del.rec : r \in Records /\ row[r] # "absent"
         /\ del.pc = "idle" => del.rec = {}
         /\ \A r \in Records : row[r] # "absent" => kind[r] # "none" /\ turn[r[1]].pc # "idle"
         /\ \A r \in Records : row[r] \in Retired => r \in del.rec \/ Superseded(r)
<1>1. ASSUME NEW t \in Turns, NEW r \in Records, pend[<<"turn", t>>][r] # "none"
      PROVE  r[1] = t /\ kind[r] # "none" /\ pend[<<"turn", t>>][r] = "active" /\ turn[t].pc # "idle"
  BY <1>1 DEF MemoryInv, Learned
<1>2. ASSUME NEW t \in Turns, NEW r \in Records, pend[<<"pass", t>>][r] # "none"
      PROVE  row[r] # "absent" /\ pend[<<"pass", t>>][r] \in Retired /\ (r \in del.rec \/ Superseded(r))
  <2>1. row[r] # "absent" /\ pend[<<"pass", t>>][r] \in Retired
    BY <1>2 DEF MemoryInv, Rewrites
  <2>2. r \in del.rec \/ Superseded(r)
    BY <1>2 DEF MemoryInv, Losers
  <2> QED
    BY <2>1, <2>2
<1>3. \A t \in Turns : \A c \in turn[t].todo : kind[<<t, c>>] # "none"
  BY DEF MemoryInv, Learned
<1>4. ASSUME NEW t \in Turns, NEW r \in pass[t].todo \cup pass[t].at
      PROVE  r \in Records /\ row[r] # "absent" /\ (r \in del.rec \/ Superseded(r))
  <2>1. r \in Records
    BY DEF MemoryInv, MemoryTypes
  <2>2. row[r] # "absent"
    BY DEF MemoryInv, Rewrites
  <2>3. r \in del.rec \/ Superseded(r)
    BY <2>1 DEF MemoryInv, Losers
  <2> QED
    BY <2>1, <2>2, <2>3
<1>5. /\ \A t \in Turns : pass[t].pc \notin Retired => pass[t].todo = {} /\ pass[t].at = {}
      /\ \A t \in Turns : turn[t].pc # "done" => pass[t].pc = "none"
      /\ \A r \in Records : pend[Deleter][r] # "none" => r \in del.rec
      /\ del.pc = "idle" => del.rec = {}
  BY DEF MemoryInv, Rewrites
<1>6. \A r \in del.rec : r \in Records /\ row[r] # "absent"
  BY DEF MemoryInv, Rewrites, MemoryTypes
<1>7. ASSUME NEW r \in Records, row[r] # "absent" PROVE kind[r] # "none" /\ turn[r[1]].pc # "idle"
  BY <1>7, RecordNames DEF MemoryInv, Learned
<1>8. \A r \in Records : row[r] \in Retired => r \in del.rec \/ Superseded(r)
  BY DEF MemoryInv, Losers
<1> QED
  BY <1>1, <1>2, <1>3, <1>4, <1>5, <1>6, <1>7, <1>8

\* Steps that add nothing to the open transactions: the rows they commit were justified before.
LEMMA ShrinkInv ==
  ASSUME MemoryInv, MemoryTypes', UNCHANGED <<place, kind>>,
         del'.rec = del.rec, del'.pc = "idle" => del.pc = "idle",
         \A r \in Records : row'[r] = row[r] \/ (row'[r] # "absent" /\ kind[r] # "none" /\ turn[r[1]].pc # "idle" /\ Rightly(r)),
         \A a \in Actors : \A r \in Records : pend'[a][r] = "none" \/ pend'[a][r] = pend[a][r],
         \A t \in Turns : turn'[t].todo \subseteq turn[t].todo /\ (turn'[t].pc = "idle" => turn[t].pc = "idle"),
         \A t \in Turns : \A r \in pass'[t].todo \cup pass'[t].at :
             r \in Records /\ row[r] # "absent" /\ (r \in del.rec \/ Superseded(r)),
         \A t \in Turns : turn'[t].pc # "done" => pass'[t].pc = "none",
         \A t \in Turns : pass'[t].pc \notin Retired => pass'[t].todo = {} /\ pass'[t].at = {}
  PROVE  MemoryInv'
<1>1. \A t \in Turns : \A r \in Records : pend'[<<"turn", t>>][r] # "none" =>
          r[1] = t /\ kind'[r] # "none" /\ pend'[<<"turn", t>>][r] = "active" /\ turn'[t].pc # "idle"
  <2> SUFFICES ASSUME NEW t \in Turns, NEW r \in Records, pend'[<<"turn", t>>][r] # "none"
               PROVE  r[1] = t /\ kind'[r] # "none" /\ pend'[<<"turn", t>>][r] = "active" /\ turn'[t].pc # "idle"
    OBVIOUS
  <2>1. pend'[<<"turn", t>>][r] = pend[<<"turn", t>>][r]
    BY ActorNames
  <2>2. r[1] = t /\ kind[r] # "none" /\ pend[<<"turn", t>>][r] = "active" /\ turn[t].pc # "idle"
    BY <2>1, Facts
  <2> QED
    BY <2>1, <2>2
<1>2. \A t \in Turns : \A r \in Records : pend'[<<"pass", t>>][r] # "none" =>
          pend'[<<"pass", t>>][r] = pend[<<"pass", t>>][r]
  BY ActorNames
<1>3. \A r \in Records : pend'[Deleter][r] # "none" => r \in del'.rec
  BY ActorNames, Facts
<1>4. \A r \in Records : row'[r] = row[r] \/ (row'[r] # "absent" /\ kind'[r] # "none" /\ turn'[r[1]].pc # "idle" /\ Rightly(r))
  BY RecordNames
<1>5. ASSUME NEW t \in Turns, NEW c \in turn'[t].todo PROVE kind'[<<t, c>>] # "none"
  <2>1. c \in turn[t].todo
    OBVIOUS
  <2>2. kind[<<t, c>>] # "none"
    BY <2>1, Facts
  <2> QED
    BY <2>2
<1>6. \A r \in del'.rec : row[r] # "absent"
  BY Facts
<1>7. del'.pc = "idle" => del'.rec = {}
  BY Facts
<1> QED
  BY <1>1, <1>2, <1>3, <1>4, <1>5, <1>6, <1>7, StepInv

\* What a transaction commits.
LEMMA Committed ==
  ASSUME MemoryInv, NEW a \in Actors, Commit(a)
  PROVE  /\ row' \in [Records -> LifecycleState \cup {"absent"}]
         /\ pend' \in [Actors -> [Records -> LifecycleState \cup {"none"}]]
         /\ \A b \in Actors : \A r \in Records : pend'[b][r] = "none" \/ pend'[b][r] = pend[b][r]
         /\ \A r \in Records : row'[r] = row[r] \/ (row'[r] # "absent" /\ kind[r] # "none" /\ turn[r[1]].pc # "idle" /\ Rightly(r))
<1>1. row \in [Records -> LifecycleState \cup {"absent"}] /\ pend \in [Actors -> [Records -> LifecycleState \cup {"none"}]]
  BY Types DEF MemoryTypes
<1>2. \A r \in Records : row'[r] = Seen(a, r) /\ Seen(a, r) \in LifecycleState \cup {"absent"}
  BY <1>1 DEF Commit, Seen
<1>3. row' \in [Records -> LifecycleState \cup {"absent"}]
  BY <1>2 DEF Commit
<1>4. /\ pend' \in [Actors -> [Records -> LifecycleState \cup {"none"}]]
      /\ \A b \in Actors : \A r \in Records : pend'[b][r] = "none" \/ pend'[b][r] = pend[b][r]
  BY <1>1 DEF Commit, NoWrites
<1>5. ASSUME NEW r \in Records, row'[r] # row[r]
      PROVE  /\ row'[r] # "absent" /\ kind[r] # "none" /\ turn[r[1]].pc # "idle"
             /\ Rightly(r)
  <2>1. row'[r] = pend[a][r] /\ pend[a][r] # "none"
    BY <1>2, <1>5 DEF Seen
  <2>2. pend[a][r] \in LifecycleState
    BY <1>1, <2>1
  <2>3. row'[r] # "absent"
    BY <2>1, <2>2 DEF LifecycleState
  <2>4. CASE a = Deleter
    BY <2>1, <2>3, <2>4, Facts DEF Rightly
  <2>5. ASSUME NEW t \in Turns, a = <<"turn", t>>
        PROVE  kind[r] # "none" /\ turn[r[1]].pc # "idle" /\ row'[r] = "active"
    BY <2>1, <2>5, Facts
  <2>6. ASSUME NEW t \in Turns, a = <<"pass", t>>
        PROVE  kind[r] # "none" /\ turn[r[1]].pc # "idle" /\ (r \in del.rec \/ Superseded(r))
    <3>1. row[r] # "absent" /\ (r \in del.rec \/ Superseded(r))
      BY <2>1, <2>6, Facts
    <3> QED
      BY <3>1, Facts
  <2> QED
    BY <2>3, <2>4, <2>5, <2>6, ActorNames DEF Retired, Rightly
<1> QED
  BY <1>3, <1>4, <1>5

LEMMA RolledBack ==
  ASSUME MemoryInv, NEW a \in Actors, Rollback(a)
  PROVE  /\ pend' \in [Actors -> [Records -> LifecycleState \cup {"none"}]]
         /\ \A b \in Actors : \A r \in Records : pend'[b][r] = "none" \/ pend'[b][r] = pend[b][r]
BY Types DEF MemoryTypes, Rollback, NoWrites

-----------------------------------------------------------------------------
(* Extraction *)

TurnRecord == [pc : {"idle", "filtered", "persisting", "done"}, todo : SUBSET Contents, tries : Nat]
PassRecord == [pc : {"none", "scheduled", "done"} \cup Retired, todo : SUBSET Records, at : SUBSET Records]

LEMMA ExtractInv ==
  ASSUME MemoryInv, NEW t \in Turns, extract_candidates(t)
  PROVE  MemoryInv'
<1>1. PICK cands \in [Contents -> {"none", "user", "project"}] :
        /\ kind' = [r \in Records |-> IF r[1] = t THEN cands[r[2]] ELSE kind[r]]
        /\ turn' = [turn EXCEPT ![t].pc = IF { c \in Contents : cands[c] # "none" } = {} THEN "done" ELSE "filtered",
                                ![t].todo = { c \in Contents : cands[c] # "none" }]
  BY DEF extract_candidates
<1>2. turn[t].pc = "idle" /\ UNCHANGED <<session, place, row, pend, pass, del>>
  BY DEF extract_candidates
<1>3. kind' \in [Records -> {"none", "user", "project"}]
  BY <1>1, RecordNames, Types DEF MemoryTypes
<1>4. /\ turn' \in [Turns -> TurnRecord] /\ turn'[t].pc # "idle"
      /\ turn'[t].todo = { c \in Contents : cands[c] # "none" }
      /\ \A u \in Turns \ {t} : turn'[u] = turn[u]
  <2>1. PICK st \in {"done", "filtered"}, found \in SUBSET Contents :
          turn' = [turn EXCEPT ![t].pc = st, ![t].todo = found] /\ found = { c \in Contents : cands[c] # "none" }
    BY <1>1
  <2>2. turn \in [Turns -> TurnRecord]
    BY Types DEF MemoryTypes, TurnRecord
  <2>3. turn' \in [Turns -> TurnRecord] /\ turn'[t].pc = st /\ turn'[t].todo = found
        /\ \A u \in Turns \ {t} : turn'[u] = turn[u]
    <3>1. turn' = [turn EXCEPT ![t].pc = st, ![t].todo = found]
      BY <2>1
    <3> QED
      BY <2>2, <3>1 DEF TurnRecord
  <2> QED
    BY <2>1, <2>3
<1>5. MemoryTypes'
  BY <1>2, <1>3, <1>4, Types DEF MemoryTypes, TurnRecord
<1>6. \A r \in Records : r[1] # t => kind'[r] = kind[r]
  BY <1>1
<1>7. \A r \in Records : r[1] = t => row[r] = "absent" /\ pend[<<"turn", t>>][r] = "none"
  BY <1>2 DEF MemoryInv, Learned
<1>8. ASSUME NEW u \in Turns, NEW r \in Records, pend'[<<"turn", u>>][r] # "none"
      PROVE  r[1] = u /\ kind'[r] # "none" /\ pend'[<<"turn", u>>][r] = "active" /\ turn'[u].pc # "idle"
  <2>1. r[1] = u /\ kind[r] # "none" /\ pend[<<"turn", u>>][r] = "active" /\ turn[u].pc # "idle"
    BY <1>2, <1>8, Facts
  <2>2. u # t
    BY <1>2, <2>1
  <2> QED
    BY <1>2, <1>4, <1>6, <2>1, <2>2
<1>9. ASSUME NEW u \in Turns, NEW c \in turn'[u].todo PROVE kind'[<<u, c>>] # "none"
  <2>1. CASE u = t
    <3>1. c \in Contents /\ cands[c] # "none" /\ <<t, c>> \in Records
      BY <1>4, <1>9, <2>1 DEF Records
    <3> QED
      BY <1>1, <2>1, <3>1
  <2>2. CASE u # t
    <3>1. c \in turn[u].todo /\ c \in Contents
      BY <1>4, <1>9, <2>2, Types DEF MemoryTypes
    <3>2. <<u, c>> \in Records /\ kind[<<u, c>>] # "none"
      BY <3>1, Facts DEF Records
    <3> QED
      BY <1>6, <2>2, <3>2
  <2> QED
    BY <2>1, <2>2
<1>10. \A r \in Records : kind'[r] = kind[r] \/ kind'[r] # "none" \/ row[r] = "absent"
  BY <1>6, <1>7
<1>11. \A u \in Turns : turn'[u].pc = "idle" => turn[u].pc = "idle"
  BY <1>2, <1>4
<1>14. \A u \in Turns : turn'[u].pc # "done" => pass'[u].pc = "none"
  BY <1>2, <1>4, Facts
<1>12. \A u \in Turns : \A r \in pass'[u].todo \cup pass'[u].at :
          r \in Records /\ row[r] # "absent" /\ (r \in del.rec \/ Superseded(r))
  BY <1>2, Facts
<1>13. /\ \A u \in Turns : pass'[u].pc \notin Retired => pass'[u].todo = {} /\ pass'[u].at = {}
       /\ \A r \in Records : pend'[Deleter][r] # "none" => r \in del'.rec
       /\ \A r \in del'.rec : row[r] # "absent"
       /\ del'.pc = "idle" => del'.rec = {}
  BY <1>2, Facts
<1> QED
  BY <1>2, <1>5, <1>8, <1>9, <1>10, <1>11, <1>12, <1>13, <1>14, StepInv

LEMMA PassKept ==
  ASSUME MemoryInv
  PROVE  /\ \A t \in Turns : \A r \in pass[t].todo \cup pass[t].at :
               r \in Records /\ row[r] # "absent" /\ (r \in del.rec \/ Superseded(r))
         /\ \A t \in Turns : pass[t].pc \notin Retired => pass[t].todo = {} /\ pass[t].at = {}
BY Facts

LEMMA DropInv ==
  ASSUME MemoryInv, NEW t \in Turns,
         dedupe_by_embedding(t) \/ create_record_fails(t) \/ _run_extraction_pipeline_fails(t)
  PROVE  MemoryInv'
<1>1. UNCHANGED <<session, place, row, kind, pass, del>>
  BY DEF dedupe_by_embedding, create_record_fails, _run_extraction_pipeline_fails
<1>2. turn[t].pc # "idle"
  BY DEF dedupe_by_embedding, create_record_fails, _run_extraction_pipeline_fails
<1>3. /\ pend' \in [Actors -> [Records -> LifecycleState \cup {"none"}]]
      /\ \A b \in Actors : \A r \in Records : pend'[b][r] = "none" \/ pend'[b][r] = pend[b][r]
  <2>1. CASE dedupe_by_embedding(t)
    BY <2>1, Types DEF dedupe_by_embedding, MemoryTypes
  <2>2. CASE Rollback(<<"turn", t>>)
    BY <2>2, RolledBack, ActorNames
  <2> QED
    BY <2>1, <2>2 DEF create_record_fails, _run_extraction_pipeline_fails
<1>4. /\ turn' \in [Turns -> TurnRecord]
      /\ \A u \in Turns : turn'[u].todo \subseteq turn[u].todo /\ (turn'[u].pc = "idle" => turn[u].pc = "idle")
  <2>0. turn \in [Turns -> TurnRecord]
    BY Types DEF MemoryTypes, TurnRecord
  <2>1. CASE dedupe_by_embedding(t)
    <3>1. PICK approved \in SUBSET turn[t].todo :
            turn' = [turn EXCEPT ![t].pc = IF approved = {} THEN "done" ELSE "persisting", ![t].todo = approved]
      BY <2>1 DEF dedupe_by_embedding
    <3> QED
      BY <1>2, <2>0, <3>1 DEF TurnRecord
  <2>2. CASE create_record_fails(t)
    <3>1. PICK todo \in SUBSET turn[t].todo, tries \in Nat : turn' = [turn EXCEPT ![t].todo = todo, ![t].tries = tries]
      <4>1. PICK c \in next_candidate(turn[t].todo) :
              turn' = [turn EXCEPT ![t].todo = IF turn[t].tries + 1 >= MaxAttempts THEN @ \ {c} ELSE @,
                                   ![t].tries = IF turn[t].tries + 1 >= MaxAttempts THEN 0 ELSE @ + 1]
        BY <2>2 DEF create_record_fails
      <4>2. turn[t].tries \in Nat
        BY <2>0 DEF TurnRecord
      <4>3. CASE turn[t].tries + 1 >= MaxAttempts
        BY <2>0, <4>1, <4>3
      <4>4. CASE ~(turn[t].tries + 1 >= MaxAttempts)
        <5>1. turn' = [turn EXCEPT ![t].todo = turn[t].todo, ![t].tries = turn[t].tries + 1]
          BY <2>0, <4>1, <4>4
        <5>2. turn[t].todo \in SUBSET turn[t].todo /\ turn[t].tries + 1 \in Nat
          BY <4>2
        <5> QED
          BY <5>1, <5>2
      <4> QED
        BY <4>3, <4>4
    <3> QED
      BY <1>2, <2>0, <3>1 DEF TurnRecord
  <2>3. CASE _run_extraction_pipeline_fails(t)
    BY <1>2, <2>0, <2>3 DEF _run_extraction_pipeline_fails, TurnRecord
  <2> QED
    BY <2>1, <2>2, <2>3
<1>5. MemoryTypes'
  BY <1>1, <1>3, <1>4, Types DEF MemoryTypes, TurnRecord
<1>6. \A u \in Turns : turn'[u].pc # "done" => pass'[u].pc = "none"
  <2>1. turn[t].pc # "done" /\ \A u \in Turns \ {t} : turn'[u] = turn[u]
    BY Types DEF dedupe_by_embedding, create_record_fails, _run_extraction_pipeline_fails, MemoryTypes
  <2> QED
    BY <1>1, <2>1, Facts
<1> QED
  BY <1>1, <1>3, <1>4, <1>5, <1>6, PassKept, ShrinkInv

LEMMA PersistInv ==
  ASSUME MemoryInv, NEW t \in Turns, _persist_candidate(t)
  PROVE  MemoryInv'
<1>1. PICK c \in next_candidate(turn[t].todo) :
        /\ Write(<<"turn", t>>, <<t, c>>, "active")
        /\ turn' = [turn EXCEPT ![t].todo = @ \ {c}, ![t].tries = 0]
  BY DEF _persist_candidate, activate_record, VALID_TRANSITIONS, LifecycleState
<1>2. turn[t].pc = "persisting" /\ UNCHANGED <<session, place, row, kind, pass, del>>
  BY DEF _persist_candidate
<1>3. c \in turn[t].todo /\ c \in Contents /\ <<t, c>> \in Records /\ kind[<<t, c>>] # "none"
  BY <1>1, Facts, Types DEF next_candidate, MemoryTypes, Records
<1>4. /\ turn' \in [Turns -> TurnRecord]
      /\ \A u \in Turns : turn'[u].todo \subseteq turn[u].todo /\ turn'[u].pc = turn[u].pc
  BY <1>1, Types DEF MemoryTypes, TurnRecord
<1>5. /\ pend' \in [Actors -> [Records -> LifecycleState \cup {"none"}]]
      /\ pend'[<<"turn", t>>][<<t, c>>] = "active"
      /\ \A a \in Actors : \A r \in Records : <<a, r>> # <<<<"turn", t>>, <<t, c>>>> => pend'[a][r] = pend[a][r]
  BY <1>1, <1>3, Types, ActorNames DEF MemoryTypes, Write, LifecycleState
<1>6. MemoryTypes'
  BY <1>2, <1>4, <1>5, Types DEF MemoryTypes, TurnRecord
<1>7. ASSUME NEW u \in Turns, NEW r \in Records, pend'[<<"turn", u>>][r] # "none"
      PROVE  r[1] = u /\ kind'[r] # "none" /\ pend'[<<"turn", u>>][r] = "active" /\ turn'[u].pc # "idle"
  <2>1. CASE u = t /\ r = <<t, c>>
    BY <1>2, <1>3, <1>4, <1>5, <2>1
  <2>2. CASE ~(u = t /\ r = <<t, c>>)
    <3>1. pend'[<<"turn", u>>][r] = pend[<<"turn", u>>][r]
      BY <1>5, <2>2, ActorNames
    <3>2. r[1] = u /\ kind[r] # "none" /\ pend[<<"turn", u>>][r] = "active" /\ turn[u].pc # "idle"
      BY <1>7, <3>1, Facts
    <3> QED
      BY <1>2, <1>4, <3>1, <3>2
  <2> QED
    BY <2>1, <2>2
<1>8. \A u \in Turns : \A r \in Records : pend'[<<"pass", u>>][r] = pend[<<"pass", u>>][r]
  BY <1>5, ActorNames
<1>9. \A r \in Records : pend'[Deleter][r] = pend[Deleter][r]
  BY <1>5, ActorNames
<1>10. ASSUME NEW u \in Turns, NEW d \in turn'[u].todo PROVE kind'[<<u, d>>] # "none"
  BY <1>2, <1>4, Facts
<1>11. \A u \in Turns : turn'[u].pc = "idle" => turn[u].pc = "idle"
  BY <1>4
<1>14. \A u \in Turns : turn'[u].pc # "done" => pass'[u].pc = "none"
  BY <1>2, <1>4, Facts
<1>12. \A u \in Turns : \A r \in pass'[u].todo \cup pass'[u].at :
          r \in Records /\ row[r] # "absent" /\ (r \in del.rec \/ Superseded(r))
  BY <1>2, Facts
<1>13. /\ \A u \in Turns : pass'[u].pc \notin Retired => pass'[u].todo = {} /\ pass'[u].at = {}
       /\ \A r \in Records : pend'[Deleter][r] # "none" => r \in del'.rec
       /\ \A r \in del'.rec : row[r] # "absent"
       /\ del'.pc = "idle" => del'.rec = {}
  BY <1>2, <1>9, Facts
<1> QED
  BY <1>2, <1>6, <1>7, <1>8, <1>10, <1>11, <1>12, <1>13, <1>14, StepInv

LEMMA ApprovedInv ==
  ASSUME MemoryInv, NEW t \in Turns, _persist_approved_candidates(t)
  PROVE  MemoryInv'
<1>1. Commit(<<"turn", t>>) /\ UNCHANGED <<session, place, kind, del>> /\ turn[t].pc # "done"
  BY DEF _persist_approved_candidates
<1>2. /\ turn' \in [Turns -> TurnRecord]
      /\ \A u \in Turns : turn'[u].todo \subseteq turn[u].todo /\ (turn'[u].pc = "idle" => turn[u].pc = "idle")
      /\ turn'[t].pc = "done" /\ \A u \in Turns \ {t} : turn'[u] = turn[u]
  BY Types DEF MemoryTypes, TurnRecord, _persist_approved_candidates
<1>3. /\ pass' \in [Turns -> PassRecord]
      /\ \A u \in Turns :
            /\ pass'[u].todo = pass[u].todo /\ pass'[u].at = pass[u].at
            /\ pass'[u].pc = pass[u].pc \/ (u = t /\ pass'[u].pc = "scheduled")
  BY Types DEF MemoryTypes, PassRecord, _persist_approved_candidates
<1>4. /\ row' \in [Records -> LifecycleState \cup {"absent"}]
      /\ pend' \in [Actors -> [Records -> LifecycleState \cup {"none"}]]
      /\ \A b \in Actors : \A r \in Records : pend'[b][r] = "none" \/ pend'[b][r] = pend[b][r]
      /\ \A r \in Records : row'[r] = row[r] \/ (row'[r] # "absent" /\ kind[r] # "none" /\ turn[r[1]].pc # "idle" /\ Rightly(r))
  BY <1>1, Committed, ActorNames
<1>5. MemoryTypes'
  BY <1>1, <1>2, <1>3, <1>4, Types DEF MemoryTypes, TurnRecord, PassRecord
<1>6. pass[t].todo = {} /\ pass[t].at = {}
  <2>1. pass[t].pc = "none"
    BY <1>1, Facts
  <2> QED
    BY <2>1, Facts DEF Retired
<1>7. \A u \in Turns : pass'[u].pc \notin Retired => pass'[u].todo = {} /\ pass'[u].at = {}
  BY <1>3, <1>6, Facts
<1>8. \A u \in Turns : turn'[u].pc # "done" => pass'[u].pc = "none"
  BY <1>2, <1>3, Facts
<1>9. \A u \in Turns : \A r \in pass'[u].todo \cup pass'[u].at :
          r \in Records /\ row[r] # "absent" /\ (r \in del.rec \/ Superseded(r))
  BY <1>3, Facts
<1> QED
  BY <1>1, <1>2, <1>4, <1>5, <1>7, <1>8, <1>9, ShrinkInv

-----------------------------------------------------------------------------
(* The lifecycle pass *)

\* A row a pass can see is committed.
LEMMA SeenStored ==
  ASSUME MemoryInv, NEW t \in Turns, NEW r \in Records, Seen(<<"pass", t>>, r) # "absent"
  PROVE  row[r] # "absent"
BY Facts DEF Seen

\* What a pass sets out to do, it may do to what is superseded only.
LEMMA WorkInv ==
  ASSUME MemoryInv, NEW t \in Turns,
         _run_consolidation(t) \/ _run_archival(t) \/ _run_retention_deletion(t) \/ validate_transition(t)
  PROVE  MemoryInv'
<1>1. UNCHANGED <<session, place, row, kind, pend, turn, del>>
  BY DEF _run_consolidation, _run_archival, _run_retention_deletion, validate_transition
<1>2. pass \in [Turns -> PassRecord]
  BY Types DEF MemoryTypes, PassRecord
<1>3. PICK p \in PassRecord :
        /\ pass' = [pass EXCEPT ![t] = p] /\ p.pc \in Retired /\ pass[t].pc # "none"
        /\ \A r \in p.todo \cup p.at : r \in Records /\ row[r] # "absent" /\ (r \in del.rec \/ Superseded(r))
  <2>1. CASE _run_consolidation(t)
    <3>1. ASSUME NEW r \in redundant(t)
          PROVE  r \in Records /\ row[r] # "absent" /\ Superseded(r)
      <4>1. PICK q \in Records :
            /\ q[2] = r[2] /\ Better(q, r) /\ r \in Records
            /\ Seen(<<"pass", t>>, q) # "absent" /\ Seen(<<"pass", t>>, r) # "absent"
        BY <3>1 DEF redundant, _load_manageable_records, list_records, Newest, Found, Manageable, Stored
      <4> QED
        BY <4>1, SeenStored DEF Superseded
    <3> DEFINE p == [pass[t] EXCEPT !.pc = "consolidated", !.todo = redundant(t)]
    <3>2. p \in PassRecord /\ p.pc \in Retired /\ p.todo = redundant(t) /\ p.at = pass[t].at
      BY <1>2, <3>1 DEF PassRecord, Retired
    <3>3. pass' = [pass EXCEPT ![t] = p]
      BY <1>2, <2>1 DEF _run_consolidation
    <3>4. pass[t].pc # "none"
      BY <2>1 DEF _run_consolidation
    <3> HIDE DEF p
    <3>5. \A r \in p.todo \cup p.at : r \in Records /\ row[r] # "absent" /\ (r \in del.rec \/ Superseded(r))
      BY <3>1, <3>2, PassKept
    <3> QED
      BY <3>2, <3>3, <3>4, <3>5
  <2>2. CASE _run_archival(t)
    <3> DEFINE work == { r \in _load_manageable_records(<<"pass", t>>, session[t]) :
                           Seen(<<"pass", t>>, r) = "consolidated" }
               p == [pass[t] EXCEPT !.pc = "archived", !.todo = work]
    <3>1. ASSUME NEW r \in work
          PROVE  r \in Records /\ row[r] # "absent" /\ (r \in del.rec \/ Superseded(r))
      <4>1. r \in Records /\ Seen(<<"pass", t>>, r) = "consolidated"
        BY <3>1 DEF _load_manageable_records, list_records, Newest, Found, Manageable, Stored
      <4>2. row[r] # "absent"
        BY <4>1, SeenStored
      <4>3. pend[<<"pass", t>>][r] # "none" \/ row[r] \in Retired
        BY <4>1 DEF Seen, Retired
      <4> QED
        BY <4>1, <4>2, <4>3, Facts
    <3> HIDE DEF work
    <3>2. p \in PassRecord /\ p.pc \in Retired /\ p.todo = work /\ p.at = pass[t].at
      BY <1>2, <3>1 DEF PassRecord, Retired
    <3>3. pass' = [pass EXCEPT ![t] = p]
      BY <1>2, <2>2 DEF _run_archival, work
    <3>4. pass[t].pc # "none"
      BY <2>2 DEF _run_archival
    <3> HIDE DEF p
    <3> QED
      BY <3>1, <3>2, <3>3, <3>4, Facts
  <2>3. CASE _run_retention_deletion(t)
    <3>1. PICK expired \in SUBSET { r \in _load_archived_records(<<"pass", t>>, session[t]) : row[r] = "archived" } :
            pass' = [pass EXCEPT ![t].pc = "deleted", ![t].todo = expired]
      BY <2>3 DEF _run_retention_deletion
    <3> DEFINE p == [pass[t] EXCEPT !.pc = "deleted", !.todo = expired]
    <3>2. ASSUME NEW r \in expired
          PROVE  r \in Records /\ row[r] # "absent" /\ (r \in del.rec \/ Superseded(r))
      <4>1. r \in Records /\ row[r] = "archived"
        BY <3>2 DEF _load_archived_records, list_records, Newest, Found, Manageable, Stored
      <4> QED
        BY <4>1, Facts DEF Retired
    <3>3. p \in PassRecord /\ p.pc \in Retired /\ p.todo = expired /\ p.at = pass[t].at
      BY <1>2, <3>2 DEF PassRecord, Retired
    <3>4. pass' = [pass EXCEPT ![t] = p]
      BY <1>2, <3>1
    <3>5. pass[t].pc # "none"
      BY <2>3 DEF _run_retention_deletion
    <3> HIDE DEF p
    <3> QED
      BY <3>2, <3>3, <3>4, <3>5, Facts
  <2>4. CASE validate_transition(t)
    <3>0. PICK r \in pass[t].todo :
             pass' = [pass EXCEPT ![t].todo = @ \ {r},
                       ![t].at = IF pass[t].pc \in VALID_TRANSITIONS[Seen(<<"pass", t>>, r)] THEN {r} ELSE {}]
      BY <2>4 DEF validate_transition
    <3>1. PICK at \in SUBSET {r} : pass' = [pass EXCEPT ![t].todo = @ \ {r}, ![t].at = at]
      BY <3>0
    <3> DEFINE p == [pass[t] EXCEPT !.todo = @ \ {r}, !.at = at]
    <3>2. pass[t].pc \in Retired /\ pass[t].pc # "none"
      BY Facts DEF Retired
    <3>3. r \in Records /\ row[r] # "absent" /\ (r \in del.rec \/ Superseded(r))
      BY Facts
    <3>4. p \in PassRecord /\ p.pc = pass[t].pc /\ p.todo = pass[t].todo \ {r} /\ p.at = at
      BY <1>2, <3>3 DEF PassRecord
    <3>5. pass' = [pass EXCEPT ![t] = p]
      BY <1>2, <3>1
    <3> HIDE DEF p
    <3>6. \A q \in p.todo \cup p.at : q \in Records /\ row[q] # "absent" /\ (q \in del.rec \/ Superseded(q))
      BY <3>3, <3>4, PassKept
    <3> QED
      BY <3>2, <3>4, <3>5, <3>6
  <2> QED
    BY <2>1, <2>2, <2>3, <2>4
<1>4. pass' \in [Turns -> PassRecord] /\ pass'[t] = p /\ \A u \in Turns \ {t} : pass'[u] = pass[u]
  BY <1>2, <1>3
<1>5. MemoryTypes'
  BY <1>1, <1>4, Types DEF MemoryTypes, PassRecord
<1>6. \A u \in Turns : \A r \in pass'[u].todo \cup pass'[u].at :
          r \in Records /\ row[r] # "absent" /\ (r \in del.rec \/ Superseded(r))
  BY <1>3, <1>4, Facts
<1>7. \A u \in Turns : pass'[u].pc \notin Retired => pass'[u].todo = {} /\ pass'[u].at = {}
  BY <1>3, <1>4, Facts
<1>8. \A u \in Turns : turn'[u].pc # "done" => pass'[u].pc = "none"
  BY <1>1, <1>3, <1>4, Facts
<1> QED
  BY <1>1, <1>5, <1>6, <1>7, <1>8, ShrinkInv

\* A pass that ends, well or not.
LEMMA EndPassInv ==
  ASSUME MemoryInv, NEW t \in Turns, commit_pass(t) \/ pass_fails(t)
  PROVE  MemoryInv'
<1>1. UNCHANGED <<session, place, kind, turn, del>> /\ pass[t].pc # "none"
  BY DEF commit_pass, pass_fails
<1>2. /\ row' \in [Records -> LifecycleState \cup {"absent"}]
      /\ pend' \in [Actors -> [Records -> LifecycleState \cup {"none"}]]
      /\ \A b \in Actors : \A r \in Records : pend'[b][r] = "none" \/ pend'[b][r] = pend[b][r]
      /\ \A r \in Records : row'[r] = row[r] \/ (row'[r] # "absent" /\ kind[r] # "none" /\ turn[r[1]].pc # "idle" /\ Rightly(r))
  <2>1. CASE Commit(<<"pass", t>>)
    BY <2>1, Committed, ActorNames
  <2>2. CASE Rollback(<<"pass", t>>) /\ UNCHANGED row
    BY <2>2, RolledBack, ActorNames, Types DEF MemoryTypes
  <2> QED
    BY <2>1, <2>2 DEF commit_pass, pass_fails
<1>3. /\ pass' \in [Turns -> PassRecord] /\ \A u \in Turns \ {t} : pass'[u] = pass[u]
      /\ pass'[t].todo = {} /\ pass'[t].at = {} /\ pass'[t].pc = "done"
  <2>1. [NoPass EXCEPT !.pc = "done"] = [pc |-> "done", todo |-> {}, at |-> {}]
    BY DEF NoPass
  <2>2. pass' = [pass EXCEPT ![t] = [pc |-> "done", todo |-> {}, at |-> {}]]
    BY <2>1 DEF commit_pass, pass_fails
  <2>3. pass \in [Turns -> PassRecord] /\ [pc |-> "done", todo |-> {}, at |-> {}] \in PassRecord
    BY Types DEF MemoryTypes, PassRecord
  <2> QED
    BY <2>2, <2>3
<1>4. MemoryTypes'
  BY <1>1, <1>2, <1>3, Types DEF MemoryTypes, PassRecord
<1>5. \A u \in Turns : \A r \in pass'[u].todo \cup pass'[u].at :
          r \in Records /\ row[r] # "absent" /\ (r \in del.rec \/ Superseded(r))
  BY <1>3, PassKept
<1>6. \A u \in Turns : pass'[u].pc \notin Retired => pass'[u].todo = {} /\ pass'[u].at = {}
  BY <1>3, PassKept
<1>7. \A u \in Turns : turn'[u].pc # "done" => pass'[u].pc = "none"
  BY <1>1, <1>3, Facts
<1> QED
  BY <1>1, <1>2, <1>4, <1>5, <1>6, <1>7, ShrinkInv

\* The flush of a pass.
LEMMA UpdateInv ==
  ASSUME MemoryInv, NEW t \in Turns, update_lifecycle_state(t)
  PROVE  MemoryInv'
<1>1. PICK r \in pass[t].at : Write(<<"pass", t>>, r, pass[t].pc) /\ pass' = [pass EXCEPT ![t].at = {}]
  BY DEF update_lifecycle_state
<1>2. UNCHANGED <<session, place, row, kind, turn, del>>
  BY DEF update_lifecycle_state
<1>3. r \in Records /\ pass[t].pc \in Retired
  BY Facts
<1>4. /\ pend' \in [Actors -> [Records -> LifecycleState \cup {"none"}]]
      /\ pend'[<<"pass", t>>][r] = pass[t].pc
      /\ \A a \in Actors : \A q \in Records : <<a, q>> # <<<<"pass", t>>, r>> => pend'[a][q] = pend[a][q]
  BY <1>1, <1>3, Types, ActorNames DEF MemoryTypes, Write, LifecycleState, Retired
<1>5. /\ pass' \in [Turns -> PassRecord] /\ \A u \in Turns \ {t} : pass'[u] = pass[u]
      /\ pass'[t].todo = pass[t].todo /\ pass'[t].at = {} /\ pass'[t].pc = pass[t].pc
  BY <1>1, Types DEF MemoryTypes, PassRecord
<1>6. MemoryTypes'
  BY <1>2, <1>4, <1>5, Types DEF MemoryTypes, PassRecord
<1>7. \A u \in Turns : \A q \in Records : pend'[<<"turn", u>>][q] = pend[<<"turn", u>>][q]
  BY <1>4, ActorNames
<1>8. \A q \in Records : pend'[Deleter][q] = pend[Deleter][q]
  BY <1>4, ActorNames
<1>9. ASSUME NEW u \in Turns, NEW q \in Records
      PROVE  pend'[<<"pass", u>>][q] = pend[<<"pass", u>>][q] \/ (q \in pass[u].at /\ pend'[<<"pass", u>>][q] \in Retired)
  <2>1. CASE u = t /\ q = r
    BY <1>1, <1>3, <1>4, <2>1
  <2>2. CASE ~(u = t /\ q = r)
    BY <1>4, <2>2, ActorNames
  <2> QED
    BY <2>1, <2>2
<1>10. ASSUME NEW u \in Turns, NEW q \in Records, pend'[<<"turn", u>>][q] # "none"
       PROVE  q[1] = u /\ kind'[q] # "none" /\ pend'[<<"turn", u>>][q] = "active" /\ turn'[u].pc # "idle"
  <2>1. pend'[<<"turn", u>>][q] = pend[<<"turn", u>>][q]
    BY <1>7
  <2>2. q[1] = u /\ kind[q] # "none" /\ pend[<<"turn", u>>][q] = "active" /\ turn[u].pc # "idle"
    BY <1>10, <2>1, Facts
  <2> QED
    BY <1>2, <2>1, <2>2
<1>11. ASSUME NEW u \in Turns, NEW c \in turn'[u].todo PROVE kind'[<<u, c>>] # "none"
  BY <1>2, Facts
<1>12. \A u \in Turns : \A q \in pass'[u].todo \cup pass'[u].at :
          q \in Records /\ row[q] # "absent" /\ (q \in del.rec \/ Superseded(q))
  BY <1>5, PassKept
<1>13. /\ \A u \in Turns : pass'[u].pc \notin Retired => pass'[u].todo = {} /\ pass'[u].at = {}
       /\ \A u \in Turns : turn'[u].pc # "done" => pass'[u].pc = "none"
       /\ \A q \in Records : pend'[Deleter][q] # "none" => q \in del'.rec
       /\ \A q \in del'.rec : row[q] # "absent"
       /\ del'.pc = "idle" => del'.rec = {}
  BY <1>2, <1>5, <1>8, Facts
<1> QED
  BY <1>2, <1>6, <1>9, <1>10, <1>11, <1>12, <1>13, StepInv

-----------------------------------------------------------------------------
(* The user's request, and the death of the process *)

LEMMA DeleteInv == ASSUME MemoryInv, delete_record \/ transition_record PROVE MemoryInv'
<1>1. UNCHANGED <<session, place, row, kind, turn, pass>>
  BY DEF delete_record, transition_record
<1>2. /\ del' \in [pc : {"idle", "read", "written", "done"}, rec : SUBSET Records]
      /\ del.rec \subseteq del'.rec /\ del'.pc # "idle" /\ \A r \in del'.rec : row[r] # "absent"
  <2>1. CASE delete_record
    BY <2>1, Facts DEF delete_record
  <2>2. CASE transition_record
    BY <2>2, Facts, Types DEF transition_record, MemoryTypes
  <2> QED
    BY <2>1, <2>2
<1>3. /\ pend' \in [Actors -> [Records -> LifecycleState \cup {"none"}]]
      /\ \A a \in Actors \ {Deleter} : pend'[a] = pend[a]
      /\ \A r \in Records : pend'[Deleter][r] # "none" => r \in del'.rec
  <2>1. CASE delete_record
    BY <1>2, <2>1, Facts, Types DEF delete_record, MemoryTypes
  <2>2. CASE transition_record
    <3>1. PICK r \in del.rec : pend' = [pend EXCEPT ![Deleter][r] = "deleted"]
      BY <2>2 DEF transition_record, Write
    <3>2. r \in Records /\ del'.rec = del.rec
      BY <2>2, Facts, Types DEF transition_record, MemoryTypes
    <3>3. pend \in [Actors -> [Records -> LifecycleState \cup {"none"}]] /\ Deleter \in Actors
      BY Types, ActorNames DEF MemoryTypes
    <3>4. /\ pend' \in [Actors -> [Records -> LifecycleState \cup {"none"}]]
          /\ \A a \in Actors \ {Deleter} : pend'[a] = pend[a]
          /\ \A q \in Records \ {r} : pend'[Deleter][q] = pend[Deleter][q]
      BY <3>1, <3>2, <3>3 DEF LifecycleState
    <3> QED
      BY <3>2, <3>4, Facts
  <2> QED
    BY <2>1, <2>2
<1>4. MemoryTypes'
  BY <1>1, <1>2, <1>3, Types DEF MemoryTypes
<1>5. \A u \in Turns : pend'[<<"turn", u>>] = pend[<<"turn", u>>] /\ pend'[<<"pass", u>>] = pend[<<"pass", u>>]
  BY <1>3, ActorNames
<1>6. ASSUME NEW u \in Turns, NEW q \in Records, pend'[<<"turn", u>>][q] # "none"
      PROVE  q[1] = u /\ kind'[q] # "none" /\ pend'[<<"turn", u>>][q] = "active" /\ turn'[u].pc # "idle"
  <2>1. pend'[<<"turn", u>>][q] = pend[<<"turn", u>>][q]
    BY <1>5
  <2>2. q[1] = u /\ kind[q] # "none" /\ pend[<<"turn", u>>][q] = "active" /\ turn[u].pc # "idle"
    BY <1>6, <2>1, Facts
  <2> QED
    BY <1>1, <2>1, <2>2
<1>7. ASSUME NEW u \in Turns, NEW c \in turn'[u].todo PROVE kind'[<<u, c>>] # "none"
  BY <1>1, Facts
<1>8. /\ \A u \in Turns : \A q \in pass'[u].todo \cup pass'[u].at :
           q \in Records /\ row[q] # "absent" /\ (q \in del.rec \/ Superseded(q))
      /\ \A u \in Turns : pass'[u].pc \notin Retired => pass'[u].todo = {} /\ pass'[u].at = {}
      /\ \A u \in Turns : turn'[u].pc # "done" => pass'[u].pc = "none"
  BY <1>1, Facts
<1> QED
  BY <1>1, <1>2, <1>3, <1>4, <1>5, <1>6, <1>7, <1>8, StepInv

LEMMA EndDeleteInv == ASSUME MemoryInv, commit_delete PROVE MemoryInv'
<1>1. Commit(Deleter) /\ UNCHANGED <<session, place, kind, turn, pass>>
  BY DEF commit_delete
<1>2. /\ del' \in [pc : {"idle", "read", "written", "done"}, rec : SUBSET Records]
      /\ del'.rec = del.rec /\ del'.pc # "idle"
  BY Types DEF commit_delete, MemoryTypes
<1>3. /\ row' \in [Records -> LifecycleState \cup {"absent"}]
      /\ pend' \in [Actors -> [Records -> LifecycleState \cup {"none"}]]
      /\ \A b \in Actors : \A r \in Records : pend'[b][r] = "none" \/ pend'[b][r] = pend[b][r]
      /\ \A r \in Records : row'[r] = row[r] \/ (row'[r] # "absent" /\ kind[r] # "none" /\ turn[r[1]].pc # "idle" /\ Rightly(r))
  BY <1>1, Committed, ActorNames
<1>4. MemoryTypes'
  BY <1>1, <1>2, <1>3, Types DEF MemoryTypes
<1>5. \A u \in Turns : turn'[u].pc # "done" => pass'[u].pc = "none"
  BY <1>1, Facts
<1> QED
  BY <1>1, <1>2, <1>3, <1>4, <1>5, PassKept, ShrinkInv

LEMMA CrashInv == ASSUME MemoryInv, crash PROVE MemoryInv'
<1>1. UNCHANGED <<session, place, row, kind>>
  BY DEF crash
<1>2. /\ pend' \in [Actors -> [Records -> LifecycleState \cup {"none"}]]
      /\ \A b \in Actors : \A r \in Records : pend'[b][r] = "none"
  BY DEF crash, NoWrites
<1>3. /\ turn' \in [Turns -> TurnRecord]
      /\ \A u \in Turns :
            \/ turn[u].pc = "idle" /\ turn'[u] = turn[u]
            \/ turn'[u].pc = "done" /\ turn'[u].todo = {}
  BY Types DEF crash, MemoryTypes, TurnRecord
<1>4. /\ pass' \in [Turns -> PassRecord]
      /\ \A u \in Turns :
            /\ pass'[u].todo = {} /\ pass'[u].at = {}
            /\ pass[u].pc = "none" => pass'[u].pc = "none"
  BY DEF crash, PassRecord, NoPass
<1>5. /\ del' \in [pc : {"idle", "read", "written", "done"}, rec : SUBSET Records]
      /\ del'.rec = del.rec /\ (del'.pc = "idle" => del.pc = "idle")
  BY Types DEF crash, MemoryTypes
<1>6. MemoryTypes'
  BY <1>1, <1>2, <1>3, <1>4, <1>5, Types DEF MemoryTypes, TurnRecord, PassRecord
<1>7. \A u \in Turns : turn'[u].todo \subseteq turn[u].todo /\ (turn'[u].pc = "idle" => turn[u].pc = "idle")
  BY <1>3
<1>8. \A u \in Turns : turn'[u].pc # "done" => pass'[u].pc = "none"
  BY <1>3, <1>4, Facts
<1> QED
  BY <1>1, <1>2, <1>4, <1>5, <1>6, <1>7, <1>8, ShrinkInv

LEMMA StutterInv == ASSUME MemoryInv, UNCHANGED memoryVars PROVE MemoryInv'
<1>1. MemoryTypes'
  BY Types DEF MemoryTypes, memoryVars
<1>2. \A u \in Turns : turn'[u].pc # "done" => pass'[u].pc = "none"
  BY Facts DEF memoryVars
<1> QED
  BY <1>1, <1>2, PassKept, ShrinkInv DEF memoryVars

LEMMA NextInv == ASSUME MemoryInv, [MemoryNext]_memoryVars PROVE MemoryInv'
<1>1. ASSUME NEW t \in Turns, extract_candidates(t) \/ Extraction(t) PROVE MemoryInv'
  BY <1>1, ExtractInv, DropInv, PersistInv, ApprovedInv DEF Extraction
<1>2. ASSUME NEW t \in Turns, process_owner_memories(t) \/ pass_fails(t) PROVE MemoryInv'
  BY <1>2, WorkInv, UpdateInv, EndPassInv DEF process_owner_memories
<1> QED
  BY <1>1, <1>2, DeleteInv, EndDeleteInv, CrashInv, StutterInv DEF MemoryNext, Delete

-----------------------------------------------------------------------------
LEMMA Smallest ==
  ASSUME NEW T, T \subseteq Nat, T # {}
  PROVE  \E x \in T : \A y \in T : x <= y
<1> DEFINE Less == OpToRel(<, Nat)
<1>1. IsWellFoundedOn(Less, Nat)
  BY NatLessThanWellFounded
<1>2. \A x, y \in Nat : x < y => <<x, y>> \in Less
  BY DEF OpToRel
<1> HIDE DEF Less
<1>3. PICK x \in T : \A y \in T : ~ (<<y, x>> \in Less)
  BY <1>1, WFMin
<1>4. ASSUME NEW y \in T PROVE x <= y
  <2>1. ~ (y < x)
    BY <1>2, <1>3
  <2> QED
    BY <2>1
<1> QED
  BY <1>4

\* The best stored record of a content the user has left alone is shown in its session.
LEMMA BestIsShown ==
  ASSUME MemoryInv, NEW c \in Contents, NEW b \in Records, b[2] = c, row[b] # "absent", b \notin del.rec,
         \A q \in Records : q[2] = c /\ row[q] # "absent" => place[b] <= place[q]
  PROVE  \E s \in Sessions : \E r \in UNION _apply_memory_context(s) : r[2] = c
<1>1. place \in [Records -> Nat]
  BY Types DEF MemoryTypes, MemoryInv, BoundsAssumption
<1>2. ~Superseded(b)
  BY <1>1 DEF Superseded, Better
<1>3. row[b] \in {"created", "active"}
  BY <1>2, Facts, Types DEF MemoryTypes, LifecycleState, Retired
<1>4. kind[b] \in {"user", "project"} /\ b[1] \in Turns /\ session[b[1]] \in Sessions
  BY Facts, Types, RecordNames DEF MemoryTypes
<1> DEFINE s == session[b[1]]
           found == search_records(s, kind[b])
           shown == _deduplicate(_score_and_filter(found))
<1>5. b \in found
  BY <1>3, <1>4 DEF search_records, InScope
<1>6. b \in _score_and_filter(found)
  BY <1>3, <1>5 DEF _score_and_filter
<1>7. ASSUME NEW q \in _score_and_filter(found), q[2] = b[2], Better(q, b) PROVE FALSE
  <2>1. q \in Records /\ row[q] # "absent"
    BY DEF _score_and_filter, search_records
  <2> QED
    BY <1>1, <1>7, <2>1 DEF Better
<1>8. b \in shown
  BY <1>6, <1>7 DEF _deduplicate
<1>9. \E set \in _apply_memory_context(s) : b \in set
  <2> DEFINE sh(f) == _deduplicate(_score_and_filter(f))
  <2>1. found \in _search_domain(s, kind[b])
    BY DEF _search_domain
  <2>2. {} \in _search_domain(s, "user") /\ {} \in _search_domain(s, "project")
    BY DEF _search_domain
  <2>3. CASE kind[b] = "user"
    <3>1. sh(found) \cup sh({}) \in retrieve(s, TRUE)
      BY <2>1, <2>2, <2>3 DEF retrieve
    <3> QED
      BY <1>8, <3>1 DEF _apply_memory_context, retrieve_context
  <2>4. CASE kind[b] = "project"
    <3>1. sh({}) \cup sh(found) \in retrieve(s, TRUE)
      BY <2>1, <2>2, <2>4 DEF retrieve
    <3> QED
      BY <1>8, <3>1 DEF _apply_memory_context, retrieve_context
  <2> QED
    BY <1>4, <2>3, <2>4
<1> QED
  BY <1>4, <1>9

LEMMA KeepsOneHolds == ASSUME MemoryInv PROVE KeepsOne
<1>1. MemoryTypeOK
  BY Types DEF MemoryTypes, MemoryTypeOK
<1>2. ASSUME NEW c \in Contents, NEW a \in Records, a[2] = c, row[a] # "absent", ~ \E r \in del.rec : r[2] = c
      PROVE  \E s \in Sessions : \E r \in UNION _apply_memory_context(s) : r[2] = c
  <2> DEFINE T == { place[q] : q \in { q \in Records : q[2] = c /\ row[q] # "absent" } }
  <2>1. place \in [Records -> Nat]
    BY Types DEF MemoryTypes, MemoryInv, BoundsAssumption
  <2>2. T \subseteq Nat /\ place[a] \in T
    BY <1>2, <2>1
  <2>3. PICK x \in T : \A y \in T : x <= y
    BY <2>2, Smallest
  <2>4. PICK b \in Records : b[2] = c /\ row[b] # "absent" /\ place[b] = x
    OBVIOUS
  <2>5. \A q \in Records : q[2] = c /\ row[q] # "absent" => place[b] <= place[q]
    BY <2>3, <2>4
  <2>6. b \notin del.rec
    BY <1>2, <2>4
  <2> QED
    BY <2>4, <2>5, <2>6, BestIsShown
<1> QED
  BY <1>1, <1>2 DEF KeepsOne

\* For any number of turns, contents, sessions and deaths of the process: passes that overlap
\* agree on the order of find_consolidation_groups, so none retires the best record of a
\* content, which search_records and _deduplicate show.
THEOREM HousekeepingKeepsOne == MemorySpec => []KeepsOne
<1>1. MemoryInit => MemoryInv
  BY InitInv, BoundsAssumption
<1>2. MemoryInv /\ [MemoryNext]_memoryVars => MemoryInv'
  BY NextInv
<1>3. MemoryInv => KeepsOne
  BY KeepsOneHolds
<1> QED
  BY <1>1, <1>2, <1>3, PTL DEF MemorySpec
=============================================================================
