---------------------------- MODULE JobLifecycle ----------------------------
(***************************************************************************)
(* What the job queue promises about each job, with no workers, leases,    *)
(* versions or clocks: the status transitions that may ever happen and the *)
(* number of attempts between two operator retries.  Jobs move             *)
(* independently; one transaction may move several of them.                *)
(***************************************************************************)
EXTENDS Naturals

CONSTANTS Jobs, MaxAttempts

VARIABLE job   \* status and attempts of every job

JobState == [status : {"absent", "queued", "running", "succeeded",
                       "dead_letter", "cancelled", "deleted"},
             attempts : Nat]

Init == job = [j \in Jobs |-> [status |-> "absent", attempts |-> 0]]

\* old and new are one job's state before and after a step.
Submit(old, new) ==
  old.status = "absent" /\ new = [status |-> "queued", attempts |-> 0]

\* A first claim, a retry, or the takeover of an expired lease.
Claim(old, new) ==
  /\ old.status \in {"queued", "running"}
  /\ old.attempts < MaxAttempts
  /\ new = [status |-> "running", attempts |-> old.attempts + 1]

Succeed(old, new) ==
  old.status = "running" /\ new = [old EXCEPT !.status = "succeeded"]

Requeue(old, new) ==
  /\ old.status = "running"
  /\ old.attempts < MaxAttempts
  /\ new = [old EXCEPT !.status = "queued"]

GiveUp(old, new) ==
  old.status = "running" /\ new = [old EXCEPT !.status = "dead_letter"]

Cancel(old, new) ==
  old.status = "queued" /\ new = [old EXCEPT !.status = "cancelled"]

\* The only way out of a settled status other than deletion.
Revive(old, new) ==
  old.status = "dead_letter" /\ new = [status |-> "queued", attempts |-> 0]

Purge(old, new) ==
  /\ old.status \in {"succeeded", "dead_letter", "cancelled"}
  /\ new = [old EXCEPT !.status = "deleted"]

Step(old, new) ==
  \/ Submit(old, new) \/ Claim(old, new) \/ Succeed(old, new)
  \/ Requeue(old, new) \/ GiveUp(old, new) \/ Cancel(old, new)
  \/ Revive(old, new) \/ Purge(old, new)

Next ==
  /\ DOMAIN job' = Jobs
  /\ \A j \in Jobs : Step(job[j], job'[j]) \/ job'[j] = job[j]

Spec == Init /\ [][Next]_job

=============================================================================
