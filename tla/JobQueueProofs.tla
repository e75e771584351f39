--------------------------- MODULE JobQueueProofs ---------------------------
(***************************************************************************)
(* Proofs about JobQueue for any number of jobs, workers, attempts and any *)
(* durations that satisfy LeaseAssumption.                                 *)
(*                                                                         *)
(* The invariants of JobQueue are not inductive on their own.  What makes  *)
(* them so is that version only grows: a copy a worker holds is never      *)
(* newer than its row (CopiesNotNewer), so a claim by anyone else moves    *)
(* the row past it for ever; and that the row's lease is never older than  *)
(* the time the copy has spent (LeaseTiming).                              *)
(***************************************************************************)
EXTENDS JobQueue, FiniteSetTheorems, TLAPS

CopiesNotNewer ==
  \A w \in Workers, j \in Jobs :
    disp[w][j].phase # "none" => /\ disp[w][j].version <= row[j].version
                                 /\ disp[w][j].attempt_count >= 1

\* The copy agrees with the row for as long as its compare-and-swap would
\* succeed.
CopiesAgree ==
  \A w \in Workers, j \in Jobs :
    (disp[w][j].phase # "none" /\ HoldsClaim(row[j], disp[w][j]))
      => /\ row[j].locked_by = w
         /\ row[j].attempt_count = disp[w][j].attempt_count

LeaseTiming ==
  \A w \in Workers, j \in Jobs :
    /\ disp[w][j].phase = "claimed" =>
         /\ HoldsClaim(row[j], disp[w][j])
         /\ disp[w][j].since >= -DispatchSlack
         /\ row[j].locked_at >= disp[w][j].since
    /\ disp[w][j].phase = "handling" =>
         /\ HoldsClaim(row[j], disp[w][j])
         /\ disp[w][j].since >= -HandlerTimeout
         /\ row[j].locked_at >= disp[w][j].since - DispatchSlack

AbsentIsNew == \A j \in Jobs : row[j].status = "absent" => row[j].version = 0

IInv == /\ TypeOK
        /\ CopiesNotNewer
        /\ CopiesAgree
        /\ LeaseTiming
        /\ AbsentIsNew
        /\ AttemptsBounded
        /\ LockedIffRunning

-----------------------------------------------------------------------------
\* A power of two is a natural number: it counts the subsets of 1 .. n.
LEMMA PowerOfTwo == ASSUME NEW n \in Nat PROVE 2 ^ n \in Nat
<1>1. IsFiniteSet(1 .. n) /\ Cardinality(1 .. n) = n
  BY FS_Interval
<1>2. /\ IsFiniteSet(SUBSET (1 .. n))
      /\ Cardinality(SUBSET (1 .. n)) = 2 ^ n
  BY <1>1, FS_SUBSET
<1> QED
  BY <1>2, FS_CardinalityType

\* The backoff delay computed for any attempt is a natural number.
LEMMA BackoffType ==
  ASSUME NEW n \in Nat PROVE compute_backoff_seconds(n) \in Nat
<1>1. 2 ^ n \in Nat
  BY PowerOfTwo
<1>2. \A p \in Nat : BaseDelay * p \in Nat
  BY QueueAssumption
<1>3. BaseDelay * 2 ^ n \in Nat
  BY <1>1, <1>2
<1> QED
  BY <1>3, QueueAssumption DEF compute_backoff_seconds, Min2


\* Changing one field of a row, or of a copy, leaves it a row or a copy.
LEMMA FieldUpdates ==
  /\ \A r \in JobRow :
       /\ \A x \in Status : [r EXCEPT !.status = x] \in JobRow
       /\ \A x \in Nat : [r EXCEPT !.attempt_count = x] \in JobRow
       /\ \A x \in Nat : [r EXCEPT !.version = x] \in JobRow
       /\ \A x \in Int : [r EXCEPT !.run_at = x] \in JobRow
       /\ \A x \in Workers \cup {NoOne} : [r EXCEPT !.locked_by = x] \in JobRow
       /\ \A x \in Int : [r EXCEPT !.locked_at = x] \in JobRow
       /\ \A x \in Int : [r EXCEPT !.finished_at = x] \in JobRow
  /\ \A d \in Dispatch :
       /\ \A x \in {"none", "claimed", "handling", "returned"} :
            [d EXCEPT !.phase = x] \in Dispatch
       /\ \A x \in Nat : [d EXCEPT !.version = x] \in Dispatch
       /\ \A x \in Nat : [d EXCEPT !.attempt_count = x] \in Dispatch
       /\ \A x \in Int : [d EXCEPT !.since = x] \in Dispatch
       /\ \A x \in Outcome : [d EXCEPT !.outcome = x] \in Dispatch
       /\ \A x \in Int : [d EXCEPT !.retry_at = x] \in Dispatch
  BY DEF JobRow, Dispatch

\* Absent rows and newly inserted rows are rows.
LEMMA FreshRows == AbsentRow \in JobRow /\ \A n \in Nat : NewRow(n) \in JobRow
<1>1. ASSUME NEW n \in Nat PROVE NewRow(n) \in JobRow
  BY DEF NewRow, JobRow, Status
<1>2. NewRow(0) \in JobRow
  BY <1>1
<1>3. "absent" \in Status /\ 0 \in Nat
  BY DEF Status
<1>4. AbsentRow \in JobRow
  BY <1>2, <1>3, FieldUpdates, Zenon DEF AbsentRow
<1> QED
  BY <1>1, <1>4

\* Every row that a queue operation writes is a row.
LEMMA RowTypes ==
  ASSUME NEW r \in JobRow
  PROVE  /\ Unlocked(r) \in JobRow
         /\ DeadLettered(r) \in JobRow
         /\ \A w \in Workers : ClaimedBy(r, w) \in JobRow
         /\ \A d \in Dispatch : SettledRow(r, d) \in JobRow
         /\ AgedRow(r) \in JobRow
         /\ Cancelled(r) \in JobRow
         /\ Revived(r) \in JobRow
<1>0. /\ r.version + 1 \in Nat /\ r.attempt_count + 1 \in Nat
      /\ NoOne \in Workers \cup {NoOne}
      /\ 0 \in Int
      /\ {"dead_letter", "succeeded", "queued", "running", "cancelled"} \subseteq Status
  BY DEF JobRow, Status, Settled
<1>1. Unlocked(r) \in JobRow
  BY <1>0, FieldUpdates, Zenon DEF Unlocked
<1>2. DeadLettered(r) \in JobRow
  BY <1>0, <1>1, FieldUpdates, Zenon DEF DeadLettered
<1>3. ASSUME NEW w \in Workers PROVE ClaimedBy(r, w) \in JobRow
  BY <1>0, FieldUpdates, Zenon DEF ClaimedBy
<1>4. ASSUME NEW d \in Dispatch PROVE SettledRow(r, d) \in JobRow
  <2>1. d.retry_at \in Int
    BY DEF Dispatch
  <2> QED
    BY <1>0, <1>1, <1>2, <2>1, FieldUpdates DEF SettledRow
<1>5. AgedRow(r) \in JobRow
  BY QueueAssumption DEF AgedRow, Older, JobRow
<1>7. Cancelled(r) \in JobRow
  BY <1>0, FieldUpdates, Zenon DEF Cancelled
<1>8. Revived(r) \in JobRow
  BY <1>0, FreshRows, FieldUpdates DEF Revived
<1> QED
  BY <1>1, <1>2, <1>3, <1>4, <1>5, <1>7, <1>8

\* Every copy that a worker makes or changes is a copy.
LEMMA CopyTypes ==
  /\ NoDispatch \in Dispatch
  /\ \A r \in JobRow : CopyOf(r) \in Dispatch
  /\ \A d \in Dispatch :
       /\ Started(d) \in Dispatch
       /\ AgedDispatch(d) \in Dispatch
       /\ \A o \in Outcome : d.attempt_count >= 1 => Returned(d, o) \in Dispatch
<1>1. NoDispatch \in Dispatch
  BY DEF NoDispatch, Dispatch, Outcome
<1>2. ASSUME NEW r \in JobRow PROVE CopyOf(r) \in Dispatch
  BY <1>1 DEF CopyOf, NoDispatch, JobRow, Dispatch, Outcome
<1>3. ASSUME NEW d \in Dispatch PROVE Started(d) \in Dispatch
  <2>1. 0 \in Int
    OBVIOUS
  <2> QED
    BY <2>1, FieldUpdates, Zenon DEF Started
<1>4. ASSUME NEW d \in Dispatch PROVE AgedDispatch(d) \in Dispatch
  BY DEF AgedDispatch, Older, Dispatch
<1>5. ASSUME NEW d \in Dispatch, NEW o \in Outcome, d.attempt_count >= 1
      PROVE  Returned(d, o) \in Dispatch
  <2> DEFINE delay == IF o = "error" /\ d.attempt_count < MaxAttempts
                      THEN compute_backoff_seconds(d.attempt_count - 1) ELSE 0
  <2>1. d.attempt_count - 1 \in Nat
    BY <1>5 DEF Dispatch
  <2>2. compute_backoff_seconds(d.attempt_count - 1) \in Nat
    BY <2>1, BackoffType
  <2>3. delay \in Int /\ 0 \in Int
    BY <2>2
  <2> QED
    BY <2>3, FieldUpdates, Zenon DEF Returned
<1> QED
  BY <1>1, <1>2, <1>3, <1>4, <1>5

\* What each operation does to the fields of a row that the invariants read.
LEMMA RowFields ==
  ASSUME NEW r \in JobRow
  PROVE  /\ DeadLettered(r).status = "dead_letter"
         /\ DeadLettered(r).locked_by = NoOne
         /\ DeadLettered(r).version = r.version + 1
         /\ DeadLettered(r).attempt_count = r.attempt_count
         /\ \A w \in Workers :
              /\ ClaimedBy(r, w).status = "running"
              /\ ClaimedBy(r, w).locked_by = w
              /\ ClaimedBy(r, w).locked_at = 0
              /\ ClaimedBy(r, w).version = r.version + 1
              /\ ClaimedBy(r, w).attempt_count = r.attempt_count + 1
         /\ \A d \in Dispatch :
              /\ SettledRow(r, d).status \in {"succeeded", "queued", "dead_letter"}
              /\ SettledRow(r, d).status = "queued" => d.attempt_count < MaxAttempts
              /\ SettledRow(r, d).locked_by = NoOne
              /\ SettledRow(r, d).version = r.version + 1
              /\ SettledRow(r, d).attempt_count = r.attempt_count
         /\ Cancelled(r).status = "cancelled"
         /\ Cancelled(r).locked_by = r.locked_by
         /\ Cancelled(r).version = r.version + 1
         /\ Cancelled(r).attempt_count = r.attempt_count
         /\ Revived(r).status = "queued"
         /\ Revived(r).locked_by = NoOne
         /\ Revived(r).version = r.version + 1
         /\ Revived(r).attempt_count = 0
         /\ AgedRow(r).status = r.status
         /\ AgedRow(r).locked_by = r.locked_by
         /\ AgedRow(r).version = r.version
         /\ AgedRow(r).attempt_count = r.attempt_count
         /\ AgedRow(r).locked_at >= r.locked_at - 1
<1>1. /\ Unlocked(r).status = r.status
      /\ Unlocked(r).locked_by = NoOne
      /\ Unlocked(r).version = r.version + 1
      /\ Unlocked(r).attempt_count = r.attempt_count
  BY DEF Unlocked, JobRow
<1>2. /\ DeadLettered(r).status = "dead_letter"
      /\ DeadLettered(r).locked_by = NoOne
      /\ DeadLettered(r).version = r.version + 1
      /\ DeadLettered(r).attempt_count = r.attempt_count
  BY <1>1, RowTypes DEF DeadLettered, JobRow
<1>3. ASSUME NEW w \in Workers
      PROVE  /\ ClaimedBy(r, w).status = "running"
             /\ ClaimedBy(r, w).locked_by = w
             /\ ClaimedBy(r, w).locked_at = 0
             /\ ClaimedBy(r, w).version = r.version + 1
             /\ ClaimedBy(r, w).attempt_count = r.attempt_count + 1
  BY DEF ClaimedBy, JobRow
<1>4. ASSUME NEW d \in Dispatch
      PROVE  /\ SettledRow(r, d).status \in {"succeeded", "queued", "dead_letter"}
             /\ SettledRow(r, d).status = "queued" => d.attempt_count < MaxAttempts
             /\ SettledRow(r, d).locked_by = NoOne
             /\ SettledRow(r, d).version = r.version + 1
             /\ SettledRow(r, d).attempt_count = r.attempt_count
  <2>1. Unlocked(r) \in JobRow
    BY RowTypes
  <2>2. CASE d.outcome = "ok"
    BY <2>2, <1>1, <2>1 DEF SettledRow, JobRow
  <2>3. CASE d.outcome = "error" /\ d.attempt_count < MaxAttempts
    <3>1. SettledRow(r, d) = [Unlocked(r) EXCEPT !.status = "queued", !.run_at = d.retry_at]
      BY <2>3 DEF SettledRow
    <3> QED
      BY <2>3, <1>1, <2>1, <3>1 DEF JobRow
  <2>4. CASE d.outcome # "ok" /\ ~(d.outcome = "error" /\ d.attempt_count < MaxAttempts)
    <3>1. SettledRow(r, d) = DeadLettered(r)
      BY <2>4 DEF SettledRow
    <3> QED
      BY <1>2, <3>1
  <2> QED
    BY <2>2, <2>3, <2>4
<1>5. /\ Cancelled(r).status = "cancelled"
      /\ Cancelled(r).locked_by = r.locked_by
      /\ Cancelled(r).version = r.version + 1
      /\ Cancelled(r).attempt_count = r.attempt_count
  BY DEF Cancelled, JobRow
<1>6. /\ Revived(r).status = "queued"
      /\ Revived(r).locked_by = NoOne
      /\ Revived(r).version = r.version + 1
      /\ Revived(r).attempt_count = 0
  BY DEF Revived, NewRow
<1>7. /\ AgedRow(r).status = r.status
      /\ AgedRow(r).locked_by = r.locked_by
      /\ AgedRow(r).version = r.version
      /\ AgedRow(r).attempt_count = r.attempt_count
      /\ AgedRow(r).locked_at >= r.locked_at - 1
  BY DEF AgedRow, Older, JobRow
<1> QED
  BY <1>2, <1>3, <1>4, <1>5, <1>6, <1>7

LEMMA InitIInv == Init => IInv
<1> SUFFICES ASSUME Init PROVE IInv
  OBVIOUS
<1> USE QueueAssumption
<1>1. TypeOK
  BY FreshRows, CopyTypes DEF Init, TypeOK
<1>2. /\ AbsentRow.status = "absent" /\ AbsentRow.version = 0
      /\ AbsentRow.attempt_count = 0 /\ AbsentRow.locked_by = NoOne
      /\ NoDispatch.phase = "none"
  BY DEF AbsentRow, NewRow, NoDispatch
<1> QED
  BY <1>1, <1>2 DEF Init, IInv, CopiesNotNewer, CopiesAgree, LeaseTiming, AbsentIsNew,
     AttemptsBounded, LockedIffRunning

\* A row whose lease the copy's timing still covers is not due for takeover.
LEMMA NotExpired ==
  ASSUME IInv, NEW w \in Workers, NEW j \in Jobs,
         disp[w][j].phase \in {"claimed", "handling"}
  PROVE  /\ HoldsClaim(row[j], disp[w][j])
         /\ row[j].locked_by = w
         /\ ~LeaseExpired(row[j])
<1>1. row[j] \in JobRow /\ disp[w][j] \in Dispatch
  BY DEF IInv, TypeOK
<1>2. HoldsClaim(row[j], disp[w][j])
  BY DEF IInv, LeaseTiming
<1>3. row[j].locked_by = w
  BY <1>2 DEF IInv, CopiesAgree
<1>4. row[j].locked_at >= -DispatchSlack - HandlerTimeout
  BY <1>1, QueueAssumption DEF IInv, LeaseTiming, JobRow, Dispatch
<1>5. ~LeaseExpired(row[j])
  BY <1>1, <1>4, QueueAssumption, LeaseAssumption DEF LeaseExpired, JobRow
<1> QED
  BY <1>2, <1>3, <1>5

\* An operation on a row that is not running, leaving it not running, keeps the
\* invariant: no copy of it can still be settled.
LEMMA RowChange ==
  ASSUME IInv, NEW j \in Jobs, NEW r \in JobRow,
         row' = [row EXCEPT ![j] = r], UNCHANGED <<wstate, shutdown, disp>>,
         row[j].status # "running", r.status \notin {"running", "absent"},
         r.version >= row[j].version, r.locked_by = NoOne,
         r.attempt_count <= MaxAttempts,
         r.status = "queued" => r.attempt_count < MaxAttempts
  PROVE  IInv'
<1>1. TypeOK'
  BY DEF IInv, TypeOK
<1>2. row'[j] = r /\ \A i \in Jobs : i # j => row'[i] = row[i]
  BY DEF IInv, TypeOK
<1>3. \A w \in Workers, i \in Jobs : row[i] \in JobRow /\ disp[w][i] \in Dispatch
  BY DEF IInv, TypeOK
<1>4. CopiesNotNewer'
  BY <1>2, <1>3 DEF IInv, CopiesNotNewer, JobRow, Dispatch
<1>5. CopiesAgree'
  BY <1>2, <1>3 DEF IInv, CopiesAgree, HoldsClaim
<1>6. LeaseTiming'
  BY <1>2, <1>3 DEF IInv, LeaseTiming, HoldsClaim
<1>7. AbsentIsNew' /\ AttemptsBounded' /\ LockedIffRunning'
  BY <1>2 DEF IInv, AbsentIsNew, AttemptsBounded, LockedIffRunning
<1> QED
  BY <1>1, <1>4, <1>5, <1>6, <1>7 DEF IInv

LEMMA QueueStepIInv ==
  ASSUME IInv, NEW j \in Jobs, QueueStep(j) PROVE IInv'
<1>0. row[j] \in JobRow
  BY DEF IInv, TypeOK
<1>1. CASE enqueue(j)
  <2>1. PICK n \in 0 .. MaxDelay : row' = [row EXCEPT ![j] = NewRow(n)]
    BY <1>1 DEF enqueue
  <2>2. n \in Nat /\ NewRow(n) \in JobRow
    BY <2>1, FreshRows, QueueAssumption
  <2>3. row[j].status = "absent" /\ row[j].version = 0
    BY <1>1 DEF enqueue, IInv, AbsentIsNew
  <2>4. UNCHANGED <<wstate, shutdown, disp>>
    BY <1>1 DEF enqueue
  <2>5. /\ NewRow(n).status = "queued" /\ NewRow(n).locked_by = NoOne
        /\ NewRow(n).version >= row[j].version
        /\ NewRow(n).attempt_count < MaxAttempts
        /\ NewRow(n).attempt_count <= MaxAttempts
    BY <2>3, QueueAssumption DEF NewRow
  <2> QED
    BY <2>1, <2>2, <2>3, <2>4, <2>5, RowChange
<1>2. CASE cancel(j)
  <2>1. /\ row' = [row EXCEPT ![j] = Cancelled(row[j])]
        /\ row[j].status = "queued"
        /\ UNCHANGED <<wstate, shutdown, disp>>
    BY <1>2 DEF cancel
  <2>2. row[j].locked_by = NoOne /\ row[j].attempt_count <= MaxAttempts
    BY <2>1 DEF IInv, LockedIffRunning, AttemptsBounded
  <2>3. Cancelled(row[j]) \in JobRow
    BY <1>0, RowTypes
  <2>4. /\ Cancelled(row[j]).status = "cancelled"
        /\ Cancelled(row[j]).locked_by = NoOne
        /\ Cancelled(row[j]).attempt_count <= MaxAttempts
        /\ Cancelled(row[j]).version >= row[j].version
    BY <1>0, <2>2, RowFields DEF JobRow
  <2> QED
    BY <2>1, <2>3, <2>4, RowChange
<1>3. CASE retry_dead_letter(j)
  <2>1. /\ row' = [row EXCEPT ![j] = Revived(row[j])]
        /\ row[j].status = "dead_letter"
        /\ UNCHANGED <<wstate, shutdown, disp>>
    BY <1>3 DEF retry_dead_letter
  <2>2. Revived(row[j]) \in JobRow
    BY <1>0, RowTypes
  <2>3. /\ Revived(row[j]).status = "queued"
        /\ Revived(row[j]).locked_by = NoOne
        /\ Revived(row[j]).attempt_count < MaxAttempts
        /\ Revived(row[j]).attempt_count <= MaxAttempts
        /\ Revived(row[j]).version >= row[j].version
    BY <1>0, RowFields, QueueAssumption DEF JobRow
  <2> QED
    BY <2>1, <2>2, <2>3, RowChange
<1>4. CASE delete_background_jobs(j)
  <2> DEFINE r == [row[j] EXCEPT !.status = "deleted"]
  <2>1. /\ row' = [row EXCEPT ![j] = r]
        /\ row[j].status \in Settled
        /\ UNCHANGED <<wstate, shutdown, disp>>
    BY <1>4 DEF delete_background_jobs
  <2>2. row[j].locked_by = NoOne /\ row[j].attempt_count <= MaxAttempts
    BY <2>1 DEF IInv, LockedIffRunning, AttemptsBounded, Settled
  <2>3. r \in JobRow
    BY <1>0 DEF JobRow, Status
  <2>4. /\ r.status = "deleted" /\ r.locked_by = NoOne
        /\ r.attempt_count <= MaxAttempts /\ r.version >= row[j].version
    BY <1>0, <2>2 DEF JobRow
  <2>5. row[j].status # "running"
    BY <2>1 DEF Settled
  <2> HIDE DEF r
  <2> QED
    BY <2>1, <2>3, <2>4, <2>5, RowChange
<1> QED
  BY <1>1, <1>2, <1>3, <1>4 DEF QueueStep

-----------------------------------------------------------------------------
\* The claim transaction: a row that changes moves its version past every copy,
\* and a row whose handler is running does not change.
LEMMA SweepFacts ==
  ASSUME IInv, NEW w \in Workers, NEW S \in Claimable,
         row' = SweptAndClaimed(w, S)
  PROVE  /\ row' \in [Jobs -> JobRow]
         /\ \A j \in S : Due(row[j]) /\ row'[j] = ClaimedBy(row[j], w)
         /\ \A j \in Jobs \ S :
              \/ row'[j] = row[j]
              \/ row'[j] = DeadLettered(row[j]) /\ Exhausted(row[j])
         /\ S \subseteq Jobs
<1>1. \A j \in Jobs : row[j] \in JobRow
  BY DEF IInv, TypeOK
<1>2. S \subseteq Jobs /\ \A j \in S : Due(row[j])
  BY DEF Claimable
<1>3. ASSUME NEW j \in S PROVE ~Exhausted(row[j])
  BY <1>1, <1>2, QueueAssumption DEF Due, Exhausted, LeaseExpired, JobRow
<1>4. row' \in [Jobs -> JobRow]
  BY <1>1, RowTypes DEF SweptAndClaimed
<1> QED
  BY <1>2, <1>3, <1>4 DEF SweptAndClaimed

\* The invariants that read only the table survive the claim transaction.
LEMMA SweepTable ==
  ASSUME IInv, NEW w \in Workers, NEW S \in Claimable,
         row' = SweptAndClaimed(w, S)
  PROVE  AbsentIsNew' /\ AttemptsBounded' /\ LockedIffRunning'
<1> SUFFICES ASSUME NEW j \in Jobs
             PROVE  /\ row'[j].status = "absent" => row'[j].version = 0
                    /\ row'[j].attempt_count <= MaxAttempts
                    /\ row'[j].status = "queued" => row'[j].attempt_count < MaxAttempts
                    /\ row'[j].status = "running" <=> row'[j].locked_by # NoOne
  BY DEF AbsentIsNew, AttemptsBounded, LockedIffRunning
<1>0. row[j] \in JobRow
  BY DEF IInv, TypeOK
<1>1. CASE j \in S
  <2>1. row'[j] = ClaimedBy(row[j], w) /\ Due(row[j])
    BY <1>1, SweepFacts
  <2>2. row[j].attempt_count < MaxAttempts
    BY <2>1 DEF Due, IInv, AttemptsBounded
  <2> QED
    BY <1>0, <2>1, <2>2, RowFields, QueueAssumption DEF JobRow
<1>2. CASE j \notin S
  <2>1. CASE row'[j] = row[j]
    BY <2>1 DEF IInv, AbsentIsNew, AttemptsBounded, LockedIffRunning
  <2>2. CASE row'[j] = DeadLettered(row[j])
    BY <1>0, <2>2, RowFields DEF IInv, AttemptsBounded
  <2> QED
    BY <1>2, <2>1, <2>2, SweepFacts
<1> QED
  BY <1>1, <1>2

\* Copies other than the ones just made survive the claim transaction.
LEMMA SweepCopies ==
  ASSUME IInv, NEW w \in Workers, NEW S \in Claimable,
         row' = SweptAndClaimed(w, S),
         NEW v \in Workers, NEW j \in Jobs, disp'[v][j] = disp[v][j],
         disp[v][j].phase # "none"
  PROVE  /\ disp[v][j].version <= row'[j].version
         /\ HoldsClaim(row'[j], disp[v][j]) => row'[j] = row[j]
         /\ disp[v][j].phase \in {"claimed", "handling"} => row'[j] = row[j]
<1>0. row[j] \in JobRow /\ disp[v][j] \in Dispatch
  BY DEF IInv, TypeOK
<1>1. disp[v][j].version <= row[j].version
  BY DEF IInv, CopiesNotNewer
<1>2. \/ row'[j] = row[j]
      \/ row'[j] = ClaimedBy(row[j], w) /\ Due(row[j])
      \/ row'[j] = DeadLettered(row[j]) /\ Exhausted(row[j])
  BY SweepFacts
<1>3. row'[j] = row[j] \/ row'[j].version = row[j].version + 1
  BY <1>0, <1>2, RowFields
<1>4. ASSUME disp[v][j].phase \in {"claimed", "handling"} PROVE row'[j] = row[j]
  <2>1. ~LeaseExpired(row[j]) /\ row[j].status = "running"
    BY <1>4, NotExpired DEF HoldsClaim
  <2> QED
    BY <1>2, <2>1 DEF Due, Exhausted
<1>5. disp[v][j].version <= row'[j].version
  BY <1>0, <1>1, <1>3 DEF JobRow, Dispatch
<1>6. HoldsClaim(row'[j], disp[v][j]) => row'[j] = row[j]
  BY <1>0, <1>1, <1>3 DEF HoldsClaim, JobRow, Dispatch
<1> QED
  BY <1>4, <1>5, <1>6

LEMMA ClaimSetIInv ==
  ASSUME IInv, NEW w \in Workers, NEW S \in Claimable, ClaimSet(w, S)
  PROVE  IInv'
<1>0. /\ row' = SweptAndClaimed(w, S)
      /\ wstate' = [wstate EXCEPT ![w] = IF S = {} THEN "idle" ELSE "busy"]
      /\ disp' = [disp EXCEPT ![w] =
                    [j \in Jobs |-> IF j \in S THEN CopyOf(ClaimedBy(row[j], w))
                                    ELSE disp[w][j]]]
      /\ shutdown' = shutdown
  BY DEF ClaimSet
<1>1. \A v \in Workers, j \in Jobs : row[j] \in JobRow /\ disp[v][j] \in Dispatch
  BY DEF IInv, TypeOK
<1>2. \A j \in S : /\ j \in Jobs
                   /\ disp'[w][j] = CopyOf(ClaimedBy(row[j], w))
                   /\ row'[j] = ClaimedBy(row[j], w)
  BY <1>0, SweepFacts DEF IInv, TypeOK
<1>3. \A v \in Workers, j \in Jobs : (v # w \/ j \notin S) => disp'[v][j] = disp[v][j]
  BY <1>0 DEF IInv, TypeOK
<1>4. TypeOK'
  <2>1. row' \in [Jobs -> JobRow]
    BY <1>0, SweepFacts
  <2>2. \A j \in Jobs : CopyOf(ClaimedBy(row[j], w)) \in Dispatch
    BY <1>1, RowTypes, CopyTypes
  <2>3. disp' \in [Workers -> [Jobs -> Dispatch]]
    BY <1>0, <1>1, <2>2 DEF IInv, TypeOK
  <2>4. /\ wstate' \in [Workers -> {"idle", "claiming", "busy", "stopped"}]
        /\ shutdown' \in [Workers -> BOOLEAN]
    BY <1>0 DEF IInv, TypeOK
  <2> QED
    BY <2>1, <2>3, <2>4 DEF TypeOK
<1>5. ASSUME NEW j \in S
      PROVE  /\ disp'[w][j].phase = "claimed"
             /\ disp'[w][j].version = row'[j].version
             /\ disp'[w][j].attempt_count = row'[j].attempt_count
             /\ disp'[w][j].attempt_count >= 1
             /\ disp'[w][j].since = 0
             /\ row'[j].status = "running"
             /\ row'[j].locked_by = w
             /\ row'[j].locked_at = 0
  <2>1. /\ CopyOf(row'[j]).phase = "claimed"
        /\ CopyOf(row'[j]).version = row'[j].version
        /\ CopyOf(row'[j]).attempt_count = row'[j].attempt_count
        /\ CopyOf(row'[j]).since = 0
    BY DEF CopyOf, NoDispatch
  <2>2. row[j] \in JobRow
    BY <1>1, <1>2
  <2> QED
    BY <1>2, <2>1, <2>2, RowFields DEF JobRow
<1>6. CopiesNotNewer'
  <2> SUFFICES ASSUME NEW v \in Workers, NEW j \in Jobs, disp'[v][j].phase # "none"
               PROVE  /\ disp'[v][j].version <= row'[j].version
                      /\ disp'[v][j].attempt_count >= 1
    BY DEF CopiesNotNewer
  <2>1. CASE v = w /\ j \in S
    BY <2>1, <1>5, <1>4 DEF TypeOK, JobRow
  <2>2. CASE ~(v = w /\ j \in S)
    BY <2>2, <1>0, <1>3, SweepCopies DEF IInv, CopiesNotNewer
  <2> QED
    BY <2>1, <2>2
<1>7. CopiesAgree'
  <2> SUFFICES ASSUME NEW v \in Workers, NEW j \in Jobs, disp'[v][j].phase # "none",
                      HoldsClaim(row'[j], disp'[v][j])
               PROVE  /\ row'[j].locked_by = v
                      /\ row'[j].attempt_count = disp'[v][j].attempt_count
    BY DEF CopiesAgree, HoldsClaim
  <2>1. CASE v = w /\ j \in S
    BY <2>1, <1>5
  <2>2. CASE ~(v = w /\ j \in S)
    <3>1. disp'[v][j] = disp[v][j]
      BY <2>2, <1>3
    <3>2. row'[j] = row[j]
      BY <3>1, <1>0, SweepCopies
    <3> QED
      BY <3>1, <3>2 DEF IInv, CopiesAgree
  <2> QED
    BY <2>1, <2>2
<1>8. LeaseTiming'
  <2> SUFFICES ASSUME NEW v \in Workers, NEW j \in Jobs,
                      disp'[v][j].phase \in {"claimed", "handling"}
               PROVE  /\ disp'[v][j].phase = "claimed" =>
                           /\ HoldsClaim(row'[j], disp'[v][j])
                           /\ disp'[v][j].since >= -DispatchSlack
                           /\ row'[j].locked_at >= disp'[v][j].since
                      /\ disp'[v][j].phase = "handling" =>
                           /\ HoldsClaim(row'[j], disp'[v][j])
                           /\ disp'[v][j].since >= -HandlerTimeout
                           /\ row'[j].locked_at >= disp'[v][j].since - DispatchSlack
    BY DEF LeaseTiming, HoldsClaim
  <2>1. CASE v = w /\ j \in S
    BY <2>1, <1>5, QueueAssumption DEF HoldsClaim
  <2>2. CASE ~(v = w /\ j \in S)
    <3>1. disp'[v][j] = disp[v][j]
      BY <2>2, <1>3
    <3>2. row'[j] = row[j]
      BY <3>1, <1>0, SweepCopies
    <3> QED
      BY <3>1, <3>2 DEF IInv, LeaseTiming
  <2> QED
    BY <2>1, <2>2
<1>9. AbsentIsNew' /\ AttemptsBounded' /\ LockedIffRunning'
  BY <1>0, SweepTable
<1> QED
  BY <1>4, <1>6, <1>7, <1>8, <1>9 DEF IInv

\* A worker that drops copies, or does nothing to them, keeps the invariant.
LEMMA CopiesDropped ==
  ASSUME IInv, TypeOK', UNCHANGED row,
         \A v \in Workers, j \in Jobs : \/ disp'[v][j] = disp[v][j]
                                        \/ disp'[v][j] = NoDispatch
  PROVE  IInv'
<1>1. NoDispatch.phase = "none"
  BY DEF NoDispatch
<1>2. CopiesNotNewer'
  BY <1>1 DEF IInv, CopiesNotNewer
<1>3. CopiesAgree'
  BY <1>1 DEF IInv, CopiesAgree, HoldsClaim
<1>4. LeaseTiming'
  BY <1>1 DEF IInv, LeaseTiming, HoldsClaim
<1>5. AbsentIsNew' /\ AttemptsBounded' /\ LockedIffRunning'
  BY DEF IInv, AbsentIsNew, AttemptsBounded, LockedIffRunning
<1> QED
  BY <1>2, <1>3, <1>4, <1>5 DEF IInv

LEMMA LoopStepIInv ==
  ASSUME IInv, NEW w \in Workers, LoopStep(w) PROVE IInv'
<1>1. CASE poll_once(w) \/ request_shutdown(w) \/ run_forever_exit(w) \/ Crash(w)
  <2>1. UNCHANGED row
    BY <1>1 DEF poll_once, request_shutdown, run_forever_exit, Crash
  <2>2. TypeOK'
    <3>1. CASE poll_once(w)
      BY <3>1 DEF poll_once, IInv, TypeOK
    <3>2. CASE request_shutdown(w)
      BY <3>2 DEF request_shutdown, IInv, TypeOK
    <3>3. CASE run_forever_exit(w)
      BY <3>3 DEF run_forever_exit, IInv, TypeOK
    <3>4. CASE Crash(w)
      BY <3>4, CopyTypes DEF Crash, IInv, TypeOK
    <3> QED
      BY <1>1, <3>1, <3>2, <3>3, <3>4
  <2>3. \A v \in Workers, j \in Jobs : \/ disp'[v][j] = disp[v][j]
                                       \/ disp'[v][j] = NoDispatch
    BY <1>1 DEF poll_once, request_shutdown, run_forever_exit, Crash, IInv, TypeOK
  <2> QED
    BY <2>1, <2>2, <2>3, CopiesDropped
<1>2. CASE claim_due(w)
  BY <1>2, ClaimSetIInv DEF claim_due
<1>3. CASE claim_due_error(w)
  <2>1. /\ wstate' = [wstate EXCEPT ![w] = "stopped"]
        /\ UNCHANGED <<shutdown, disp>>
    BY <1>3 DEF claim_due_error
  <2>2. CASE UNCHANGED row
    <3>1. TypeOK'
      BY <2>1, <2>2 DEF IInv, TypeOK
    <3> QED
      BY <2>1, <2>2, <3>1, CopiesDropped
  <2>3. CASE \E S \in Claimable : row' = SweptAndClaimed(w, S)
    <3>1. PICK S \in Claimable : row' = SweptAndClaimed(w, S)
      BY <2>3
    <3>2. TypeOK'
      BY <2>1, <3>1, SweepFacts DEF IInv, TypeOK
    <3>3. CopiesNotNewer'
      BY <2>1, <3>1, SweepCopies DEF IInv, CopiesNotNewer
    <3>4. CopiesAgree'
      BY <2>1, <3>1, SweepCopies DEF IInv, CopiesAgree, HoldsClaim
    <3>5. LeaseTiming'
      BY <2>1, <3>1, SweepCopies DEF IInv, LeaseTiming, HoldsClaim
    <3>6. AbsentIsNew' /\ AttemptsBounded' /\ LockedIffRunning'
      BY <3>1, SweepTable
    <3> QED
      BY <3>2, <3>3, <3>4, <3>5, <3>6 DEF IInv
  <2> QED
    BY <1>3, <2>2, <2>3 DEF claim_due_error
<1> QED
  BY <1>1, <1>2, <1>3 DEF LoopStep

-----------------------------------------------------------------------------
\* What the end of a dispatch does to the worker's copies.
LEMMA EndDispatchFacts ==
  ASSUME IInv, NEW w \in Workers, NEW j \in Jobs, EndDispatch(w, j)
  PROVE  /\ disp' \in [Workers -> [Jobs -> Dispatch]]
         /\ wstate' \in [Workers -> {"idle", "claiming", "busy", "stopped"}]
         /\ disp'[w][j] = NoDispatch
         /\ \A v \in Workers, i \in Jobs : (v # w \/ i # j) => disp'[v][i] = disp[v][i]
  BY CopyTypes DEF EndDispatch, IInv, TypeOK

\* Only the handler's phase moves: the table and the copy's claim stay.
LEMMA CopyChange ==
  ASSUME IInv, NEW w \in Workers, NEW j \in Jobs, NEW d \in Dispatch,
         disp' = [disp EXCEPT ![w][j] = d], UNCHANGED <<row, wstate, shutdown>>,
         disp[w][j].phase \in {"claimed", "handling"},
         d.version = disp[w][j].version, d.attempt_count = disp[w][j].attempt_count,
         \/ d.phase = "returned"
         \/ disp[w][j].phase = "claimed" /\ d.phase = "handling" /\ d.since = 0
  PROVE  IInv'
<1>1. TypeOK'
  BY DEF IInv, TypeOK
<1>2. /\ disp'[w][j] = d
      /\ \A v \in Workers, i \in Jobs : (v # w \/ i # j) => disp'[v][i] = disp[v][i]
  BY DEF IInv, TypeOK
<1>3. row[j] \in JobRow /\ disp[w][j] \in Dispatch
  BY DEF IInv, TypeOK
<1>4. CopiesNotNewer'
  BY <1>2 DEF IInv, CopiesNotNewer
<1>5. CopiesAgree'
  BY <1>2 DEF IInv, CopiesAgree, HoldsClaim
<1>6. LeaseTiming'
  <2>1. ASSUME d.phase = "handling"
        PROVE  /\ HoldsClaim(row[j], d)
               /\ d.since >= -HandlerTimeout
               /\ row[j].locked_at >= d.since - DispatchSlack
    BY <2>1, <1>3, QueueAssumption DEF IInv, LeaseTiming, HoldsClaim, JobRow, Dispatch
  <2>2. d.phase # "claimed"
    OBVIOUS
  <2> QED
    BY <1>2, <2>1, <2>2 DEF IInv, LeaseTiming, HoldsClaim
<1>7. AbsentIsNew' /\ AttemptsBounded' /\ LockedIffRunning'
  BY DEF IInv, AbsentIsNew, AttemptsBounded, LockedIffRunning
<1> QED
  BY <1>1, <1>4, <1>5, <1>6, <1>7 DEF IInv

LEMMA HandlerEndsIInv ==
  ASSUME IInv, NEW w \in Workers, NEW j \in Jobs, NEW o \in Outcome,
         disp[w][j].phase = "handling", HandlerEnds(w, j, o),
         UNCHANGED <<row, wstate, shutdown>>
  PROVE  IInv'
<1>1. disp[w][j] \in Dispatch /\ disp[w][j].attempt_count >= 1
  BY DEF IInv, TypeOK, CopiesNotNewer
<1>2. Returned(disp[w][j], o) \in Dispatch
  BY <1>1, CopyTypes
<1>3. /\ Returned(disp[w][j], o).phase = "returned"
      /\ Returned(disp[w][j], o).version = disp[w][j].version
      /\ Returned(disp[w][j], o).attempt_count = disp[w][j].attempt_count
  BY <1>1 DEF Returned, Dispatch
<1>4. disp' = [disp EXCEPT ![w][j] = Returned(disp[w][j], o)]
  BY DEF HandlerEnds, IInv, TypeOK
<1> QED
  BY <1>2, <1>3, <1>4, CopyChange

\* A settling step that wins its compare-and-swap: no other copy of the job can
\* still be in use.
LEMMA SettleIInv ==
  ASSUME IInv, NEW w \in Workers, NEW j \in Jobs, settle(w, j),
         HoldsClaim(row[j], disp[w][j])
  PROVE  IInv'
<1> DEFINE r == SettledRow(row[j], disp[w][j])
<1>1. row[j] \in JobRow /\ disp[w][j] \in Dispatch
  BY DEF IInv, TypeOK
<1>2. row' = [row EXCEPT ![j] = r] /\ EndDispatch(w, j) /\ shutdown' = shutdown
  BY DEF settle
<1>3. r \in JobRow
  BY <1>1, RowTypes
<1>4. /\ r.status \in {"succeeded", "queued", "dead_letter"}
      /\ r.status = "queued" => r.attempt_count < MaxAttempts
      /\ r.attempt_count = row[j].attempt_count
      /\ r.locked_by = NoOne
      /\ r.version = row[j].version + 1
  <2>1. row[j].attempt_count = disp[w][j].attempt_count
    BY DEF settle, IInv, CopiesAgree
  <2> QED
    BY <1>1, <2>1, RowFields
<1> HIDE DEF r
<1>5. TypeOK'
  BY <1>2, <1>3, EndDispatchFacts DEF IInv, TypeOK
<1>6. row'[j] = r /\ \A i \in Jobs : i # j => row'[i] = row[i]
  BY <1>2 DEF IInv, TypeOK
<1>7. /\ disp'[w][j].phase = "none"
      /\ \A v \in Workers, i \in Jobs : (v # w \/ i # j) => disp'[v][i] = disp[v][i]
  BY <1>2, EndDispatchFacts DEF NoDispatch
<1>8. \A v \in Workers : disp'[v][j].phase \notin {"claimed", "handling"}
  <2> SUFFICES ASSUME NEW v \in Workers, disp'[v][j].phase \in {"claimed", "handling"}
               PROVE  FALSE
    OBVIOUS
  <2>1. v # w /\ disp[v][j].phase \in {"claimed", "handling"}
    BY <1>7
  <2>2. row[j].locked_by = v
    BY <2>1, NotExpired
  <2>3. row[j].locked_by = w
    BY DEF settle, IInv, CopiesAgree
  <2> QED
    BY <2>1, <2>2, <2>3
<1>9. CopiesNotNewer'
  <2>1. \A v \in Workers : disp[v][j] \in Dispatch
    BY DEF IInv, TypeOK
  <2> QED
    BY <1>1, <1>4, <1>6, <1>7, <2>1 DEF IInv, CopiesNotNewer, JobRow, Dispatch
<1>10. CopiesAgree'
  BY <1>4, <1>6, <1>7 DEF IInv, CopiesAgree, HoldsClaim
<1>11. LeaseTiming'
  BY <1>6, <1>7, <1>8 DEF IInv, LeaseTiming, HoldsClaim
<1>12. AbsentIsNew' /\ AttemptsBounded' /\ LockedIffRunning'
  BY <1>4, <1>6 DEF IInv, AbsentIsNew, AttemptsBounded, LockedIffRunning
<1> QED
  BY <1>5, <1>9, <1>10, <1>11, <1>12 DEF IInv

LEMMA JobStepIInv ==
  ASSUME IInv, NEW w \in Workers, NEW j \in Jobs, JobStep(w, j) PROVE IInv'
<1>0. disp[w][j] \in Dispatch
  BY DEF IInv, TypeOK
<1>1. CASE dispatch(w, j)
  <2>1. /\ disp' = [disp EXCEPT ![w][j] = Started(disp[w][j])]
        /\ UNCHANGED <<row, wstate, shutdown>>
        /\ disp[w][j].phase = "claimed"
    BY <1>1 DEF dispatch, IInv, TypeOK
  <2>2. Started(disp[w][j]) \in Dispatch
    BY <1>0, CopyTypes
  <2>3. /\ Started(disp[w][j]).phase = "handling"
        /\ Started(disp[w][j]).since = 0
        /\ Started(disp[w][j]).version = disp[w][j].version
        /\ Started(disp[w][j]).attempt_count = disp[w][j].attempt_count
    BY <1>0 DEF Started, Dispatch
  <2> QED
    BY <2>1, <2>2, <2>3, CopyChange
<1>2. CASE handler_returns(w, j)
  BY <1>2, HandlerEndsIInv DEF handler_returns
<1>3. CASE handler_timeout(w, j)
  <2>1. "error" \in Outcome
    BY DEF Outcome
  <2> QED
    BY <1>3, <2>1, HandlerEndsIInv DEF handler_timeout
<1>4. CASE settle_error(w, j)
  <2>1. EndDispatch(w, j) /\ UNCHANGED <<row, shutdown>>
    BY <1>4 DEF settle_error
  <2>2. TypeOK'
    BY <2>1, EndDispatchFacts DEF IInv, TypeOK
  <2> QED
    BY <2>1, <2>2, EndDispatchFacts, CopiesDropped
<1>5. CASE settle(w, j) /\ HoldsClaim(row[j], disp[w][j])
  BY <1>5, SettleIInv
<1>6. CASE settle(w, j) /\ ~HoldsClaim(row[j], disp[w][j])
  <2>1. EndDispatch(w, j) /\ UNCHANGED <<row, shutdown>>
    BY <1>6 DEF settle
  <2>2. TypeOK'
    BY <2>1, EndDispatchFacts DEF IInv, TypeOK
  <2> QED
    BY <2>1, <2>2, EndDispatchFacts, CopiesDropped
<1> QED
  BY <1>1, <1>2, <1>3, <1>4, <1>5, <1>6 DEF JobStep

\* Time passes: a lease ages no faster than the handler it covers.
LEMMA TickIInv == ASSUME IInv, Tick PROVE IInv'
<1>1. \A w \in Workers, j \in Jobs :
        /\ row[j] \in JobRow /\ disp[w][j] \in Dispatch
        /\ row'[j] = AgedRow(row[j])
        /\ disp'[w][j] = AgedDispatch(disp[w][j])
        /\ Prompt(disp[w][j])
  BY DEF IInv, TypeOK, Tick
<1>2. \A j \in Jobs : row[j] \in JobRow /\ row'[j] = AgedRow(row[j])
  BY DEF IInv, TypeOK, Tick
<1>3. TypeOK'
  BY RowTypes, CopyTypes DEF IInv, TypeOK, Tick
<1>4. \A j \in Jobs : /\ row'[j].status = row[j].status
                      /\ row'[j].locked_by = row[j].locked_by
                      /\ row'[j].version = row[j].version
                      /\ row'[j].attempt_count = row[j].attempt_count
                      /\ row'[j].locked_at >= row[j].locked_at - 1
  BY <1>2, RowFields
<1>5. \A w \in Workers, j \in Jobs :
        /\ disp'[w][j].phase = disp[w][j].phase
        /\ disp'[w][j].version = disp[w][j].version
        /\ disp'[w][j].attempt_count = disp[w][j].attempt_count
        /\ disp[w][j].phase \in {"claimed", "handling"} =>
             disp'[w][j].since = disp[w][j].since - 1
  <2>1. ASSUME NEW d \in Dispatch
        PROVE  /\ AgedDispatch(d).phase = d.phase
               /\ AgedDispatch(d).version = d.version
               /\ AgedDispatch(d).attempt_count = d.attempt_count
               /\ d.phase \in {"claimed", "handling"} =>
                    AgedDispatch(d).since = d.since - 1
    BY DEF AgedDispatch, Dispatch
  <2> QED
    BY <1>1, <2>1
<1>6. CopiesNotNewer'
  BY <1>4, <1>5 DEF IInv, CopiesNotNewer
<1>7. CopiesAgree'
  BY <1>4, <1>5 DEF IInv, CopiesAgree, HoldsClaim
<1>8. LeaseTiming'
  <2> SUFFICES ASSUME NEW w \in Workers, NEW j \in Jobs
               PROVE  /\ disp'[w][j].phase = "claimed" =>
                           /\ HoldsClaim(row'[j], disp'[w][j])
                           /\ disp'[w][j].since >= -DispatchSlack
                           /\ row'[j].locked_at >= disp'[w][j].since
                      /\ disp'[w][j].phase = "handling" =>
                           /\ HoldsClaim(row'[j], disp'[w][j])
                           /\ disp'[w][j].since >= -HandlerTimeout
                           /\ row'[j].locked_at >= disp'[w][j].since - DispatchSlack
    BY DEF LeaseTiming, HoldsClaim
  <2>1. row'[j] \in JobRow
    BY <1>3 DEF TypeOK
  <2> QED
    BY <1>1, <1>4, <1>5, <2>1, QueueAssumption
       DEF IInv, LeaseTiming, HoldsClaim, Prompt, JobRow, Dispatch
<1>9. AbsentIsNew' /\ AttemptsBounded' /\ LockedIffRunning'
  BY <1>4 DEF IInv, AbsentIsNew, AttemptsBounded, LockedIffRunning
<1> QED
  BY <1>3, <1>6, <1>7, <1>8, <1>9 DEF IInv

LEMMA StepIInv == IInv /\ [Next]_vars => IInv'
<1> SUFFICES ASSUME IInv, [Next]_vars PROVE IInv'
  OBVIOUS
<1>1. CASE UNCHANGED vars
  <2>1. TypeOK'
    BY <1>1 DEF vars, IInv, TypeOK
  <2> QED
    BY <1>1, <2>1, CopiesDropped DEF vars
<1>2. CASE \E j \in Jobs : QueueStep(j)
  BY <1>2, QueueStepIInv
<1>3. CASE \E w \in Workers : LoopStep(w)
  BY <1>3, LoopStepIInv
<1>4. CASE \E w \in Workers, j \in Jobs : JobStep(w, j)
  BY <1>4, JobStepIInv
<1>5. CASE Tick
  BY <1>5, TickIInv
<1> QED
  BY <1>1, <1>2, <1>3, <1>4, <1>5 DEF Next

-----------------------------------------------------------------------------
(* Safety *)

\* The inductive invariant holds of every state the queue can reach.
THEOREM InvariantHolds == Spec => []IInv
  BY InitIInv, StepIInv, PTL DEF Spec

\* Rows and workers' copies always have their types (the row type of queue.py,
\* the claimed jobs of worker.py).
THEOREM TypeCorrect == Spec => []TypeOK
<1>1. IInv => TypeOK
  BY DEF IInv
<1> QED
  BY <1>1, InvariantHolds, PTL

\* While a handler is about to run or runs, its worker's lease is in force: the
\* configured timeout leaves no room for a takeover (claim_due, _dispatch).
THEOREM LeaseIsEnough == Spec => []LeaseCoversHandler
<1>1. IInv => LeaseCoversHandler
  BY NotExpired DEF LeaseCoversHandler
<1> QED
  BY <1>1, InvariantHolds, PTL

\* One job's handler never runs in two workers at once (claim_due, _dispatch).
THEOREM NoOverlap == Spec => []HandlersNeverOverlap
<1>1. IInv => HandlersNeverOverlap
  <2> SUFFICES ASSUME IInv, NEW v \in Workers, NEW w \in Workers, NEW j \in Jobs,
                      disp[v][j].phase = "handling", disp[w][j].phase = "handling"
               PROVE  v = w
    BY DEF HandlersNeverOverlap
  <2>1. row[j].locked_by = v /\ row[j].locked_by = w
    BY NotExpired
  <2> QED
    BY <2>1
<1> QED
  BY <1>1, InvariantHolds, PTL

\* Only the worker a row is locked by holds the version that can settle it
\* (_update_with_version).
THEOREM Fencing == Spec => []VersionFences
<1>1. IInv => VersionFences
  BY DEF IInv, CopiesAgree, VersionFences
<1> QED
  BY <1>1, InvariantHolds, PTL

\* No job is claimed more than max_attempts times between operator retries, and
\* running rows are exactly the locked ones (claim_due, fail, retry_dead_letter).
THEOREM BoundedAndLocked == Spec => [](AttemptsBounded /\ LockedIffRunning)
<1>1. IInv => AttemptsBounded /\ LockedIffRunning
  BY DEF IInv
<1> QED
  BY <1>1, InvariantHolds, PTL

\* Leases, fencing tokens, attempts and locks agree with what the workers do, for
\* every number of jobs and workers (queue.py and worker.py together).
THEOREM QueueIsSafe == Spec => []JobsSafe
  BY TypeCorrect, LeaseIsEnough, NoOverlap, Fencing, BoundedAndLocked, PTL DEF JobsSafe

\* A worker whose claim was taken over changes nothing when it settles (complete
\* and fail).
THEOREM LateSettleIsHarmless == Spec => OnlyClaimantSettles
<1> DEFINE A == \A w \in Workers, j \in Jobs :
       (disp[w][j].phase = "returned" /\ disp'[w][j].phase = "none" /\ row'[j] # row[j])
         => row[j].status = "running" /\ row[j].locked_by = w
<1>1. IInv /\ [Next]_vars => [A]_vars
  <2> SUFFICES ASSUME IInv, Next, NEW w \in Workers, NEW j \in Jobs,
                      disp[w][j].phase = "returned", disp'[w][j].phase = "none",
                      row'[j] # row[j]
               PROVE  row[j].status = "running" /\ row[j].locked_by = w
    OBVIOUS
  <2>1. CASE \E i \in Jobs : QueueStep(i)
    BY <2>1 DEF QueueStep, enqueue, cancel, retry_dead_letter, delete_background_jobs
  <2>2. ASSUME NEW v \in Workers, LoopStep(v) PROVE FALSE
    <3>1. CASE claim_due(v)
      <4>1. PICK S \in Claimable : ClaimSet(v, S)
        BY <3>1 DEF claim_due
      <4>2. disp'[w][j] = disp[w][j] \/ disp'[w][j] = CopyOf(ClaimedBy(row[j], v))
        BY <4>1 DEF ClaimSet, IInv, TypeOK
      <4>3. CopyOf(ClaimedBy(row[j], v)).phase = "claimed"
        BY DEF CopyOf, NoDispatch
      <4> QED
        BY <4>2, <4>3
    <3> QED
      BY <2>2, <3>1 DEF LoopStep, poll_once, claim_due_error, request_shutdown,
         run_forever_exit, Crash
  <2>3. ASSUME NEW v \in Workers, NEW i \in Jobs, JobStep(v, i)
        PROVE  row[j].status = "running" /\ row[j].locked_by = w
    <3>1. settle(v, i) /\ HoldsClaim(row[i], disp[v][i])
      BY <2>3 DEF JobStep, dispatch, handler_returns, handler_timeout, settle, settle_error
    <3>2. i = j
      BY <3>1 DEF settle, IInv, TypeOK
    <3>3. v = w
      BY <3>1, <3>2, EndDispatchFacts DEF settle
    <3> QED
      BY <3>1, <3>2, <3>3 DEF HoldsClaim, IInv, CopiesAgree
  <2>4. CASE Tick
    <3>1. disp'[w][j] = AgedDispatch(disp[w][j]) /\ disp[w][j] \in Dispatch
      BY <2>4 DEF Tick, IInv, TypeOK
    <3>2. AgedDispatch(disp[w][j]).phase = disp[w][j].phase
      BY <3>1 DEF AgedDispatch, Dispatch
    <3> QED
      BY <3>1, <3>2
  <2> QED
    BY <2>1, <2>2, <2>3, <2>4 DEF Next
<1> QED
  BY <1>1, InvariantHolds, PTL DEF Spec, OnlyClaimantSettles

-----------------------------------------------------------------------------
(* Refinement *)

Abs(r) == [status |-> r.status, attempts |-> r.attempt_count]

\* Every change of one row is a step of that job's abstract life.
LEMMA RowStepRefines ==
  ASSUME IInv, [Next]_vars, NEW j \in Jobs
  PROVE  Lifecycle!Step(Abs(row[j]), Abs(row'[j])) \/ Abs(row'[j]) = Abs(row[j])
<1>0. row[j] \in JobRow
  BY DEF IInv, TypeOK
<1> USE DEF Abs, Lifecycle!Step, Lifecycle!Submit, Lifecycle!Claim, Lifecycle!Succeed,
            Lifecycle!Requeue, Lifecycle!GiveUp, Lifecycle!Cancel, Lifecycle!Revive,
            Lifecycle!Purge
<1>1. CASE UNCHANGED row
  BY <1>1
<1>2. ASSUME NEW i \in Jobs, QueueStep(i), row'[j] # row[j]
      PROVE  Lifecycle!Step(Abs(row[j]), Abs(row'[j]))
  <2>1. CASE enqueue(i)
    BY <1>2, <2>1 DEF enqueue, NewRow, IInv, TypeOK
  <2>2. CASE cancel(i)
    <3>1. i = j /\ row'[j] = Cancelled(row[j]) /\ row[j].status = "queued"
      BY <1>2, <2>2 DEF cancel, IInv, TypeOK
    <3> QED
      BY <3>1, <1>0, RowFields
  <2>3. CASE retry_dead_letter(i)
    <3>1. i = j /\ row'[j] = Revived(row[j]) /\ row[j].status = "dead_letter"
      BY <1>2, <2>3 DEF retry_dead_letter, IInv, TypeOK
    <3> QED
      BY <3>1, <1>0, RowFields
  <2>4. CASE delete_background_jobs(i)
    <3>1. /\ i = j /\ row'[j] = [row[j] EXCEPT !.status = "deleted"]
          /\ row[j].status \in Settled
      BY <1>2, <2>4 DEF delete_background_jobs, IInv, TypeOK
    <3> QED
      BY <3>1, <1>0 DEF JobRow, Settled
  <2> QED
    BY <1>2, <2>1, <2>2, <2>3, <2>4 DEF QueueStep
<1>3. ASSUME NEW w \in Workers, LoopStep(w), row'[j] # row[j]
      PROVE  Lifecycle!Step(Abs(row[j]), Abs(row'[j]))
  <2>1. PICK S \in Claimable : row' = SweptAndClaimed(w, S)
    BY <1>3 DEF LoopStep, poll_once, claim_due, claim_due_error, request_shutdown,
       run_forever_exit, Crash, ClaimSet
  <2>2. \/ row'[j] = ClaimedBy(row[j], w) /\ Due(row[j])
        \/ row'[j] = DeadLettered(row[j]) /\ Exhausted(row[j])
    BY <1>3, <2>1, SweepFacts
  <2>3. CASE row'[j] = ClaimedBy(row[j], w) /\ Due(row[j])
    <3>1. row[j].status \in {"queued", "running"} /\ row[j].attempt_count < MaxAttempts
      BY <2>3 DEF Due, LeaseExpired, IInv, AttemptsBounded
    <3> QED
      BY <2>3, <3>1, <1>0, RowFields
  <2>4. CASE row'[j] = DeadLettered(row[j]) /\ Exhausted(row[j])
    BY <2>4, <1>0, RowFields DEF Exhausted, LeaseExpired
  <2> QED
    BY <2>2, <2>3, <2>4
<1>4. ASSUME NEW w \in Workers, NEW i \in Jobs, JobStep(w, i), row'[j] # row[j]
      PROVE  Lifecycle!Step(Abs(row[j]), Abs(row'[j]))
  <2>1. settle(w, i) /\ HoldsClaim(row[i], disp[w][i])
    BY <1>4 DEF JobStep, dispatch, handler_returns, handler_timeout, settle, settle_error
  <2>2. i = j /\ row'[j] = SettledRow(row[j], disp[w][j])
    BY <1>4, <2>1 DEF settle, IInv, TypeOK
  <2>3. disp[w][j] \in Dispatch /\ disp[w][j].attempt_count = row[j].attempt_count
    BY <2>1, <2>2 DEF settle, IInv, TypeOK, CopiesAgree
  <2>4. row[j].status = "running"
    BY <2>1, <2>2 DEF HoldsClaim
  <2> QED
    BY <1>0, <2>2, <2>3, <2>4, RowFields
<1>5. CASE Tick
  <2>1. row'[j] = AgedRow(row[j])
    BY <1>5 DEF Tick
  <2> QED
    BY <2>1, <1>0, RowFields
<1> QED
  BY <1>1, <1>2, <1>3, <1>4, <1>5 DEF Next, vars

\* The queue and its workers implement the abstract life of a job, for every
\* number of jobs, workers and attempts.
THEOREM Refinement == Spec => ImplementsLifecycle
<1>1. Init => Lifecycle!Init
  BY DEF Init, AbsentRow, NewRow, Lifecycle!Init
<1>2. IInv /\ [Next]_vars =>
        [Lifecycle!Next]_([j \in Jobs |-> [status |-> row[j].status,
                                           attempts |-> row[j].attempt_count]])
  BY RowStepRefines DEF Lifecycle!Next, Abs
<1> QED
  BY <1>1, <1>2, InvariantHolds, PTL DEF Spec, ImplementsLifecycle, Lifecycle!Spec
=============================================================================
