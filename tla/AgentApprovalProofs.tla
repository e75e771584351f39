------------------------ MODULE AgentApprovalProofs ------------------------
(***************************************************************************)
(* Proofs about AgentApproval, for any number of requests and sweeps, any  *)
(* list of stages and any set of edits.  The invariant says what the row   *)
(* lock protects: the lock holder's draft is a legal successor of the      *)
(* committed row, and a decider that waits for the lock has read no more   *)
(* stage decisions than the row has by now.                                *)
(***************************************************************************)
EXTENDS AgentApproval, AccessLimits, SequenceTheorems, WellFoundedInduction, TLAPS

\* The transactions that hold the row lock.
Holding == {"execute", "continue", "commit", "raise"}

LockHeld == \A t \in Txns : txn[t].pc \in Holding <=> lock = t

\* What holds of a row at any time.
Sound(q) ==
  /\ q.runs # <<>> => q.status = "approved"
  /\ \A i \in DOMAIN q.runs : q.runs[i] = final_payload(q)
  /\ Len(q.runs) <= IF q.snapshot THEN 1 ELSE 2
  /\ q.status = "approved" => Len(q.decisions) >= Len(Stages)
  /\ q.status = "pending" => q.message = "waiting_approval" /\ q.snapshot
  /\ q.status = "rejected" => q.message = "rejected"
  /\ q.status = "cancelled" => q.message = "stopped"

\* What holds of a row that may be committed.
Settled(q) == q.status = "approved" /\ q.message = "waiting_approval" => q.snapshot

\* The draft of the lock holder t follows the committed row.
Follows ==
  /\ lock = NoTxn => draft = row
  /\ row.status = "absent" => lock = NoTxn /\ row.decisions = <<>>
  /\ row.status \in Terminal => draft.status = row.status
  /\ row.status # "absent" => draft.status # "absent"
  /\ Len(row.decisions) <= Len(draft.decisions)

Drafts ==
  \A t \in Txns :
    /\ txn[t].pc \in {"execute", "continue"} => draft.status = "approved"
    /\ txn[t].pc \in {"execute", "continue"} /\ t \in Clients => draft.snapshot
    /\ txn[t].pc = "execute" => Len(draft.runs) <= IF draft.snapshot THEN 0 ELSE 1
    /\ txn[t].pc = "commit" => Settled(draft)

\* What a request that waits to write has read.
Reads ==
  \A c \in Clients :
    txn[c].pc = "write" =>
      /\ txn[c].op = "stage" => HasOutstanding(txn[c].seen)
      /\ txn[c].op = "approve" =>
           /\ HasOutstanding(txn[c].seen) => IsFinal(txn[c].seen)
           /\ Len(txn[c].seen.decisions) <= Len(row.decisions)

\* The two halves of the type invariant.
DbTypes == /\ row \in Row /\ draft \in Row
           /\ lock \in Txns \cup {NoTxn}
           /\ txn \in [Txns -> Txn]
CountTypes == /\ attempt \in [Sweepers -> 1..MaxAttempts]
              /\ due \in BOOLEAN /\ grace \in BOOLEAN
              /\ execs \in Nat
              /\ started \in Nat /\ crashes \in Nat

DbInv == /\ DbTypes /\ LockHeld
         /\ Sound(row) /\ Sound(draft) /\ Settled(row)
         /\ Follows /\ Drafts /\ Reads

IInv == DbInv /\ CountTypes

-----------------------------------------------------------------------------
\* Changing one field of a row, or of a transaction, leaves it one.
LEMMA FieldUpdates ==
  /\ \A q \in Row :
       /\ \A x \in Terminal \cup {"absent", "pending"} : [q EXCEPT !.status = x] \in Row
       /\ \A x \in Seq(Stage) : [q EXCEPT !.decisions = x] \in Row
       /\ \A x \in Edits \cup {NoEdit} : [q EXCEPT !.edited = x] \in Row
       /\ \A x \in Nat : [q EXCEPT !.revisions = x] \in Row
       /\ \A x \in BOOLEAN : [q EXCEPT !.snapshot = x] \in Row
       /\ \A x \in {"none", "waiting_approval", "rejected", "stopped", "expired",
                    "complete", "error"} : [q EXCEPT !.message = x] \in Row
       /\ \A x \in Seq(Payloads) : [q EXCEPT !.runs = x] \in Row
  /\ \A d \in Txn :
       /\ \A x \in PC : [d EXCEPT !.pc = x] \in Txn
       /\ \A x \in Row : [d EXCEPT !.seen = x] \in Txn
  BY DEF Row, Txn

\* The row before the pause, the paused row and an idle transaction.
LEMMA FreshTypes == Absent \in Row /\ Paused \in Row /\ Idle \in Txn
<1>1. Absent \in Row
  BY DEF Absent, Row
<1>2. Paused \in Row
  <2>1. {"pending"} \subseteq Terminal \cup {"absent", "pending"} /\ TRUE \in BOOLEAN
    OBVIOUS
  <2> QED
    BY <1>1, <2>1, FieldUpdates, Zenon DEF Paused
<1>3. Idle \in Txn
  BY <1>1 DEF Idle, Txn, Op, PC
<1> QED
  BY <1>1, <1>2, <1>3

\* The stage that was current when stages were outstanding is a stage.
LEMMA CurrentIsStage ==
  ASSUME NEW q \in Row, HasOutstanding(q)
  PROVE  CurrentStage(q) \in Stage
<1>1. Len(q.decisions) \in Nat /\ Len(Stages) \in Nat
  BY ApprovalAssumption DEF Row
<1>2. Len(q.decisions) + 1 \in 1..Len(Stages)
  BY <1>1 DEF HasOutstanding
<1> QED
  BY <1>2, ApprovalAssumption DEF CurrentStage, Stage

\* Every row that an operation writes is a row.
LEMMA RowTypes ==
  ASSUME NEW q \in Row, NEW seen \in Row
  PROVE  /\ Expired(q) \in Row /\ Cancelled(q) \in Row /\ Claimed(q) \in Row
         /\ SweptOut(q) \in Row /\ Executed(q) \in Row
         /\ \A m \in {"complete", "error"} : WithMessage(q, m) \in Row
         /\ \A e \in Edits \cup {NoEdit} : Revised(q, e) \in Row
         /\ HasOutstanding(seen) => Staged(q, seen) \in Row
         /\ \A st \in Terminal : Decided(q, seen, st) \in Row
         /\ \A e \in Edits \cup {NoEdit} : Approved(q, seen, e) \in Row
         /\ Rejected(q, seen) \in Row
<1>0. /\ {"expired", "cancelled", "approved", "rejected"} \subseteq Terminal
      /\ Terminal \subseteq Terminal \cup {"absent", "pending"}
      /\ q.revisions + 1 \in Nat /\ TRUE \in BOOLEAN /\ FALSE \in BOOLEAN
      /\ {"stopped", "expired", "rejected", "complete", "error"} \subseteq
           {"none", "waiting_approval", "rejected", "stopped", "expired", "complete", "error"}
  BY DEF Terminal, Row
<1>1. Expired(q) \in Row /\ Claimed(q) \in Row
  BY <1>0, FieldUpdates, Zenon DEF Expired, Claimed
<1>2. Cancelled(q) \in Row
  BY <1>0, FieldUpdates, Zenon DEF Cancelled
<1>3. SweptOut(q) \in Row
  BY <1>0, FieldUpdates, Zenon DEF SweptOut
<1>4. Executed(q) \in Row
  <2>1. final_payload(q) \in Payloads
    BY DEF final_payload, Payloads, Row
  <2>2. Append(q.runs, final_payload(q)) \in Seq(Payloads)
    BY <2>1 DEF Row
  <2> QED
    BY <2>2, FieldUpdates DEF Executed
<1>5. ASSUME NEW m \in {"complete", "error"} PROVE WithMessage(q, m) \in Row
  BY <1>0, FieldUpdates, Zenon DEF WithMessage
<1>6. ASSUME NEW r \in Row, NEW e \in Edits \cup {NoEdit} PROVE Revised(r, e) \in Row
  <2>1. r.revisions + 1 \in Nat
    BY DEF Row
  <2>2. [r EXCEPT !.edited = e] \in Row
    BY FieldUpdates, Zenon
  <2>3. [r EXCEPT !.edited = e].revisions = r.revisions
    BY DEF Row
  <2> QED
    BY <2>1, <2>2, <2>3, FieldUpdates, Zenon DEF Revised, append_revision
<1>7. ASSUME HasOutstanding(seen) PROVE Staged(q, seen) \in Row
  <2>1. Append(q.decisions, CurrentStage(seen)) \in Seq(Stage)
    BY <1>7, CurrentIsStage DEF Row
  <2> QED
    BY <2>1, FieldUpdates DEF Staged
<1>8. ASSUME NEW st \in Terminal PROVE Decided(q, seen, st) \in Row
  <2>1. (IF HasOutstanding(seen) THEN Staged(q, seen) ELSE q) \in Row
    BY <1>7
  <2> QED
    BY <1>0, <2>1, FieldUpdates, Zenon DEF Decided
<1>9. ASSUME NEW e \in Edits \cup {NoEdit} PROVE Approved(q, seen, e) \in Row
  BY <1>0, <1>6, <1>8 DEF Approved
<1>10. Rejected(q, seen) \in Row
  BY <1>0, <1>8, FieldUpdates, Zenon DEF Rejected
<1> QED
  BY <1>1, <1>2, <1>3, <1>4, <1>5, <1>6, <1>7, <1>8, <1>9, <1>10

\* Two rows that agree on what is executed and decided.
Same(q, r) == q.edited = r.edited /\ q.runs = r.runs /\ q.decisions = r.decisions

\* What each operation does to the fields of a row.
LEMMA RowFields ==
  ASSUME NEW q \in Row
  PROVE  /\ /\ Same(Expired(q), q) /\ Expired(q).status = "expired"
         /\ /\ Same(Cancelled(q), q) /\ Cancelled(q).status = "cancelled"
            /\ Cancelled(q).message = "stopped" /\ Cancelled(q).snapshot = q.snapshot
         /\ /\ Same(Claimed(q), q) /\ Claimed(q).status = q.status
            /\ Claimed(q).snapshot = FALSE /\ Claimed(q).message = q.message
         /\ /\ Same(SweptOut(q), q) /\ SweptOut(q).status = "expired"
         /\ /\ Executed(q).runs = Append(q.runs, final_payload(q))
            /\ Executed(q).status = q.status /\ Executed(q).edited = q.edited
            /\ Executed(q).snapshot = q.snapshot /\ Executed(q).message = q.message
            /\ Executed(q).decisions = q.decisions
         /\ \A m \in {"complete", "error"} :
              /\ Same(WithMessage(q, m), q) /\ WithMessage(q, m).status = q.status
              /\ WithMessage(q, m).snapshot = q.snapshot
              /\ WithMessage(q, m).message = m
         /\ \A e \in Edits \cup {NoEdit} :
              /\ Revised(q, e).status = q.status /\ Revised(q, e).runs = q.runs
              /\ Revised(q, e).snapshot = q.snapshot
              /\ Revised(q, e).message = q.message
              /\ Revised(q, e).decisions = q.decisions
  BY DEF Same, Row, Expired, Cancelled, Claimed, SweptOut, Executed, WithMessage, Revised, append_revision

\* What a decision does to the fields of a row: at most one stage is appended,
\* the last one when the decider had read all but one.
LEMMA DecisionFields ==
  ASSUME NEW q \in Row, NEW seen \in Row
  PROVE  /\ HasOutstanding(seen) =>
              /\ Len(Staged(q, seen).decisions) = Len(q.decisions) + 1
              /\ Staged(q, seen).status = q.status /\ Staged(q, seen).runs = q.runs
              /\ Staged(q, seen).snapshot = q.snapshot
              /\ Staged(q, seen).message = q.message
         /\ \A st \in Terminal :
              /\ Decided(q, seen, st).status = st /\ Decided(q, seen, st).runs = q.runs
              /\ Decided(q, seen, st).snapshot = q.snapshot
              /\ Decided(q, seen, st).message = q.message
              /\ Len(Decided(q, seen, st).decisions) =
                   IF HasOutstanding(seen) THEN Len(q.decisions) + 1 ELSE Len(q.decisions)
         /\ \A e \in Edits \cup {NoEdit} :
              /\ Approved(q, seen, e).status = "approved" /\ Approved(q, seen, e).runs = q.runs
              /\ Approved(q, seen, e).snapshot = q.snapshot
              /\ Approved(q, seen, e).message = q.message
              /\ Len(Approved(q, seen, e).decisions) =
                   IF HasOutstanding(seen) THEN Len(q.decisions) + 1 ELSE Len(q.decisions)
         /\ /\ Rejected(q, seen).status = "rejected" /\ Rejected(q, seen).runs = q.runs
            /\ Rejected(q, seen).message = "rejected"
            /\ Rejected(q, seen).snapshot = q.snapshot
            /\ Len(q.decisions) <= Len(Rejected(q, seen).decisions)
<1>1. ASSUME HasOutstanding(seen)
      PROVE  /\ Len(Staged(q, seen).decisions) = Len(q.decisions) + 1
             /\ Staged(q, seen).status = q.status /\ Staged(q, seen).runs = q.runs
             /\ Staged(q, seen).snapshot = q.snapshot
             /\ Staged(q, seen).message = q.message
  BY <1>1, CurrentIsStage DEF Staged, Row
<1>2. ASSUME NEW st \in Terminal
      PROVE  /\ Decided(q, seen, st).status = st /\ Decided(q, seen, st).runs = q.runs
             /\ Decided(q, seen, st).snapshot = q.snapshot
             /\ Decided(q, seen, st).message = q.message
             /\ Len(Decided(q, seen, st).decisions) =
                  IF HasOutstanding(seen) THEN Len(q.decisions) + 1 ELSE Len(q.decisions)
  <2>1. CASE HasOutstanding(seen)
    <3>1. Staged(q, seen) \in Row
      BY <2>1, RowTypes
    <3>2. Decided(q, seen, st) = [Staged(q, seen) EXCEPT !.status = st]
      BY <2>1 DEF Decided
    <3> QED
      BY <2>1, <3>1, <3>2, <1>1 DEF Row
  <2>2. CASE ~HasOutstanding(seen)
    BY <2>2 DEF Decided, Row
  <2> QED
    BY <2>1, <2>2
<1>3. "approved" \in Terminal /\ "rejected" \in Terminal
  BY DEF Terminal
<1>4. Decided(q, seen, "approved") \in Row /\ Decided(q, seen, "rejected") \in Row
  BY <1>3, RowTypes
<1>5. ASSUME NEW e \in Edits \cup {NoEdit}
      PROVE  /\ Approved(q, seen, e).status = "approved" /\ Approved(q, seen, e).runs = q.runs
             /\ Approved(q, seen, e).snapshot = q.snapshot
             /\ Approved(q, seen, e).message = q.message
             /\ Len(Approved(q, seen, e).decisions) =
                  IF HasOutstanding(seen) THEN Len(q.decisions) + 1 ELSE Len(q.decisions)
  <2> DEFINE d == Decided(q, seen, "approved")
  <2>1. /\ d.status = "approved" /\ d.runs = q.runs /\ d.snapshot = q.snapshot
        /\ d.message = q.message
        /\ Len(d.decisions) =
             IF HasOutstanding(seen) THEN Len(q.decisions) + 1 ELSE Len(q.decisions)
    BY <1>2, <1>3
  <2>0. d \in Row /\ Approved(q, seen, e) = IF e = NoEdit THEN d ELSE Revised(d, e)
    BY <1>4 DEF Approved
  <2> HIDE DEF d
  <2>2. /\ Revised(d, e).status = d.status /\ Revised(d, e).runs = d.runs
        /\ Revised(d, e).snapshot = d.snapshot /\ Revised(d, e).message = d.message
        /\ Revised(d, e).decisions = d.decisions
    BY <2>0 DEF Revised, append_revision, Row
  <2> QED
    BY <2>0, <2>1, <2>2
<1>6. /\ Rejected(q, seen).status = "rejected" /\ Rejected(q, seen).runs = q.runs
      /\ Rejected(q, seen).message = "rejected"
      /\ Rejected(q, seen).snapshot = q.snapshot
      /\ Len(q.decisions) <= Len(Rejected(q, seen).decisions)
  <2>1. Len(q.decisions) \in Nat
    BY DEF Row
  <2>2. Rejected(q, seen).decisions = Decided(q, seen, "rejected").decisions
    BY <1>4 DEF Rejected, Row
  <2>3. /\ Rejected(q, seen).message = "rejected"
        /\ Rejected(q, seen).status = Decided(q, seen, "rejected").status
        /\ Rejected(q, seen).runs = Decided(q, seen, "rejected").runs
        /\ Rejected(q, seen).snapshot = Decided(q, seen, "rejected").snapshot
    BY <1>4 DEF Rejected, Row
  <2> QED
    BY <1>2, <1>3, <2>1, <2>2, <2>3
<1> QED
  BY <1>1, <1>2, <1>5, <1>6

\* A row that nothing was executed for is sound if its decision is.
LEMMA SoundWithoutRuns ==
  ASSUME NEW q, q.runs = <<>>,
         q.status = "approved" => Len(q.decisions) >= Len(Stages),
         q.status = "pending" => q.message = "waiting_approval" /\ q.snapshot,
         q.status = "rejected" => q.message = "rejected",
         q.status = "cancelled" => q.message = "stopped"
  PROVE  Sound(q)
  BY DEF Sound

\* Every operation on a pending row writes a sound row.
LEMMA SoundWrites ==
  ASSUME NEW q \in Row, NEW seen \in Row, Sound(q), q.status = "pending"
  PROVE  /\ Sound(Expired(q)) /\ Sound(Cancelled(q)) /\ Sound(SweptOut(q))
         /\ Sound(Rejected(q, seen))
         /\ \A e \in Edits \cup {NoEdit} : Sound(Revised(q, e))
         /\ HasOutstanding(seen) => Sound(Staged(q, seen))
         /\ \A e \in Edits \cup {NoEdit} :
              /\ HasOutstanding(seen) => IsFinal(seen)
              /\ Len(seen.decisions) <= Len(q.decisions)
              => Sound(Approved(q, seen, e))
<1>0. q.runs = <<>> /\ q.message = "waiting_approval" /\ q.snapshot
  BY DEF Sound
<1>1. Sound(Expired(q)) /\ Sound(Cancelled(q)) /\ Sound(SweptOut(q))
  <2>1. /\ Expired(q).runs = <<>> /\ Expired(q).status = "expired"
        /\ Cancelled(q).runs = <<>> /\ Cancelled(q).status = "cancelled"
        /\ Cancelled(q).message = "stopped"
        /\ SweptOut(q).runs = <<>> /\ SweptOut(q).status = "expired"
    BY <1>0, RowFields DEF Same
  <2> QED
    BY <2>1, SoundWithoutRuns, Zenon
<1>2. Sound(Rejected(q, seen))
  BY <1>0, DecisionFields, SoundWithoutRuns
<1>3. ASSUME NEW e \in Edits \cup {NoEdit} PROVE Sound(Revised(q, e))
  <2>1. /\ Revised(q, e).runs = <<>> /\ Revised(q, e).status = "pending"
        /\ Revised(q, e).message = "waiting_approval" /\ Revised(q, e).snapshot
    BY <1>0 DEF Revised, append_revision, Row
  <2> QED
    BY <2>1, SoundWithoutRuns, Zenon
<1>4. ASSUME HasOutstanding(seen) PROVE Sound(Staged(q, seen))
  BY <1>0, <1>4, DecisionFields, SoundWithoutRuns
<1>5. ASSUME NEW e \in Edits \cup {NoEdit}, HasOutstanding(seen) => IsFinal(seen),
             Len(seen.decisions) <= Len(q.decisions)
      PROVE  Sound(Approved(q, seen, e))
  <2>1. /\ Len(seen.decisions) \in Nat /\ Len(q.decisions) \in Nat
        /\ Len(Stages) \in Nat
    BY ApprovalAssumption DEF Row
  <2>2. /\ Approved(q, seen, e).status = "approved" /\ Approved(q, seen, e).runs = <<>>
        /\ Len(Approved(q, seen, e).decisions) =
             IF HasOutstanding(seen) THEN Len(q.decisions) + 1 ELSE Len(q.decisions)
    BY <1>0, DecisionFields
  <2>3. Len(Approved(q, seen, e).decisions) >= Len(Stages)
    BY <1>5, <2>1, <2>2 DEF HasOutstanding, IsFinal
  <2> QED
    BY <2>2, <2>3, SoundWithoutRuns
<1> QED
  BY <1>1, <1>2, <1>3, <1>4, <1>5

\* Claiming, executing and finishing keep an approved row sound.
LEMMA SoundRuns ==
  ASSUME NEW q \in Row, Sound(q), q.status = "approved"
  PROVE  /\ Sound(Claimed(q))
         /\ \A m \in {"complete", "error"} : Sound(WithMessage(q, m))
         /\ Len(q.runs) <= (IF q.snapshot THEN 0 ELSE 1) => Sound(Executed(q))
<1>0. Len(q.runs) \in Nat /\ q.snapshot \in BOOLEAN /\ q.runs \in Seq(Payloads)
  BY DEF Row
<1>1. Sound(Claimed(q))
  <2> DEFINE e == Claimed(q)
  <2>1. /\ e.runs = q.runs /\ e.edited = q.edited /\ e.decisions = q.decisions
        /\ e.status = "approved" /\ ~e.snapshot
    BY RowFields DEF Same
  <2> HIDE DEF e
  <2>2. Sound(e)
    BY <1>0, <2>1 DEF Sound, final_payload
  <2> QED
    BY <2>2 DEF e
<1>2. ASSUME NEW m \in {"complete", "error"} PROVE Sound(WithMessage(q, m))
  <2> DEFINE e == WithMessage(q, m)
  <2>1. /\ e.runs = q.runs /\ e.edited = q.edited /\ e.decisions = q.decisions
        /\ e.status = "approved" /\ e.snapshot = q.snapshot
    BY RowFields DEF Same
  <2> HIDE DEF e
  <2>2. Sound(e)
    BY <1>0, <2>1 DEF Sound, final_payload
  <2> QED
    BY <2>2 DEF e
<1>3. ASSUME Len(q.runs) <= (IF q.snapshot THEN 0 ELSE 1) PROVE Sound(Executed(q))
  <2> DEFINE p == final_payload(q)
             e == Executed(q)
  <2>1. /\ e.runs = Append(q.runs, p) /\ e.status = "approved"
        /\ e.snapshot = q.snapshot /\ e.decisions = q.decisions
        /\ e.edited = q.edited
    BY RowFields
  <2>2. final_payload(e) = p
    BY <2>1 DEF final_payload
  <2>3. p \in Payloads
    BY DEF final_payload, Payloads, Row
  <2>4. \A i \in DOMAIN q.runs : q.runs[i] = p
    BY DEF Sound
  <2>5. Len(q.decisions) >= Len(Stages)
    BY DEF Sound
  <2> HIDE DEF p, e
  <2>6. Len(e.runs) = Len(q.runs) + 1
    BY <1>0, <2>1, <2>3
  <2>7. Len(e.runs) <= IF e.snapshot THEN 1 ELSE 2
    BY <1>0, <1>3, <2>1, <2>6
  <2>8. \A i \in DOMAIN e.runs : e.runs[i] = p
    BY <1>0, <2>1, <2>3, <2>4
  <2>9. Sound(e)
    BY <2>1, <2>2, <2>5, <2>7, <2>8 DEF Sound
  <2> QED
    BY <2>9 DEF e
<1> QED
  BY <1>1, <1>2, <1>3

-----------------------------------------------------------------------------
\* The ways in which a transaction moves, whichever operation moves it.

\* A transaction that holds no lock ends, or goes to another step without
\* touching the row; if it goes on to write, what it has read is in order.
LEMMA MoveStep ==
  ASSUME DbInv, NEW t \in Txns, NEW d \in Txn,
         txn[t].pc \notin Holding, d.pc \notin Holding,
         t \in Clients /\ d.pc = "write" =>
           /\ d.op = "stage" => HasOutstanding(d.seen)
           /\ d.op = "approve" => /\ HasOutstanding(d.seen) => IsFinal(d.seen)
                                 /\ Len(d.seen.decisions) <= Len(row.decisions),
         txn' = [txn EXCEPT ![t] = d], UNCHANGED dbvars
  PROVE  DbInv'
<1>1. DbTypes'
  BY DEF DbInv, DbTypes, dbvars
<1>2. LockHeld'
  BY DEF DbInv, DbTypes, LockHeld, dbvars
<1>3. /\ Sound(row)' /\ Sound(draft)' /\ Settled(row)' /\ Follows'
  BY DEF DbInv, Sound, Settled, Follows, final_payload, dbvars
<1>4. Drafts'
  BY DEF DbInv, DbTypes, Drafts, Settled, Holding, dbvars
<1>5. Reads'
  BY DEF DbInv, DbTypes, Reads, dbvars, HasOutstanding, IsFinal
<1> QED
  BY <1>1, <1>2, <1>3, <1>4, <1>5 DEF DbInv

\* A transaction takes the lock and writes q.
LEMMA HoldStep ==
  ASSUME DbInv, NEW t \in Txns, NEW q \in Row, NEW pc \in {"execute", "commit", "raise"},
         Sound(q), row.status # "absent", q.status # "absent",
         row.status \in Terminal => q.status = row.status,
         Len(row.decisions) <= Len(q.decisions),
         pc = "execute" => /\ q.status = "approved"
                           /\ t \in Clients => q.snapshot
                           /\ Len(q.runs) <= IF q.snapshot THEN 0 ELSE 1,
         pc = "commit" => Settled(q),
         Hold(t, q, pc)
  PROVE  DbInv'
<1>0. /\ lock = NoTxn /\ lock' = t /\ draft' = q /\ row' = row
      /\ txn' = [txn EXCEPT ![t].pc = pc]
  BY DEF Hold, Goto
<1>1. DbTypes'
  <2>1. [txn[t] EXCEPT !.pc = pc] \in Txn
    BY FieldUpdates DEF DbInv, DbTypes, PC
  <2> QED
    BY <1>0, <2>1 DEF DbInv, DbTypes
<1>2. \A u \in Txns : /\ txn'[u].pc = IF u = t THEN pc ELSE txn[u].pc
                      /\ txn'[u].op = txn[u].op /\ txn'[u].seen = txn[u].seen
  BY <1>0 DEF DbInv, DbTypes, Txn
<1>3. \A u \in Txns : txn[u].pc \notin Holding
  BY <1>0, ApprovalAssumption DEF DbInv, LockHeld
<1>4. LockHeld'
  BY <1>0, <1>2, <1>3 DEF LockHeld, Holding
<1>5. /\ Sound(row)' /\ Sound(draft)' /\ Settled(row)'
  BY <1>0 DEF DbInv, Sound, Settled, final_payload
<1>6. Follows'
  BY <1>0, ApprovalAssumption DEF Follows
<1>7. Drafts'
  BY <1>0, <1>2, <1>3 DEF Drafts, Holding, Settled
<1>8. Reads'
  <2> SUFFICES ASSUME NEW c \in Clients, txn'[c].pc = "write"
               PROVE  /\ txn'[c].op = "stage" => HasOutstanding(txn'[c].seen)
                      /\ txn'[c].op = "approve" =>
                           /\ HasOutstanding(txn'[c].seen) => IsFinal(txn'[c].seen)
                           /\ Len(txn'[c].seen.decisions) <= Len(row.decisions)
    BY <1>0 DEF Reads, HasOutstanding, IsFinal
  <2>1. c \in Txns /\ txn[c].pc = "write" /\ txn'[c].op = txn[c].op
        /\ txn'[c].seen = txn[c].seen
    BY <1>2 DEF Txns
  <2> QED
    BY <2>1 DEF DbInv, Reads
<1> QED
  BY <1>1, <1>4, <1>5, <1>6, <1>7, <1>8 DEF DbInv

\* The lock holder changes its draft to q.
LEMMA DraftStep ==
  ASSUME DbInv, NEW t \in Txns, NEW q \in Row, NEW pc \in {"continue", "commit", "raise"},
         txn[t].pc \in {"execute", "continue"},
         Sound(q), q.status = draft.status, q.decisions = draft.decisions,
         pc = "continue" => q.snapshot = draft.snapshot,
         pc = "commit" => Settled(q),
         draft' = q, Goto(t, pc), UNCHANGED <<row, lock>>
  PROVE  DbInv'
<1>0. txn' = [txn EXCEPT ![t].pc = pc]
  BY DEF Goto
<1>1. DbTypes'
  <2>1. [txn[t] EXCEPT !.pc = pc] \in Txn
    BY FieldUpdates DEF DbInv, DbTypes, PC
  <2> QED
    BY <1>0, <2>1 DEF DbInv, DbTypes
<1>2. \A u \in Txns : /\ txn'[u].pc = IF u = t THEN pc ELSE txn[u].pc
                      /\ txn'[u].op = txn[u].op /\ txn'[u].seen = txn[u].seen
  BY <1>0 DEF DbInv, DbTypes, Txn
<1>3. lock = t /\ \A u \in Txns : u # t => txn[u].pc \notin Holding
  BY DEF DbInv, LockHeld, Holding
<1>4. LockHeld'
  BY <1>2, <1>3 DEF LockHeld, Holding
<1>5. /\ Sound(row)' /\ Sound(draft)' /\ Settled(row)'
  BY DEF DbInv, Sound, Settled, final_payload
<1>6. Follows'
  BY <1>3, ApprovalAssumption DEF DbInv, Follows
<1>7. Drafts'
  BY <1>2, <1>3 DEF DbInv, Drafts, Holding, Settled
<1>8. Reads'
  <2> SUFFICES ASSUME NEW c \in Clients, txn'[c].pc = "write"
               PROVE  /\ txn'[c].op = "stage" => HasOutstanding(txn'[c].seen)
                      /\ txn'[c].op = "approve" =>
                           /\ HasOutstanding(txn'[c].seen) => IsFinal(txn'[c].seen)
                           /\ Len(txn'[c].seen.decisions) <= Len(row.decisions)
    BY DEF Reads, HasOutstanding, IsFinal
  <2>1. c \in Txns /\ txn[c].pc = "write" /\ txn'[c].op = txn[c].op
        /\ txn'[c].seen = txn[c].seen
    BY <1>2 DEF Txns
  <2> QED
    BY <2>1 DEF DbInv, Reads
<1> QED
  BY <1>1, <1>4, <1>5, <1>6, <1>7, <1>8 DEF DbInv

\* The lock holder ends; q is the row it leaves.
LEMMA EndStep ==
  ASSUME DbInv, NEW t \in Txns, NEW q, lock = t, q = row \/ q = draft, Settled(q), End(t, q)
  PROVE  DbInv'
<1>0. row' = q /\ draft' = q /\ lock' = NoTxn /\ txn' = [txn EXCEPT ![t] = Idle]
  BY DEF End, Finish
<1>1. DbTypes' /\ q \in Row
  BY <1>0, FreshTypes DEF DbInv, DbTypes
<1>2. \A u \in Txns : txn'[u] = IF u = t THEN Idle ELSE txn[u]
  BY <1>0 DEF DbInv, DbTypes
<1>3. \A u \in Txns : txn'[u].pc \notin Holding
  BY <1>2 DEF DbInv, LockHeld, Holding, Idle
<1>4. LockHeld'
  BY <1>0, <1>3, ApprovalAssumption DEF LockHeld
<1>5. Sound(q) /\ Len(row.decisions) <= Len(q.decisions)
  BY DEF DbInv, Follows, DbTypes, Row
<1>6. /\ Sound(row)' /\ Sound(draft)' /\ Settled(row)'
  BY <1>0, <1>5 DEF Sound, Settled, final_payload
<1>7. Follows'
  <2>1. q.status # "absent"
    BY ApprovalAssumption DEF DbInv, Follows
  <2> QED
    BY <1>0, <1>1, <2>1 DEF Follows, Row
<1>8. Drafts'
  BY <1>3 DEF Drafts, Holding
<1>9. Reads'
  <2> SUFFICES ASSUME NEW c \in Clients, txn'[c].pc = "write"
               PROVE  /\ txn'[c].op = "stage" => HasOutstanding(txn'[c].seen)
                      /\ txn'[c].op = "approve" =>
                           /\ HasOutstanding(txn'[c].seen) => IsFinal(txn'[c].seen)
                           /\ Len(txn'[c].seen.decisions) <= Len(q.decisions)
    BY <1>0 DEF Reads, HasOutstanding, IsFinal
  <2>0. c \in Txns /\ Idle.pc = "idle"
    BY DEF Txns, Idle
  <2>1. c \in Txns /\ c # t /\ txn'[c] = txn[c]
    BY <1>2, <2>0
  <2>2. /\ Len(txn[c].seen.decisions) \in Nat /\ Len(row.decisions) \in Nat
        /\ Len(q.decisions) \in Nat
    <3>1. row \in Row /\ q \in Row /\ txn[c].seen \in Row
      BY <1>1, <2>1 DEF DbInv, DbTypes, Txn
    <3> QED
      BY <3>1 DEF Row
  <2> QED
    BY <1>5, <2>1, <2>2 DEF DbInv, Reads
<1> QED
  BY <1>1, <1>4, <1>6, <1>7, <1>8, <1>9 DEF DbInv

-----------------------------------------------------------------------------
LEMMA InitEstablishes == Init => IInv
<1> SUFFICES ASSUME Init PROVE IInv
  OBVIOUS
<1>1. DbTypes /\ CountTypes
  <2>1. DbTypes
    BY FreshTypes DEF Init, DbTypes
  <2>2. 1 \in 1..MaxAttempts
    BY ApprovalAssumption
  <2> QED
    BY <2>1, <2>2 DEF Init, CountTypes
<1>2. \A t \in Txns : txn[t].pc = "idle"
  BY DEF Init, Idle
<1>3. Sound(row) /\ Sound(draft) /\ Settled(row)
  BY SoundWithoutRuns DEF Init, Absent, Settled
<1>4. Follows
  BY <1>1 DEF Init, Follows, Absent, DbTypes, Row, Terminal
<1>5. LockHeld /\ Drafts /\ Reads
  <2>1. Clients \subseteq Txns
    BY DEF Txns
  <2> QED
    BY <1>2, <2>1, ApprovalAssumption DEF Init, LockHeld, Drafts, Reads, Holding
<1> QED
  BY <1>1, <1>3, <1>4, <1>5 DEF IInv, DbInv

\* The pause writes the first row; nobody holds its lock.
LEMMA PauseStep == IInv /\ pause => DbInv'
<1> SUFFICES ASSUME IInv, pause PROVE DbInv'
  OBVIOUS
<1>0. /\ row.status = "absent" /\ row' = Paused /\ draft' = Paused
      /\ lock = NoTxn /\ lock' = NoTxn /\ txn' = txn /\ row.decisions = <<>>
  BY DEF pause, IInv, DbInv, Follows
<1>1. /\ Paused \in Row /\ Paused.status = "pending" /\ Paused.snapshot
      /\ Paused.message = "waiting_approval" /\ Paused.runs = <<>>
      /\ Paused.decisions = <<>>
  BY FreshTypes DEF Paused, Absent
<1>2. Sound(Paused)
  BY <1>1, SoundWithoutRuns
<1>3. DbTypes'
  BY <1>0, <1>1 DEF IInv, DbInv, DbTypes
<1>4. LockHeld'
  BY <1>0 DEF IInv, DbInv, LockHeld
<1>5. Sound(row)' /\ Sound(draft)' /\ Settled(row)'
  BY <1>0, <1>1, <1>2 DEF Sound, Settled, final_payload
<1>6. Follows'
  BY <1>0, <1>1 DEF Follows, Terminal
<1>7. Drafts'
  BY <1>0, ApprovalAssumption DEF IInv, DbInv, LockHeld, Drafts, Holding
<1>8. Reads'
  BY <1>0, <1>1 DEF IInv, DbInv, Reads, HasOutstanding, IsFinal
<1> QED
  BY <1>3, <1>4, <1>5, <1>6, <1>7, <1>8 DEF DbInv

\* A compare-and-swap on the pending row.
LEMMA CasStep ==
  ASSUME DbInv, NEW t \in Txns, NEW q \in Row, NEW pc \in {"execute", "commit"},
         txn[t].pc = "write", Cas(t, q, pc),
         row.status = "pending" =>
           /\ Sound(q) /\ q.status # "absent"
           /\ Len(row.decisions) <= Len(q.decisions)
           /\ pc = "execute" => /\ q.status = "approved" /\ q.snapshot
                                /\ q.runs = <<>>
           /\ pc = "commit" => q.status # "approved"
  PROVE  DbInv'
<1>1. CASE row.status = "pending" /\ Hold(t, q, pc)
  <2>1. /\ row.status \notin Terminal
        /\ pc = "execute" => Len(q.runs) <= IF q.snapshot THEN 0 ELSE 1
        /\ pc = "commit" => Settled(q)
    BY <1>1 DEF Terminal, Settled
  <2> QED
    BY <1>1, <2>1, HoldStep
<1>2. CASE row.status # "pending" /\ Finish(t) /\ UNCHANGED dbvars
  <2>1. /\ Idle \in Txn /\ Idle.pc = "idle" /\ txn' = [txn EXCEPT ![t] = Idle]
        /\ "idle" \notin Holding /\ txn[t].pc \notin Holding
    BY <1>2, FreshTypes DEF Finish, Idle, Holding
  <2> QED
    BY <1>2, <2>1, MoveStep
<1> QED
  BY <1>1, <1>2 DEF Cas

\* Each request's steps.
LEMMA ClientStep ==
  ASSUME IInv, NEW c \in Clients, ClientNext(c)
  PROVE  DbInv'
<1>0. c \in Txns /\ DbInv /\ txn[c] \in Txn /\ txn[c].seen \in Row /\ row \in Row
      /\ txn[c].edit \in Edits \cup {NoEdit}
      /\ Len(row.decisions) \in Nat
  BY DEF Txns, IInv, DbInv, DbTypes, Txn, Row
<1>1. ASSUME NEW op \in Op, NEW e \in Edits \cup {NoEdit}, Begin(c, op, e)
      PROVE  DbInv'
  <2> DEFINE d == [op |-> op, seen |-> row, edit |-> e,
                   pc |-> IF row.status = "pending" /\ due THEN "expire"
                          ELSE IF op \in {"stage", "approve"} THEN "reread"
                          ELSE "write"]
  <2>1. d \in Txn /\ d.pc \notin Holding
    BY <1>0 DEF Txn, PC, Holding
  <2>2. d.pc = "write" => d.op \notin {"stage", "approve"}
    OBVIOUS
  <2>3. txn[c].pc \notin Holding /\ txn' = [txn EXCEPT ![c] = d] /\ UNCHANGED dbvars
    BY <1>1 DEF Begin, Holding, dbvars
  <2> HIDE DEF d
  <2> QED
    BY <1>0, <2>1, <2>2, <2>3, MoveStep
<1>2. CASE get(c) \/ revise(c) \/ reject(c) \/ cancel(c) \/ decide_stage(c) \/ decide_approve(c)
  <2>1. {"get", "revise", "reject", "cancel", "stage", "approve"} \subseteq Op
    BY DEF Op
  <2> QED
    BY <1>1, <1>2, <2>1 DEF get, revise, reject, cancel, decide_stage, decide_approve
<1>3. CASE expire_if_due(c)
  <2>1. CASE /\ row.status = "pending"
             /\ Hold(c, Expired(row), IF txn[c].op = "get" THEN "commit" ELSE "raise")
    <3>1. /\ Expired(row) \in Row /\ Sound(Expired(row)) /\ Expired(row).status = "expired"
          /\ Len(row.decisions) <= Len(Expired(row).decisions)
          /\ row.status \notin Terminal /\ Settled(Expired(row))
      <4>1. Expired(row) \in Row /\ Sound(Expired(row))
        BY <1>0, <2>1, RowTypes, SoundWrites DEF DbInv
      <4>2. Expired(row).status = "expired" /\ Expired(row).decisions = row.decisions
        BY <1>0, RowFields DEF Same
      <4> QED
        BY <1>0, <2>1, <4>1, <4>2 DEF Terminal, Settled
    <3> DEFINE pc == IF txn[c].op = "get" THEN "commit" ELSE "raise"
    <3>2. pc \in {"execute", "commit", "raise"} /\ pc # "execute"
      OBVIOUS
    <3>3. Hold(c, Expired(row), pc)
      BY <2>1
    <3> HIDE DEF pc
    <3> QED
      BY <1>0, <2>1, <3>1, <3>2, <3>3, HoldStep
  <2>2. CASE row.status # "pending" /\ UNCHANGED dbvars /\ txn[c].op = "get" /\ Finish(c)
    <3>1. /\ Idle \in Txn /\ Idle.pc = "idle" /\ txn' = [txn EXCEPT ![c] = Idle]
          /\ "idle" \notin Holding /\ txn[c].pc \notin Holding
      BY <1>3, <2>2, FreshTypes DEF Finish, Idle, Holding, expire_if_due
    <3> QED
      BY <1>0, <2>2, <3>1, MoveStep
  <2>3. CASE /\ row.status # "pending" /\ UNCHANGED dbvars /\ txn[c].op # "get"
             /\ Goto(c, IF txn[c].op \in {"stage", "approve"} THEN "reread" ELSE "write")
    <3> DEFINE pc == IF txn[c].op \in {"stage", "approve"} THEN "reread" ELSE "write"
               d == [txn[c] EXCEPT !.pc = pc]
    <3>1. pc \in PC /\ pc \notin Holding /\ txn[c].pc \notin Holding
      BY <1>3 DEF PC, Holding, expire_if_due
    <3>2. txn' = [txn EXCEPT ![c] = d]
      BY <2>3 DEF Goto
    <3>3. pc = "write" => txn[c].op \notin {"stage", "approve"}
      OBVIOUS
    <3> HIDE DEF pc
    <3>4. d \in Txn
      BY <1>0, <3>1, FieldUpdates
    <3>5. d.pc = pc /\ d.op = txn[c].op
      BY <1>0 DEF Txn
    <3> HIDE DEF d
    <3> QED
      BY <1>0, <2>3, <3>1, <3>2, <3>3, <3>4, <3>5, MoveStep
  <2> QED
    BY <1>3, <2>1, <2>2, <2>3 DEF expire_if_due
<1>4. CASE resolve_approval_for_decider(c)
  <2>0. txn[c].pc = "reread" /\ txn[c].pc \notin Holding /\ UNCHANGED dbvars
    BY <1>4 DEF resolve_approval_for_decider, Holding, dbvars
  <2>1. CASE Proceeds(txn[c].op, row) /\ txn' = [txn EXCEPT ![c].pc = "write", ![c].seen = row]
    <3> DEFINE d == [txn[c] EXCEPT !.pc = "write", !.seen = row]
    <3>1. d \in Txn
      <4>1. "write" \in PC
        BY DEF PC
      <4> QED
        BY <1>0, <4>1, FieldUpdates, Zenon
    <3>2. d.pc = "write" /\ d.op = txn[c].op /\ d.seen = row
      BY <1>0 DEF Txn
    <3>3. txn' = [txn EXCEPT ![c] = d]
      BY <2>1
    <3>4. "write" \notin Holding
      BY DEF Holding
    <3>5. /\ d.op = "stage" => HasOutstanding(d.seen)
          /\ d.op = "approve" => /\ HasOutstanding(d.seen) => IsFinal(d.seen)
                                /\ Len(d.seen.decisions) <= Len(row.decisions)
      BY <1>0, <2>1, <3>2 DEF Proceeds
    <3> HIDE DEF d
    <3> QED
      BY <1>0, <2>0, <3>1, <3>2, <3>3, <3>4, <3>5, MoveStep
  <2>2. CASE Finish(c)
    <3>1. /\ Idle \in Txn /\ Idle.pc = "idle" /\ txn' = [txn EXCEPT ![c] = Idle]
          /\ "idle" \notin Holding
      BY <2>2, FreshTypes DEF Finish, Idle, Holding
    <3> QED
      BY <1>0, <2>0, <3>1, MoveStep
  <2> QED
    BY <1>4, <2>1, <2>2 DEF resolve_approval_for_decider
<1>5. CASE cas_revise(c)
  <2> DEFINE q == Revised(row, txn[c].edit)
  <2>1. /\ q \in Row /\ q.status = row.status /\ q.decisions = row.decisions
        /\ row.status = "pending" => Sound(q)
    BY <1>0, RowTypes, RowFields, SoundWrites DEF DbInv
  <2>2. txn[c].pc = "write" /\ Cas(c, q, "commit")
    BY <1>5 DEF cas_revise
  <2> HIDE DEF q
  <2> QED
    BY <1>0, <2>1, <2>2, CasStep
<1>6. CASE cas_cancel(c)
  <2> DEFINE q == Cancelled(row)
  <2>1. /\ q \in Row /\ q.status = "cancelled" /\ q.decisions = row.decisions
        /\ row.status = "pending" => Sound(q)
    BY <1>0, RowTypes, RowFields, SoundWrites DEF DbInv, Same
  <2>2. txn[c].pc = "write" /\ Cas(c, q, "commit")
    BY <1>6 DEF cas_cancel
  <2> HIDE DEF q
  <2> QED
    BY <1>0, <2>1, <2>2, CasStep
<1>7. CASE decide_rejected(c)
  <2> DEFINE q == Rejected(row, txn[c].seen)
  <2>1. /\ q \in Row /\ q.status = "rejected"
        /\ Len(row.decisions) <= Len(q.decisions)
        /\ row.status = "pending" => Sound(q)
    BY <1>0, RowTypes, DecisionFields, SoundWrites DEF DbInv
  <2>2. txn[c].pc = "write" /\ Cas(c, q, "commit")
    BY <1>7 DEF decide_rejected
  <2> HIDE DEF q
  <2> QED
    BY <1>0, <2>1, <2>2, CasStep
<1>8. CASE record_stage_approval(c)
  <2> DEFINE q == Staged(row, txn[c].seen)
  <2>0. HasOutstanding(txn[c].seen)
    BY <1>0, <1>8 DEF DbInv, Reads, record_stage_approval
  <2>1. /\ q \in Row /\ q.status = row.status
        /\ Len(q.decisions) = Len(row.decisions) + 1
        /\ row.status = "pending" => Sound(q)
    BY <1>0, <2>0, RowTypes, DecisionFields, SoundWrites DEF DbInv
  <2>2. txn[c].pc = "write" /\ Cas(c, q, "commit")
    BY <1>8 DEF record_stage_approval
  <2> HIDE DEF q
  <2> QED
    BY <1>0, <2>1, <2>2, CasStep
<1>9. CASE approve_and_resume(c)
  <2> DEFINE q == Approved(row, txn[c].seen, txn[c].edit)
  <2>0. /\ HasOutstanding(txn[c].seen) => IsFinal(txn[c].seen)
        /\ Len(txn[c].seen.decisions) <= Len(row.decisions)
    BY <1>0, <1>9 DEF DbInv, Reads, approve_and_resume
  <2>1. /\ q \in Row /\ q.status = "approved" /\ q.runs = row.runs
        /\ q.snapshot = row.snapshot
        /\ Len(row.decisions) <= Len(q.decisions)
    <3>1. q \in Row
      BY <1>0, RowTypes
    <3>2. /\ q.status = "approved" /\ q.runs = row.runs /\ q.snapshot = row.snapshot
          /\ Len(q.decisions) = IF HasOutstanding(txn[c].seen) THEN Len(row.decisions) + 1
                                                              ELSE Len(row.decisions)
      BY <1>0, DecisionFields
    <3> HIDE DEF q
    <3> QED
      BY <1>0, <3>1, <3>2
  <2>2. row.status = "pending" => Sound(q)
    BY <1>0, <2>0, SoundWrites DEF DbInv
  <2>3. row.status = "pending" => row.runs = <<>> /\ row.snapshot
    BY <1>0 DEF DbInv, Sound
  <2>4. txn[c].pc = "write" /\ Cas(c, q, "execute")
    BY <1>9 DEF approve_and_resume
  <2> HIDE DEF q
  <2> QED
    BY <1>0, <2>1, <2>2, <2>3, <2>4, CasStep
<1>10. CASE Disconnect(c)
  <2>1. PICK q \in {row, draft} : End(c, q)
    BY <1>10 DEF Disconnect
  <2>2. lock = c /\ draft.snapshot
    BY <1>0, <1>10 DEF DbInv, LockHeld, Drafts, Holding, Disconnect
  <2>3. Settled(q)
    BY <1>0, <2>1, <2>2 DEF DbInv, Settled
  <2> QED
    BY <1>0, <2>1, <2>2, <2>3, EndStep
<1> QED
  BY <1>2, <1>3, <1>4, <1>5, <1>6, <1>7, <1>8, <1>9, <1>10 DEF ClientNext

\* The steps of the two sweeps up to their first write.
LEMMA SweepStep ==
  ASSUME IInv, (\E s \in Sweepers : SweeperNext(s)) \/ ExpirerNext
  PROVE  DbInv'
<1>0. DbInv /\ row \in Row /\ Sound(row) /\ Len(row.decisions) \in Nat
  BY DEF IInv, DbInv, DbTypes, Row
<1>1. ASSUME NEW t \in Txns, NEW op \in {"resume", "expire"}, t \notin Clients,
             txn[t].pc = "idle", UNCHANGED dbvars,
             txn' = [txn EXCEPT ![t] = [Idle EXCEPT !.op = op, !.pc = "write"]]
      PROVE  DbInv'
  <2> DEFINE d == [Idle EXCEPT !.op = op, !.pc = "write"]
  <2>1. d \in Txn /\ d.pc = "write" /\ "write" \notin Holding /\ txn[t].pc \notin Holding
    BY <1>1, FreshTypes DEF Idle, Txn, Op, PC, Holding
  <2>2. txn' = [txn EXCEPT ![t] = d]
    BY <1>1
  <2> HIDE DEF d
  <2> QED
    BY <1>0, <1>1, <2>1, <2>2, MoveStep
<1>2. ASSUME NEW s \in Sweepers, list_orphaned_approved_snapshots(s) PROVE DbInv'
  <2>1. s \in Txns /\ s \notin Clients
    BY ApprovalAssumption DEF Txns
  <2> QED
    BY <1>1, <1>2, <2>1 DEF list_orphaned_approved_snapshots, dbvars
<1>3. CASE list_pending_past_timeout_hours
  <2>1. Expirer \in Txns /\ Expirer \notin Clients
    BY ApprovalAssumption DEF Txns
  <2> QED
    BY <1>1, <1>3, <2>1 DEF list_pending_past_timeout_hours, dbvars
<1>4. CASE cas_expire_pending_sweep
  <2> DEFINE q == SweptOut(row)
  <2>1. /\ q \in Row /\ q.status = "expired" /\ q.decisions = row.decisions
        /\ row.status = "pending" => Sound(q)
    BY <1>0, RowTypes, RowFields, SoundWrites DEF Same
  <2>2. Expirer \in Txns /\ txn[Expirer].pc = "write" /\ Cas(Expirer, q, "commit")
    BY <1>4 DEF cas_expire_pending_sweep, Txns
  <2> HIDE DEF q
  <2> QED
    BY <1>0, <2>1, <2>2, CasStep
<1>5. ASSUME NEW s \in Sweepers, claim_pause_snapshot(s) PROVE DbInv'
  <2>0. s \in Txns /\ s \notin Clients /\ txn[s].pc = "write" /\ "idle" \notin Holding
        /\ txn[s].pc \notin Holding
    BY <1>5, ApprovalAssumption DEF Txns, claim_pause_snapshot, Holding
  <2>1. CASE row.status = "approved" /\ row.snapshot /\ Hold(s, Claimed(row), "execute")
    <3> DEFINE q == Claimed(row)
    <3>1. /\ q \in Row /\ q.status = "approved" /\ q.decisions = row.decisions
          /\ q.runs = row.runs /\ ~q.snapshot /\ Hold(s, q, "execute")
      BY <1>0, <2>1, RowTypes, RowFields DEF Same
    <3>2. Sound(q)
      BY <1>0, <2>1, SoundRuns
    <3>3. Len(row.runs) <= 1
      BY <1>0, <2>1 DEF Sound
    <3> HIDE DEF q
    <3> QED
      BY <1>0, <2>0, <2>1, <3>1, <3>2, <3>3, HoldStep
  <2>2. CASE Finish(s) /\ UNCHANGED dbvars
    <3>1. Idle \in Txn /\ Idle.pc = "idle" /\ txn' = [txn EXCEPT ![s] = Idle]
      BY <2>2, FreshTypes DEF Finish, Idle
    <3> QED
      BY <1>0, <2>0, <2>2, <3>1, MoveStep
  <2> QED
    BY <1>5, <2>1, <2>2 DEF claim_pause_snapshot
<1> QED
  BY <1>2, <1>3, <1>4, <1>5 DEF SweeperNext, ExpirerNext

\* The steps that the decider and the sweeps share.
LEMMA TxnStep ==
  ASSUME IInv, NEW t \in Txns, TxnNext(t)
  PROVE  DbInv'
<1>0. DbInv /\ draft \in Row /\ Sound(draft) /\ Settled(row)
  BY DEF IInv, DbInv, DbTypes
<1>1. CASE execute_approved_calls(t)
  <2> DEFINE q == Executed(draft)
  <2>1. /\ q \in Row /\ q.status = draft.status /\ q.decisions = draft.decisions
        /\ q.snapshot = draft.snapshot
    BY <1>0, RowTypes, RowFields
  <2>2. txn[t].pc = "execute" /\ draft' = q /\ Goto(t, "continue") /\ UNCHANGED <<row, lock>>
    BY <1>1 DEF execute_approved_calls
  <2>3. draft.status = "approved" /\ Len(draft.runs) <= IF draft.snapshot THEN 0 ELSE 1
    BY <1>0, <2>2 DEF DbInv, Drafts
  <2>4. Sound(q)
    BY <1>0, <2>3, SoundRuns
  <2> HIDE DEF q
  <2> QED
    BY <1>0, <2>1, <2>2, <2>4, DraftStep
<1>2. ASSUME NEW m \in {"complete", "error"}, NEW pc \in {"commit", "raise"},
             txn[t].pc \in {"execute", "continue"}, draft' = WithMessage(draft, m), Goto(t, pc),
             UNCHANGED <<row, lock>>
      PROVE  DbInv'
  <2> DEFINE q == WithMessage(draft, m)
  <2>1. draft.status = "approved"
    BY <1>0, <1>2 DEF DbInv, Drafts
  <2>2. /\ q \in Row /\ q.status = draft.status /\ q.decisions = draft.decisions
        /\ q.message = m
    BY <1>0, RowTypes, RowFields DEF Same
  <2>3. Sound(q)
    BY <1>0, <2>1, SoundRuns
  <2>4. draft' = q
    BY <1>2
  <2> HIDE DEF q
  <2>5. Settled(q)
    BY <2>2 DEF Settled
  <2> QED
    BY <1>0, <1>2, <2>2, <2>3, <2>4, <2>5, DraftStep
<1>3. CASE ContinuationEnds(t)
  BY <1>2, <1>3 DEF ContinuationEnds
<1>4. CASE ContinuationRaises(t)
  BY <1>2, <1>4 DEF ContinuationRaises
<1>5. CASE Commit(t)
  <2>1. txn[t].pc = "commit" /\ End(t, draft)
    BY <1>5 DEF Commit
  <2>2. lock = t /\ Settled(draft)
    BY <1>0, <2>1 DEF DbInv, LockHeld, Drafts, Holding
  <2> QED
    BY <1>0, <2>1, <2>2, EndStep
<1>6. CASE Rollback(t)
  <2>1. txn[t].pc = "raise" /\ End(t, row)
    BY <1>6 DEF Rollback
  <2>2. lock = t
    BY <1>0, <2>1 DEF DbInv, LockHeld, Holding
  <2> QED
    BY <1>0, <2>1, <2>2, EndStep
<1>7. CASE Crash(t)
  <2>1. CASE lock = t
    <3>1. End(t, row)
      BY <1>7, <2>1 DEF Crash, End
    <3> QED
      BY <1>0, <2>1, <3>1, EndStep
  <2>2. CASE lock # t
    <3>1. /\ Idle \in Txn /\ Idle.pc = "idle" /\ txn' = [txn EXCEPT ![t] = Idle]
          /\ "idle" \notin Holding /\ UNCHANGED dbvars
      BY <1>7, <2>2, FreshTypes DEF Crash, Finish, Idle, Holding, dbvars
    <3>2. txn[t].pc \notin Holding
      BY <1>0, <2>2 DEF DbInv, LockHeld
    <3> QED
      BY <1>0, <3>1, <3>2, MoveStep
  <2> QED
    BY <2>1, <2>2
<1> QED
  BY <1>1, <1>3, <1>4, <1>5, <1>6, <1>7 DEF TxnNext

\* Attempts stay within the maximum and the other counters keep their types.
LEMMA CountStep == IInv /\ [Next]_vars => CountTypes'
<1> SUFFICES ASSUME IInv, [Next]_vars PROVE CountTypes'
  OBVIOUS
<1> USE DEF IInv
<1>0. 1 \in 1..MaxAttempts /\ \A s \in Sweepers : NextAttempt(s) \in 1..MaxAttempts
  BY ApprovalAssumption DEF CountTypes, NextAttempt, FailSafe
<1>1. CASE pause \/ DeadlinePasses \/ GracePasses
  BY <1>1 DEF CountTypes, pause, DeadlinePasses, GracePasses, counts
<1>2. ASSUME NEW c \in Clients, ClientNext(c) PROVE CountTypes'
  <2>1. ASSUME NEW op, NEW e, Begin(c, op, e) PROVE CountTypes'
    BY <2>1 DEF CountTypes, Begin, timevars
  <2>2. CASE expire_if_due(c)
    BY <2>2 DEF CountTypes, expire_if_due, timevars
  <2>3. CASE resolve_approval_for_decider(c) \/ cas_revise(c) \/ cas_cancel(c)
             \/ decide_rejected(c) \/ record_stage_approval(c) \/ Disconnect(c)
    BY <2>3 DEF CountTypes, resolve_approval_for_decider, cas_revise, cas_cancel,
                decide_rejected, record_stage_approval, Disconnect, timevars, counts
  <2>4. CASE approve_and_resume(c)
    BY <2>4 DEF CountTypes, approve_and_resume, counts
  <2> QED
    BY <1>2, <2>1, <2>2, <2>3, <2>4 DEF ClientNext, get, revise, reject, cancel,
       decide_stage, decide_approve
<1>3. ASSUME NEW s \in Sweepers, SweeperNext(s) PROVE CountTypes'
  BY <1>0, <1>3 DEF CountTypes, SweeperNext, list_orphaned_approved_snapshots,
                    claim_pause_snapshot, timevars, counts
<1>4. CASE ExpirerNext
  BY <1>4 DEF CountTypes, ExpirerNext, list_pending_past_timeout_hours,
              cas_expire_pending_sweep, timevars, counts
<1>5. ASSUME NEW t \in Txns, TxnNext(t) PROVE CountTypes'
  <2>1. CASE execute_approved_calls(t) \/ ContinuationEnds(t) \/ ContinuationRaises(t)
    BY <2>1 DEF CountTypes, execute_approved_calls, ContinuationEnds, ContinuationRaises,
                timevars, counts
  <2>2. CASE Commit(t) \/ Rollback(t) \/ Crash(t)
    BY <1>0, <2>2 DEF CountTypes, Commit, Rollback, Crash, timevars
  <2> QED
    BY <1>5, <2>1, <2>2 DEF TxnNext
<1>6. CASE UNCHANGED vars
  BY <1>6 DEF CountTypes, vars
<1> QED
  BY <1>1, <1>2, <1>3, <1>4, <1>5, <1>6 DEF Next

\* The invariant is inductive.
LEMMA NextPreserves == IInv /\ [Next]_vars => IInv'
<1> SUFFICES ASSUME IInv, [Next]_vars PROVE DbInv'
  BY CountStep DEF IInv
<1>1. CASE DeadlinePasses \/ GracePasses \/ UNCHANGED vars
  <2>1. UNCHANGED <<row, draft, lock, txn>>
    BY <1>1 DEF DeadlinePasses, GracePasses, vars, dbvars
  <2> QED
    BY <2>1 DEF IInv, DbInv, DbTypes, LockHeld, Sound, Settled, Follows, Drafts, Reads,
                final_payload, HasOutstanding, IsFinal
<1> QED
  BY <1>1, PauseStep, ClientStep, SweepStep, TxnStep DEF Next

\* The invariant holds in every reachable state, for any number of requests,
\* sweeps, stages and edits, whatever fails.
THEOREM InvariantHolds == Spec => []IInv
<1> QED
  BY InitEstablishes, NextPreserves, PTL DEF Spec

\* The state of an approval and of its transactions keeps its types.
THEOREM TypeCorrect == Spec => []TypeOK
<1>1. IInv => TypeOK
  BY DEF IInv, DbInv, DbTypes, CountTypes, TypeOK
<1> QED
  BY <1>1, InvariantHolds, PTL

\* The calls are executed by one transaction at a time.
THEOREM SingleExecutor == Spec => []OneExecutor
<1>1. IInv => OneExecutor
  BY DEF IInv, DbInv, LockHeld, Holding, OneExecutor
<1> QED
  BY <1>1, InvariantHolds, PTL

\* What committed transactions have executed is what the approval records, at
\* most once by the decider and once by the sweep.
THEOREM RunsMatch == Spec => []CommittedRunsMatch
<1>1. IInv => CommittedRunsMatch
  BY DEF IInv, DbInv, Sound, CommittedRunsMatch
<1> QED
  BY <1>1, InvariantHolds, PTL

\* An approved row has at least as many stage decisions as required stages.
THEOREM StagesCounted == Spec => []ChecklistComplete
<1>1. IInv => ChecklistComplete
  BY DEF IInv, DbInv, Sound, ChecklistComplete
<1> QED
  BY <1>1, InvariantHolds, PTL

\* The placeholder message agrees with the committed status.
THEOREM MessageAgrees == Spec => []MessageFollows
<1>1. IInv => MessageFollows
  BY DEF IInv, DbInv, Sound, Settled, MessageFollows
<1> QED
  BY <1>1, InvariantHolds, PTL

\* Only a transaction that ends changes the committed row, and a draft never
\* changes a terminal status.
LEMMA RowChanges == IInv /\ [Next]_vars => row' = row \/ row' = draft \/ row.status = "absent"
<1> SUFFICES ASSUME IInv, [Next]_vars
             PROVE  row' = row \/ row' = draft \/ row.status = "absent"
  OBVIOUS
<1>1. ASSUME NEW c \in Clients, ClientNext(c) PROVE row' = row \/ row' = draft
  BY <1>1 DEF ClientNext, get, revise, reject, cancel, decide_stage, decide_approve, Begin,
     expire_if_due, resolve_approval_for_decider, cas_revise, cas_cancel, decide_rejected,
     record_stage_approval, approve_and_resume, Disconnect, Cas, Hold, End, dbvars
<1>2. ASSUME NEW s \in Sweepers, SweeperNext(s) PROVE row' = row
  BY <1>2 DEF SweeperNext, list_orphaned_approved_snapshots, claim_pause_snapshot, Hold, dbvars
<1>3. CASE ExpirerNext
  BY <1>3 DEF ExpirerNext, list_pending_past_timeout_hours, cas_expire_pending_sweep,
              Cas, Hold, dbvars
<1>4. ASSUME NEW t \in Txns, TxnNext(t) PROVE row' = row \/ row' = draft
  BY <1>4 DEF TxnNext, execute_approved_calls, ContinuationEnds, ContinuationRaises,
              Commit, Rollback, Crash, End
<1>5. CASE pause \/ DeadlinePasses \/ GracePasses \/ UNCHANGED vars
  BY <1>5 DEF pause, DeadlinePasses, GracePasses, vars, dbvars
<1> QED
  BY <1>1, <1>2, <1>3, <1>4, <1>5 DEF Next

\* A committed decision is never overwritten.
THEOREM DecisionIsFinal == Spec => TerminalIsFinal
<1>1. IInv /\ [Next]_vars => [row.status \in Terminal => row'.status = row.status]_row
  BY RowChanges DEF IInv, DbInv, Follows, Terminal
<1> QED
  BY <1>1, InvariantHolds, PTL DEF Spec, TerminalIsFinal

\* Refused calls are not executed.
THEOREM RefusedIsSilent == Spec => RefusedNeverRuns
<1>1. ASSUME IInv, [Next]_vars, row.status \in {"rejected", "cancelled", "expired"}
      PROVE  execs' = execs
  <2>1. row.status \in Terminal /\ draft.status # "approved"
    BY <1>1 DEF IInv, DbInv, Follows, Terminal
  <2>2. ASSUME NEW t \in Txns PROVE ~execute_approved_calls(t)
    BY <1>1, <2>1 DEF execute_approved_calls, IInv, DbInv, Drafts
  <2>3. ASSUME NEW c \in Clients, ClientNext(c) PROVE execs' = execs
    BY <2>3 DEF ClientNext, get, revise, reject, cancel, decide_stage, decide_approve, Begin,
       expire_if_due, resolve_approval_for_decider, cas_revise, cas_cancel, decide_rejected,
       record_stage_approval, approve_and_resume, Disconnect, counts
  <2>4. ASSUME NEW s \in Sweepers, SweeperNext(s) PROVE execs' = execs
    BY <2>4 DEF SweeperNext, list_orphaned_approved_snapshots, claim_pause_snapshot, counts
  <2>5. CASE ExpirerNext
    BY <2>5 DEF ExpirerNext, list_pending_past_timeout_hours, cas_expire_pending_sweep, counts
  <2>6. ASSUME NEW t \in Txns, TxnNext(t) PROVE execs' = execs
    BY <2>2, <2>6 DEF TxnNext, ContinuationEnds, ContinuationRaises, Commit, Rollback,
                      Crash, counts
  <2>7. CASE pause \/ DeadlinePasses \/ GracePasses \/ UNCHANGED vars
    BY <2>7 DEF pause, DeadlinePasses, GracePasses, vars, counts
  <2> QED
    BY <1>1, <2>3, <2>4, <2>5, <2>6, <2>7 DEF Next
<1>2. IInv /\ [Next]_vars =>
        [row.status \in {"rejected", "cancelled", "expired"} => execs' = execs]_execs
  BY <1>1
<1> QED
  BY <1>2, InvariantHolds, PTL DEF Spec, RefusedNeverRuns

\* What was run, who runs it, who decided and what the user is told agree, for any
\* number of requests, sweeps and stages (hitl/service.py, hitl/store.py).
THEOREM ApprovalIsSafe == Spec => []ApprovalSafe
  BY TypeCorrect, SingleExecutor, RunsMatch, StagesCounted, MessageAgrees, PTL DEF ApprovalSafe

\* A decision stands and a refusal is obeyed, whichever requests and sweeps race.
THEOREM DecisionIsObeyed == Spec => DecisionStands
  BY DecisionIsFinal, RefusedIsSilent, PTL DEF DecisionStands

(***************************************************************************)
(* The proofs of AccessLimits, the gate every request of the API passes    *)
(* before it gets to an approval. They use nothing of the ones above: the  *)
(* two components share no variable. The invariant says what the advisory  *)
(* lock protects, and that a refused bucket is full of timestamps whose    *)
(* oldest is gone when the caller may come back.                           *)
(***************************************************************************)

Managing == {"authorize", "actor", "target", "owners", "write"}
Ends == {"new", "refused", "done"}

\* A request between its arrival and its answer.
Open ==
    [pc : Managing \cup {"limit", "use", "lookup", "login", "link", "guest", "audit", "commit"},
     kind : Kinds, caller : Users \cup {None}, target : Users \cup {None},
     role : Roles \cup {None}, guest : Guests \cup {None}, limit : Nat,
     roles : SUBSET Roles, found : BOOLEAN]

\* What a request carries at each step.
RequestFits(q) ==
    /\ q.kind # "guest" => q.caller \in Users
    /\ q.kind \in {"assign", "revoke"} => q.target \in Users /\ q.role \in Roles
    /\ q.pc \in Managing => q.kind \in {"assign", "revoke"}
    /\ q.pc \in {"lookup", "login", "link"} => q.kind = "login"
    /\ q.pc \in {"use", "guest"} => q.kind = q.pc
    /\ q.pc = "limit" => q.limit > 0 /\ q.roles = {}
    /\ q.pc = "owners" => q.kind = "revoke" /\ q.role = "owner" /\ "owner" \in q.roles

\* What the transaction of a request may have written: rows of the right
\* tables, and a revocation only of the row that the request names.
WriteFits(q, w) ==
    /\ w.op \in {"assign", "revoke"} => w.row \in Users \X Roles
    /\ w.op = "user" => w.row \in Users
    /\ w.op = "guest" => w.val \in Users \cup {None, "unlinked"}
    /\ w.op = "revoke" =>
         q.pc \in {"audit", "commit"} /\ q.kind = "revoke" /\ w.row = <<q.target, q.role>>

RequestsFit ==
    /\ req \in [Requests -> Open \cup [pc : Ends]]
    /\ tx = [r \in Requests |-> tx[r]]
    /\ \A r \in Requests :
         /\ req[r].pc \notin Ends => RequestFits(req[r])
         /\ \A w \in tx[r] : WriteFits(req[r], w)

\* The request has passed the last-owner check.
Revoking(q) == q.pc \in {"write", "audit", "commit"} /\ q.kind = "revoke" /\ q.role = "owner"

\* A request that may take an owner's role away holds the advisory lock and
\* leaves another owner; one whose caller was an owner finds that there is one.
OwnersGuarded ==
    \A r \in Requests :
        /\ Revoking(req[r]) => mutex = r /\ \E v \in Owners : v # req[r].target
        /\ req[r].pc \notin Ends /\ "owner" \in req[r].roles => Owners # {}

\* A refused bucket holds as many timestamps as its limit, and the oldest has
\* left the window by the time the caller was told to come back.
PromisesKept ==
    /\ events \in [Buckets -> Seq(Nat)]
    /\ role_cache = [u \in Users |-> role_cache[u]]
    /\ promise = [b \in Buckets |-> promise[b]]
    /\ \A b \in Buckets : promise[b] # None =>
         /\ promise[b] \in [due : Int, limit : Nat \ {0}]
         /\ Len(events[b]) = promise[b].limit
         /\ events[b][1] + 2 * Window <= promise[b].due

AccessInv == LimitsAssumption /\ AccessTypeOK /\ RequestsFit /\ OwnersGuarded /\ PromisesKept
-----------------------------------------------------------------------------
LEMMA LimitsHold ==
  AccessInv =>
      /\ Grantable \subseteq Roles /\ BootstrapAdmins \subseteq Users
      /\ Base \in Nat \ {0} /\ Anonymous \in Nat \ {0} /\ DailyLimit \in Nat
      /\ Window \in Nat \ {0} /\ CacheTtl \in Nat /\ MaxTime \in Nat
      /\ Multiplier \in [Roles -> Nat] /\ None \notin Requests
BY DEF AccessInv, LimitsAssumption

LEMMA InitInv == LimitsAssumption /\ AccessInit => AccessInv
<1> SUFFICES ASSUME LimitsAssumption, AccessInit PROVE AccessInv
  OBVIOUS
<1>1. AccessTypeOK
  BY DEF LimitsAssumption, AccessInit, AccessTypeOK, Buckets
<1>2. RequestsFit /\ OwnersGuarded
  BY DEF AccessInit, RequestsFit, OwnersGuarded, NoRequest, Ends, Revoking, WriteFits
<1>3. PromisesKept
  BY DEF AccessInit, PromisesKept
<1> QED
  BY <1>1, <1>2, <1>3 DEF AccessInv

\* A step of one request: what it must show of itself, and what it leaves to
\* the others.
LEMMA RequestStep ==
  ASSUME AccessInv, NEW r \in Requests, NEW q \in Open \cup [pc : Ends], NEW W,
         q.pc \notin Ends => RequestFits(q),
         \A w \in W : WriteFits(q, w),
         req' = [req EXCEPT ![r] = q],
         tx' = [tx EXCEPT ![r] = W],
         \A s \in Requests \ {r} : mutex = s => mutex' = s,
         Owners \subseteq Owners',
         Revoking(q) => mutex' = r /\ \E v \in Owners : v # q.target,
         q.pc \notin Ends /\ "owner" \in q.roles => Owners # {}
  PROVE  RequestsFit' /\ OwnersGuarded'
<1>1. req' \in [Requests -> Open \cup [pc : Ends]] /\ tx' = [s \in Requests |-> tx'[s]]
  BY DEF AccessInv, RequestsFit
<1>2. req'[r] = q /\ tx'[r] = W
  BY DEF AccessInv, RequestsFit
<1>3. \A s \in Requests \ {r} : req'[s] = req[s] /\ tx'[s] = tx[s]
  BY DEF AccessInv, RequestsFit
<1>4. ASSUME NEW s \in Requests
      PROVE  /\ req'[s].pc \notin Ends => RequestFits(req'[s])
             /\ \A w \in tx'[s] : WriteFits(req'[s], w)
  BY <1>2, <1>3 DEF AccessInv, RequestsFit
<1>5. ASSUME NEW s \in Requests
      PROVE  /\ Revoking(req'[s]) => mutex' = s /\ \E v \in Owners' : v # req'[s].target
             /\ req'[s].pc \notin Ends /\ "owner" \in req'[s].roles => Owners' # {}
  <2>1. CASE s = r
    BY <1>2, <2>1
  <2>2. CASE s # r
    BY <1>3, <2>2 DEF AccessInv, OwnersGuarded
  <2> QED
    BY <2>1, <2>2
<1> QED
  BY <1>1, <1>4, <1>5 DEF RequestsFit, OwnersGuarded, RequestFits, WriteFits, Revoking

\* What a step that leaves the limiter alone keeps of it.
LEMMA LimiterKept ==
  ASSUME AccessInv, UNCHANGED limiter
  PROVE  PromisesKept'
BY DEF AccessInv, PromisesKept, limiter, Buckets

\* A request that is not at an end is an open one.
LEMMA OpenRequest ==
  ASSUME AccessInv, NEW r \in Requests, req[r].pc \notin Ends
  PROVE  req[r] \in Open /\ RequestFits(req[r])
BY DEF AccessInv, RequestsFit, Ends

\* The answer of a request whose transaction is rolled back.
LEMMA AnsweredInv ==
  ASSUME AccessInv, NEW r \in Requests, NEW pc \in Ends,
         req' = [req EXCEPT ![r] = [pc |-> pc]],
         tx' = [tx EXCEPT ![r] = {}],
         \A s \in Requests \ {r} : mutex = s => mutex' = s,
         Owners \subseteq Owners'
  PROVE  RequestsFit' /\ OwnersGuarded'
<1>1. [pc |-> pc] \in [pc : Ends] /\ [pc |-> pc].pc = pc
  OBVIOUS
<1>2. /\ req' \in [Requests -> Open \cup [pc : Ends]] /\ tx' = [s \in Requests |-> tx'[s]]
      /\ req'[r].pc = pc /\ tx'[r] = {}
      /\ \A s \in Requests \ {r} : req'[s] = req[s] /\ tx'[s] = tx[s]
  BY <1>1 DEF AccessInv, RequestsFit
<1>3. ASSUME NEW s \in Requests
      PROVE  /\ req'[s].pc \notin Ends => RequestFits(req'[s])
             /\ \A w \in tx'[s] : WriteFits(req'[s], w)
  BY <1>2 DEF AccessInv, RequestsFit
<1>4. ASSUME NEW s \in Requests
      PROVE  /\ Revoking(req'[s]) => mutex' = s /\ \E v \in Owners' : v # req'[s].target
             /\ req'[s].pc \notin Ends /\ "owner" \in req'[s].roles => Owners' # {}
  <2>1. CASE s = r
    BY <1>2, <2>1 DEF Revoking, Ends
  <2>2. CASE s # r
    BY <1>2, <2>2 DEF AccessInv, OwnersGuarded
  <2> QED
    BY <2>1, <2>2
<1> QED
  BY <1>2, <1>3, <1>4 DEF RequestsFit, OwnersGuarded, RequestFits, WriteFits, Revoking

LEMMA RefuseInv ==
  ASSUME AccessInv, NEW r \in Requests, Refuse(r)
  PROVE  AccessInv'
<1>1. req' = [req EXCEPT ![r] = [pc |-> "refused"]] /\ tx' = [tx EXCEPT ![r] = {}]
  BY DEF Refuse, EndTx, Answered
<1>2. mutex' = (IF mutex = r THEN None ELSE mutex) /\ UNCHANGED <<database, audit, limiter, usage, now>>
  BY DEF Refuse, EndTx
<1>3. Owners' = Owners
  BY <1>2 DEF Owners, database
<1>4. RequestsFit' /\ OwnersGuarded'
  BY <1>1, <1>2, <1>3, AnsweredInv DEF Ends
<1>5. AccessTypeOK'
  BY <1>2 DEF AccessInv, AccessTypeOK, database, limiter, Buckets
<1> QED
  BY <1>2, <1>4, <1>5, LimiterKept DEF AccessInv

LEMMA FailInv ==
  ASSUME AccessInv, NEW r \in Requests, Fail(r)
  PROVE  AccessInv'
BY RefuseInv DEF Fail

\* commit_session: an owner's role is taken away only by the holder of the lock, and
\* then somebody else's stays.
LEMMA CommitInv ==
  ASSUME AccessInv, NEW r \in Requests, commit_session(r)
  PROVE  AccessInv' /\ (Owners # {} => Owners' # {})
<1>1. /\ req' = [req EXCEPT ![r] = [pc |-> "done"]] /\ tx' = [tx EXCEPT ![r] = {}]
      /\ mutex' = (IF mutex = r THEN None ELSE mutex)
      /\ UNCHANGED <<audit, limiter, usage, now>>
      /\ req[r].pc = "commit"
  BY DEF commit_session, EndTx, Answered
<1>2. req[r] \in Open /\ RequestFits(req[r])
  BY <1>1, OpenRequest DEF Ends
<1>3. \A x \in Rows(r, "revoke") :
         /\ req[r].kind = "revoke" /\ x = <<req[r].target, req[r].role>>
         /\ req[r].target \in Users /\ req[r].role \in Roles
  BY <1>2 DEF AccessInv, RequestsFit, WriteFits, Rows, RequestFits
<1>4. ASSUME NEW v \in Owners, v \notin Owners'
      PROVE  Revoking(req[r]) /\ v = req[r].target
  <2>1. <<v, "owner">> \in Rows(r, "revoke")
    BY <1>4 DEF commit_session, Owners
  <2> QED
    BY <1>1, <1>3, <2>1 DEF Revoking
<1>5. Revoking(req[r]) => mutex = r /\ \E v \in Owners : v \in Owners'
  BY <1>4 DEF AccessInv, OwnersGuarded
<1>6. Owners # {} => Owners' # {}
  BY <1>4, <1>5
<1>7. ASSUME NEW s \in Requests \ {r}
      PROVE  /\ req'[s] = req[s] /\ tx'[s] = tx[s]
             /\ Revoking(req[s]) => mutex' = s /\ Owners \subseteq Owners'
  <2>1. req'[s] = req[s] /\ tx'[s] = tx[s]
    BY <1>1 DEF AccessInv, RequestsFit
  <2>2. ASSUME Revoking(req[s]) PROVE mutex = s /\ ~Revoking(req[r])
    BY <2>2 DEF AccessInv, OwnersGuarded
  <2> QED
    BY <1>1, <1>4, <2>1, <2>2
<1>8. req'[r] = [pc |-> "done"] /\ tx'[r] = {}
  BY <1>1 DEF AccessInv, RequestsFit
<1>9. RequestsFit'
  <2>1. req' \in [Requests -> Open \cup [pc : Ends]] /\ tx' = [s \in Requests |-> tx'[s]]
    BY <1>1 DEF AccessInv, RequestsFit, Ends
  <2>2. ASSUME NEW s \in Requests
        PROVE  /\ req'[s].pc \notin Ends => RequestFits(req'[s])
               /\ \A w \in tx'[s] : WriteFits(req'[s], w)
    BY <1>7, <1>8 DEF AccessInv, RequestsFit, Ends
  <2> QED
    BY <2>1, <2>2 DEF RequestsFit, RequestFits, WriteFits
<1>10. OwnersGuarded'
  <2>1. ASSUME NEW s \in Requests
        PROVE  /\ Revoking(req'[s]) => mutex' = s /\ \E v \in Owners' : v # req'[s].target
               /\ req'[s].pc \notin Ends /\ "owner" \in req'[s].roles => Owners' # {}
    <3>1. CASE s = r
      BY <1>8, <3>1 DEF Revoking, Ends
    <3>2. CASE s # r
      BY <1>6, <1>7, <3>2 DEF AccessInv, OwnersGuarded
    <3> QED
      BY <3>1, <3>2
  <2> QED
    BY <2>1 DEF OwnersGuarded, Revoking
<1>11. AccessTypeOK'
  <2>1. assigned' \subseteq Users \X Roles /\ registered' \subseteq Users
    BY DEF commit_session, AccessInv, AccessTypeOK, RequestsFit, WriteFits, Rows
  <2>2. linked' \in [Guests -> Users \cup {None, "unlinked"}]
    <3>1. ASSUME NEW g \in Guests, \E w \in tx[r] : w.op = "guest" /\ w.row = g
          PROVE  (CHOOSE w \in tx[r] : w.op = "guest" /\ w.row = g).val \in Users \cup {None, "unlinked"}
      BY <3>1 DEF AccessInv, RequestsFit, WriteFits
    <3> QED
      BY <3>1 DEF commit_session, AccessInv, AccessTypeOK
  <2>3. mutex' \in Requests \cup {None}
    BY <1>1 DEF AccessInv, AccessTypeOK
  <2> QED
    BY <1>1, <2>1, <2>2, <2>3 DEF AccessInv, AccessTypeOK, limiter, Buckets
<1> QED
  BY <1>1, <1>6, <1>9, <1>10, <1>11, LimiterKept DEF AccessInv

\* A step within a transaction that changes no table and takes no lock.
LEMMA StepInv ==
  ASSUME AccessInv, NEW r \in Requests, NEW q, NEW W,
         q \in Open, RequestFits(q), \A w \in W : WriteFits(q, w),
         req' = [req EXCEPT ![r] = q], tx' = [tx EXCEPT ![r] = W],
         UNCHANGED <<database, mutex, limiter, usage, now>>,
         audit' \subseteq Requests \X {"denied", "success"},
         Revoking(q) => mutex = r /\ \E v \in Owners : v # q.target,
         "owner" \in q.roles => Owners # {}
  PROVE  AccessInv'
<1>1. Owners' = Owners /\ mutex' = mutex
  BY DEF Owners, database
<1>2. RequestsFit' /\ OwnersGuarded'
  BY <1>1, RequestStep
<1>3. AccessTypeOK'
  BY DEF AccessInv, AccessTypeOK, database, limiter, Buckets
<1> QED
  BY <1>2, <1>3, LimiterKept DEF AccessInv

\* The special case of a step that only moves on.
LEMMA MoveInv ==
  ASSUME AccessInv, NEW r \in Requests, req[r].pc \notin Ends, NEW pc, Step(r, pc),
         [req[r] EXCEPT !.pc = pc] \in Open, RequestFits([req[r] EXCEPT !.pc = pc]),
         req[r].pc \notin {"audit", "commit"} \/ pc = "commit",
         UNCHANGED <<database, mutex, tx, limiter, usage, now>>,
         audit' \subseteq Requests \X {"denied", "success"},
         pc \in {"write", "audit", "commit"} => Revoking(req[r]) \/ ~Revoking([req[r] EXCEPT !.pc = pc])
  PROVE  AccessInv'
<1> DEFINE q == [req[r] EXCEPT !.pc = pc]
<1>1. req[r] \in Open /\ RequestFits(req[r])
  BY OpenRequest
<1>2. /\ q.pc = pc /\ q.kind = req[r].kind /\ q.role = req[r].role /\ q.target = req[r].target
      /\ q.roles = req[r].roles
  BY <1>1 DEF Open
<1>3. req' = [req EXCEPT ![r] = q] /\ tx' = [tx EXCEPT ![r] = tx[r]]
  BY DEF Step, AccessInv, RequestsFit
<1>4. Revoking(q) => mutex = r /\ \E v \in Owners : v # q.target
  BY <1>2 DEF AccessInv, OwnersGuarded, Revoking
<1>5. "owner" \in q.roles => Owners # {}
  BY <1>2 DEF AccessInv, OwnersGuarded
<1>6. \A w \in tx[r] : WriteFits(q, w)
  BY <1>2 DEF AccessInv, RequestsFit, WriteFits
<1> QED
  BY <1>3, <1>4, <1>5, <1>6, StepInv

-----------------------------------------------------------------------------
LEMMA IdentityInv ==
  ASSUME AccessInv, NEW r \in Requests, Identity(r)
  PROVE  AccessInv'
<1>1. CASE lookup(r)
  <2> DEFINE q == [req[r] EXCEPT !.found = req[r].caller \in registered, !.pc = "login"]
  <2>1. req[r].pc = "lookup" /\ req[r] \in Open /\ RequestFits(req[r])
    BY <1>1, OpenRequest DEF lookup, Ends
  <2>2. q \in Open /\ RequestFits(q) /\ ~Revoking(q) /\ q.roles = req[r].roles
    <3>1. ASSUME NEW known \in BOOLEAN, NEW p, p = [req[r] EXCEPT !.found = known, !.pc = "login"]
          PROVE  p \in Open /\ RequestFits(p) /\ ~Revoking(p) /\ p.roles = req[r].roles
      BY <2>1, <3>1 DEF Open, RequestFits, Revoking, Managing
    <3>2. (req[r].caller \in registered) \in BOOLEAN
      OBVIOUS
    <3> QED
      BY <3>1, <3>2
  <2>3. req' = [req EXCEPT ![r] = q] /\ tx' = [tx EXCEPT ![r] = tx[r]]
    BY <1>1 DEF lookup, AccessInv, RequestsFit
  <2>4. \A w \in tx[r] : WriteFits(q, w)
    BY <2>1 DEF AccessInv, RequestsFit, WriteFits
  <2>5. "owner" \in q.roles => Owners # {}
    BY <2>1, <2>2 DEF AccessInv, OwnersGuarded, Ends
  <2>6. UNCHANGED <<database, mutex, limiter, usage, now>> /\ audit' \subseteq Requests \X {"denied", "success"}
    BY <1>1 DEF lookup, AccessInv, AccessTypeOK
  <2> QED
    BY <2>2, <2>3, <2>4, <2>5, <2>6, StepInv
<1>2. ASSUME NEW pc \in {"link", "audit", "commit"}, NEW op \in {"user", "guest"}, NEW key, NEW val,
             req[r].pc \in {"login", "link", "guest"}, pc \in {"link", "audit"} => req[r].kind = "login",
             req[r].kind \in {"login", "guest"},
             Step(r, pc), tx' = tx \/ tx' = Write(r, op, key, val),
             op = "user" => key \in Users, op = "guest" => val \in Users \cup {None, "unlinked"},
             UNCHANGED <<database, mutex, audit, limiter, usage, now>>
      PROVE  AccessInv'
  <2> DEFINE q == [req[r] EXCEPT !.pc = pc]
  <2> DEFINE W == tx'[r]
  <2>1. req[r] \in Open /\ RequestFits(req[r])
    BY <1>2, OpenRequest DEF Ends
  <2>2. q \in Open /\ RequestFits(q) /\ ~Revoking(q) /\ q.roles = req[r].roles
    BY <1>2, <2>1 DEF Open, RequestFits, Revoking, Managing
  <2>3. req' = [req EXCEPT ![r] = q] /\ tx' = [tx EXCEPT ![r] = W]
    BY <1>2 DEF Step, Write, AccessInv, RequestsFit
  <2>4. \A w \in W : WriteFits(q, w)
    <3>1. \A w \in tx[r] : WriteFits(q, w)
      BY <1>2, <2>1 DEF AccessInv, RequestsFit, WriteFits
    <3>2. WriteFits(q, [op |-> op, row |-> key, val |-> val])
      BY <1>2 DEF WriteFits
    <3>3. W \subseteq tx[r] \cup {[op |-> op, row |-> key, val |-> val]}
      BY <1>2 DEF Write, AccessInv, RequestsFit
    <3> QED
      BY <3>1, <3>2, <3>3
  <2>5. "owner" \in q.roles => Owners # {}
    BY <1>2, <2>2 DEF AccessInv, OwnersGuarded, Ends
  <2>6. UNCHANGED <<database, mutex, limiter, usage, now>> /\ audit' \subseteq Requests \X {"denied", "success"}
    BY <1>2 DEF AccessInv, AccessTypeOK
  <2> QED
    BY <2>2, <2>3, <2>4, <2>5, <2>6, StepInv
<1>3. CASE login_with_google(r)
  <2>1. req[r].pc = "login" /\ RequestFits(req[r])
    BY <1>3, OpenRequest DEF login_with_google, Ends
  <2>2. CASE Refuse(r)
    BY <2>2, RefuseInv
  <2>3. CASE ~Refuse(r)
    BY <1>2, <1>3, <2>1, <2>3 DEF login_with_google, RequestFits
  <2> QED
    BY <2>2, <2>3
<1>4. CASE _maybe_link_guest(r)
  <2>1. req[r].pc = "link" /\ RequestFits(req[r])
    BY <1>4, OpenRequest DEF _maybe_link_guest, Ends
  <2> QED
    BY <1>2, <1>4, <2>1 DEF _maybe_link_guest, RequestFits
<1>5. CASE resolve_guest_caller(r)
  <2>1. req[r].pc = "guest" /\ req[r].kind = "guest" /\ req[r] \in Open
    BY <1>5, OpenRequest DEF resolve_guest_caller, Ends, RequestFits
  <2>2. Step(r, "commit") /\ UNCHANGED <<database, mutex, audit, limiter, usage, now>>
    BY <1>5 DEF resolve_guest_caller
  <2>3. \E key, val : val \in Users \cup {None, "unlinked"} /\ tx' = Write(r, "guest", key, val)
    BY <1>5, <2>1 DEF resolve_guest_caller, AccessInv, AccessTypeOK
  <2> QED
    BY <1>2, <2>1, <2>2, <2>3
<1> QED
  BY <1>1, <1>3, <1>4, <1>5 DEF Identity

\* A request that has written nothing to take back is answered.
LEMMA DeniedInv ==
  ASSUME AccessInv, NEW r \in Requests, Answered(r, "refused"),
         req[r].pc \notin {"audit", "commit"},
         UNCHANGED <<database, mutex, tx>>
  PROVE  RequestsFit' /\ OwnersGuarded'
<1> DEFINE q == [pc |-> "refused"]
<1>1. q \in [pc : Ends] /\ q.pc \in Ends /\ ~Revoking(q)
  BY DEF Ends, Revoking
<1>2. req' = [req EXCEPT ![r] = q] /\ tx' = [tx EXCEPT ![r] = tx[r]]
  BY DEF Answered, AccessInv, RequestsFit
<1>3. \A w \in tx[r] : WriteFits(q, w)
  BY DEF AccessInv, RequestsFit, WriteFits
<1>4. Owners' = Owners /\ mutex' = mutex
  BY DEF database, Owners
<1> QED
  BY <1>1, <1>2, <1>3, <1>4, RequestStep

LEMMA QuotaInv ==
  ASSUME AccessInv, NEW r \in Requests, check_daily_usage_quota(r)
  PROVE  AccessInv'
<1> DEFINE u == req[r].caller
<1>1. req[r].pc = "use" /\ req[r] \in Open /\ RequestFits(req[r])
  BY OpenRequest DEF check_daily_usage_quota, Ends
<1>2. u \in Users /\ UNCHANGED <<database, mutex, tx, audit, limiter, now>> /\ Owners' = Owners
  BY <1>1 DEF check_daily_usage_quota, RequestFits, database, Owners
<1>3. usage' \in [Users -> 0..DailyLimit]
  BY <1>2, LimitsHold DEF check_daily_usage_quota, check_and_increment, AccessInv, AccessTypeOK
<1>4. \A w \in tx[r] : w.op # "revoke"
  BY <1>1 DEF AccessInv, RequestsFit, WriteFits
<1>5. RequestsFit' /\ OwnersGuarded'
  <2>1. CASE Step(r, "commit")
    <3> DEFINE q == [req[r] EXCEPT !.pc = "commit"]
    <3>1. q \in Open /\ RequestFits(q) /\ ~Revoking(q) /\ q.roles = req[r].roles
      BY <1>1 DEF Open, RequestFits, Revoking, Managing
    <3>2. req' = [req EXCEPT ![r] = q] /\ tx' = [tx EXCEPT ![r] = tx[r]]
      BY <1>2, <2>1 DEF Step, AccessInv, RequestsFit
    <3>3. \A w \in tx[r] : WriteFits(q, w)
      BY <1>4 DEF AccessInv, RequestsFit, WriteFits
    <3>4. "owner" \in q.roles => Owners # {}
      BY <1>1, <3>1 DEF AccessInv, OwnersGuarded, Ends
    <3> QED
      BY <1>2, <3>1, <3>2, <3>3, <3>4, RequestStep
  <2>2. CASE Answered(r, "refused")
    BY <1>1, <1>2, <2>2, DeniedInv
  <2> QED
    BY <2>1, <2>2 DEF check_daily_usage_quota
<1>6. AccessTypeOK'
  BY <1>2, <1>3 DEF AccessInv, AccessTypeOK, database, limiter, Buckets
<1> QED
  BY <1>2, <1>5, <1>6, LimiterKept DEF AccessInv

LEMMA ManagementInv ==
  ASSUME AccessInv, NEW r \in Requests, Management(r)
  PROVE  AccessInv'
<1> DEFINE q(pc) == [req[r] EXCEPT !.pc = pc]
<1>1. req[r].pc \in Managing /\ req[r] \in Open /\ RequestFits(req[r])
  BY OpenRequest DEF Management, authorize, actor_roles, target_roles, owners, assign_role, revoke_role, Ends, Managing
<1>2. /\ req[r].kind \in {"assign", "revoke"} /\ req[r].caller \in Users
      /\ req[r].target \in Users /\ req[r].role \in Roles
  BY <1>1 DEF RequestFits
<1>3. \A w \in tx[r] : w.op # "revoke" /\ \A x : WriteFits(x, w)
  BY <1>1 DEF AccessInv, RequestsFit, WriteFits, Managing
<1>4. ASSUME NEW pc \in Managing \cup {"audit", "commit"}
      PROVE  /\ q(pc) \in Open
             /\ q(pc).pc = pc /\ q(pc).kind = req[r].kind /\ q(pc).caller = req[r].caller
             /\ q(pc).target = req[r].target /\ q(pc).role = req[r].role /\ q(pc).roles = req[r].roles
  BY <1>1 DEF Open
<1>5. tx = [tx EXCEPT ![r] = tx[r]] /\ audit \subseteq Requests \X {"denied", "success"}
  BY DEF AccessInv, RequestsFit, AccessTypeOK
<1>6. "owner" \in req[r].roles => Owners # {}
  BY <1>1 DEF AccessInv, OwnersGuarded, Ends, Managing
<1>7. CASE authorize(r)
  <2>1. req[r].pc = "authorize" /\ UNCHANGED <<database, mutex, tx, limiter, usage, now>>
    BY <1>7 DEF authorize
  <2>2. audit' \subseteq Requests \X {"denied", "success"}
    BY <1>5, <1>7 DEF authorize
  <2>3. CASE Answered(r, "refused")
    <3>1. RequestsFit' /\ OwnersGuarded'
      BY <2>1, <2>3, DeniedInv
    <3>2. AccessTypeOK'
      BY <2>1, <2>2 DEF AccessInv, AccessTypeOK, database, limiter, Buckets
    <3> QED
      BY <2>1, <3>1, <3>2, LimiterKept DEF AccessInv
  <2>4. CASE Step(r, "actor")
    <3>1. q("actor") \in Open /\ RequestFits(q("actor"))
      BY <1>2, <1>4 DEF RequestFits, Managing
    <3> QED
      BY <1>1, <2>1, <2>2, <2>4, <3>1, MoveInv DEF Ends
  <2> QED
    BY <1>7, <2>3, <2>4 DEF authorize
<1>8. CASE actor_roles(r)
  <2> DEFINE p == [req[r] EXCEPT !.roles = get_user_roles(req[r].caller), !.pc = "target"]
  <2>1. get_user_roles(req[r].caller) \subseteq Roles
    BY DEF get_user_roles
  <2>2. p \in Open /\ p.roles = get_user_roles(req[r].caller) /\ p.pc = "target"
    BY <1>1, <2>1 DEF Open, Managing
  <2>3. RequestFits(p) /\ ~Revoking(p)
    BY <1>1, <1>2, <2>2 DEF Open, RequestFits, Revoking, Managing
  <2>4. req' = [req EXCEPT ![r] = p] /\ UNCHANGED <<database, mutex, tx, audit, limiter, usage, now>>
    BY <1>8 DEF actor_roles
  <2>5. "owner" \in p.roles => Owners # {}
    BY <1>2, <2>2 DEF get_user_roles, Owners
  <2> QED
    BY <1>3, <1>5, <2>2, <2>3, <2>4, <2>5, StepInv
<1>9. CASE target_roles(r)
  <2>1. req[r].pc = "target"
    BY <1>9 DEF target_roles
  <2>2. CASE Refuse(r)
    BY <2>2, RefuseInv
  <2>3. CASE ~Refuse(r)
    <3> DEFINE pc == IF req[r].kind = "revoke" /\ req[r].role = "owner" THEN "owners" ELSE "write"
    <3>1. Step(r, pc) /\ UNCHANGED <<database, mutex, tx, audit, limiter, usage, now>>
      BY <1>9, <2>3 DEF target_roles
    <3>2. pc = "owners" => "owner" \in req[r].roles
      BY <1>9, <2>3 DEF target_roles, _ensure_role_management_is_allowed
    <3>3. q(pc) \in Open /\ RequestFits(q(pc)) /\ ~Revoking(q(pc))
      BY <1>2, <1>4, <3>2 DEF RequestFits, Managing, Revoking
    <3> QED
      BY <1>1, <1>5, <2>1, <3>1, <3>3, MoveInv DEF Ends
  <2> QED
    BY <2>2, <2>3
<1>10. CASE owners(r)
  <2>1. req[r].pc = "owners"
    BY <1>10 DEF owners
  <2>2. CASE Refuse(r)
    BY <2>2, RefuseInv
  <2>3. CASE ~Refuse(r)
    <3>1. /\ ~_is_final_owner(req[r].target) /\ mutex \in {None, r} /\ mutex' = r
          /\ Step(r, "write") /\ UNCHANGED <<database, tx, audit, limiter, usage, now>>
      BY <1>10, <2>3 DEF owners, list_all_user_role_assignments
    <3>2. q("write") \in Open /\ RequestFits(q("write"))
      BY <1>2, <1>4 DEF RequestFits, Managing
    <3>3. \E v \in Owners : v # req[r].target
      BY <1>1, <1>6, <2>1, <3>1 DEF _is_final_owner, Owners, RequestFits
    <3>4. req' = [req EXCEPT ![r] = q("write")] /\ Owners' = Owners
      BY <3>1 DEF Step, Owners, database
    <3>5. RequestsFit' /\ OwnersGuarded'
      <4> DEFINE p == q("write")
      <4>1. p.roles = req[r].roles /\ p.target = req[r].target
        BY <1>4 DEF Managing
      <4>2. \A s \in Requests \ {r} : mutex = s => mutex' = s
        BY <3>1, LimitsHold
      <4>3. \A w \in tx[r] : WriteFits(p, w)
        BY <1>3
      <4>4. tx' = [tx EXCEPT ![r] = tx[r]]
        BY <1>5, <3>1
      <4> HIDE DEF p
      <4> QED
        BY <1>6, <3>1, <3>2, <3>3, <3>4, <4>1, <4>2, <4>3, <4>4, RequestStep DEF p
    <3>6. AccessTypeOK'
      BY <3>1 DEF AccessInv, AccessTypeOK, database, limiter, Buckets
    <3> QED
      BY <3>1, <3>5, <3>6, LimiterKept DEF AccessInv
  <2> QED
    BY <2>2, <2>3
<1>11. ASSUME NEW op \in {"assign", "revoke"}, req[r].pc = "write", req[r].kind = op,
              Step(r, "audit"), tx' = Write(r, op, <<req[r].target, req[r].role>>, None),
              UNCHANGED <<database, mutex, audit, limiter, usage, now>>
       PROVE  AccessInv'
  <2> DEFINE w == [op |-> op, row |-> <<req[r].target, req[r].role>>, val |-> None]
  <2>1. q("audit") \in Open /\ RequestFits(q("audit")) /\ q("audit").pc = "audit"
    BY <1>2, <1>4 DEF RequestFits, Managing
  <2>2. WriteFits(q("audit"), w)
    BY <1>2, <1>4, <1>11 DEF WriteFits
  <2>3. req' = [req EXCEPT ![r] = q("audit")] /\ tx' = [tx EXCEPT ![r] = tx[r] \cup {w}]
    BY <1>11 DEF Step, Write, AccessInv, RequestsFit
  <2>4. Revoking(q("audit")) => mutex = r /\ \E v \in Owners : v # q("audit").target
    BY <1>4, <1>11 DEF AccessInv, OwnersGuarded, Revoking
  <2>5. "owner" \in q("audit").roles => Owners # {}
    BY <1>4, <1>6
  <2>6. \A x \in tx[r] \cup {w} : WriteFits(q("audit"), x)
    BY <1>3, <2>2
  <2>7. UNCHANGED <<database, mutex, limiter, usage, now>> /\ audit' \subseteq Requests \X {"denied", "success"}
    BY <1>5, <1>11
  <2> HIDE DEF q, w
  <2> QED
    BY <2>1, <2>3, <2>4, <2>5, <2>6, <2>7, StepInv
<1>12. CASE assign_role(r)
  <2>1. req[r].pc = "write" /\ req[r].kind = "assign"
    BY <1>12 DEF assign_role
  <2>2. CASE Step(r, "commit") /\ UNCHANGED <<database, mutex, tx, audit, limiter, usage, now>>
    <3>1. q("commit") \in Open /\ RequestFits(q("commit")) /\ ~Revoking(q("commit"))
      BY <1>2, <1>4, <2>1 DEF RequestFits, Managing, Revoking
    <3> QED
      BY <1>1, <1>5, <2>1, <2>2, <3>1, MoveInv DEF Ends
  <2> QED
    BY <1>11, <1>12, <2>1, <2>2 DEF assign_role
<1>13. CASE revoke_role(r)
  <2>1. CASE Refuse(r)
    BY <2>1, RefuseInv
  <2>2. CASE ~Refuse(r)
    BY <1>11, <1>13, <2>2 DEF revoke_role
  <2> QED
    BY <2>1, <2>2
<1> QED
  BY <1>7, <1>8, <1>9, <1>10, <1>12, <1>13 DEF Management

LEMMA RecordInv ==
  ASSUME AccessInv, NEW r \in Requests, record(r)
  PROVE  AccessInv'
<1>1. /\ req[r].pc = "audit" /\ Step(r, "commit")
      /\ UNCHANGED <<database, mutex, tx, limiter, usage, now>>
  BY DEF record
<1>2. req[r] \in Open /\ RequestFits(req[r])
  BY <1>1, OpenRequest DEF Ends
<1>3. [req[r] EXCEPT !.pc = "commit"] \in Open /\ RequestFits([req[r] EXCEPT !.pc = "commit"])
  BY <1>2 DEF Open, RequestFits, Managing
<1>4. Revoking(req[r]) \/ ~Revoking([req[r] EXCEPT !.pc = "commit"])
  BY <1>1, <1>2 DEF Revoking, Open
<1>5. audit' \subseteq Requests \X {"denied", "success"}
  BY DEF record, AccessInv, AccessTypeOK
<1> QED
  BY <1>1, <1>3, <1>4, <1>5, MoveInv DEF Ends

-----------------------------------------------------------------------------
\* limit_of is a number of at least one, whatever the multiplier.
LEMMA LimitPositive ==
  ASSUME AccessInv, NEW role \in Roles
  PROVE  limit_of(role) \in Nat \ {0}
<1>1. Base * Multiplier[role] \in Nat
  BY LimitsHold
<1>2. \A n \in Nat : n \div 2 \in Nat
  OBVIOUS
<1> QED
  BY <1>1, <1>2 DEF limit_of, Max

\* The role a limit is computed from is one of the roles.
LEMMA RoleOfCaller ==
  ASSUME AccessInv, NEW u \in Users
  PROVE  _get_rate_limit_role(u) \in Roles
<1> DEFINE mine == {role \in Roles : <<u, role>> \in assigned} \cup {"member"}
<1>1. \E role \in mine : \A other \in mine : _ROLE_PRIORITY(other) <= _ROLE_PRIORITY(role)
  <2>1. mine \subseteq Roles /\ "member" \in mine
    BY DEF Roles
  <2>2. /\ _ROLE_PRIORITY("owner") = 3 /\ _ROLE_PRIORITY("admin") = 2
        /\ _ROLE_PRIORITY("operator") = 1 /\ _ROLE_PRIORITY("member") = 0
    BY DEF _ROLE_PRIORITY
  <2> HIDE DEF mine
  <2>3. CASE "owner" \in mine
    BY <2>1, <2>2, <2>3 DEF Roles
  <2>4. CASE "owner" \notin mine /\ "admin" \in mine
    BY <2>1, <2>2, <2>4 DEF Roles
  <2>5. CASE "owner" \notin mine /\ "admin" \notin mine /\ "operator" \in mine
    BY <2>1, <2>2, <2>5 DEF Roles
  <2>6. CASE "owner" \notin mine /\ "admin" \notin mine /\ "operator" \notin mine
    BY <2>1, <2>2, <2>6 DEF Roles
  <2> QED
    BY <2>3, <2>4, <2>5, <2>6
<1>2. get_highest_priority_role(u) \in mine
  BY <1>1 DEF get_highest_priority_role
<1>3. Fresh(u) => role_cache[u].role \in Roles
  BY DEF Fresh, AccessInv, AccessTypeOK
<1> QED
  BY <1>2, <1>3 DEF _get_rate_limit_role, Roles

LEMMA ArriveInv ==
  ASSUME AccessInv, NEW r \in Requests, NEW kind \in Kinds, NEW u, NEW v, NEW role, NEW g \in Guests \cup {None},
         Arrive(r, Request(kind, u, v, role, g)),
         kind # "guest" => u \in Users /\ v \in Users, kind = "guest" => u = None /\ v = None,
         kind \in {"assign", "revoke"} => role \in Roles, role \in Roles \cup {None}
  PROVE  AccessInv'
<1> DEFINE q(n) == [Request(kind, u, v, role, g) EXCEPT !.limit = n]
<1>1. \A n \in Nat \ {0} : q(n) \in Open /\ RequestFits(q(n)) /\ ~Revoking(q(n)) /\ q(n).roles = {}
  <2> SUFFICES ASSUME NEW n \in Nat \ {0}
               PROVE  q(n) \in Open /\ RequestFits(q(n)) /\ ~Revoking(q(n)) /\ q(n).roles = {}
    OBVIOUS
  <2> DEFINE p == Request(kind, u, v, role, g)
  <2>1. u \in Users \cup {None} /\ v \in Users \cup {None}
    BY DEF Kinds
  <2>2. /\ p \in Open /\ p.pc = "limit" /\ p.kind = kind /\ p.caller = u /\ p.target = v
        /\ p.role = role /\ p.roles = {}
    BY <2>1 DEF Request, Open
  <2> HIDE DEF p
  <2>3. /\ q(n) \in Open /\ q(n).pc = "limit" /\ q(n).kind = kind /\ q(n).caller = u /\ q(n).target = v
        /\ q(n).role = role /\ q(n).roles = {} /\ q(n).limit = n
    BY <2>2 DEF Open, p
  <2> HIDE DEF q
  <2>4. RequestFits(q(n)) /\ ~Revoking(q(n))
    BY <2>3 DEF RequestFits, Revoking, Managing
  <2> QED
    BY <2>3, <2>4
<1>2. Request(kind, u, v, role, g).kind = kind /\ Request(kind, u, v, role, g).caller = u
  BY DEF Request
<1>3. /\ req[r].pc = "new"
      /\ UNCHANGED <<database, mutex, tx, audit, events, usage, promise, now>>
  BY DEF Arrive
<1>4. \E n \in Nat \ {0} : req' = [req EXCEPT ![r] = q(n)]
  <2>1. CASE kind \in {"login", "guest"}
    BY <1>2, <2>1, LimitsHold DEF Arrive
  <2>2. CASE kind \notin {"login", "guest"}
    <3>1. u \in Users
      BY <2>2
    <3>2. limit_of(_get_rate_limit_role(u)) \in Nat \ {0} /\ limit_of("member") \in Nat \ {0}
      BY <3>1, RoleOfCaller, LimitPositive DEF Roles
    <3>3. \/ req' = [req EXCEPT ![r] = q(limit_of(_get_rate_limit_role(u)))]
          \/ req' = [req EXCEPT ![r] = q(limit_of("member"))]
      BY <1>2, <2>2 DEF Arrive
    <3> QED
      BY <3>2, <3>3
  <2> QED
    BY <2>1, <2>2
<1>5. role_cache' = [w \in Users |-> role_cache'[w]]
      /\ \A w \in Users : role_cache'[w] # None => role_cache'[w] \in [at : 0..now, role : Roles]
  <2>1. CASE role_cache' = role_cache
    BY <2>1 DEF AccessInv, AccessTypeOK, PromisesKept
  <2>2. CASE role_cache' # role_cache
    <3>1. kind \notin {"login", "guest"} /\ u \in Users
      BY <1>2, <2>2 DEF Arrive
    <3>2. role_cache' = [role_cache EXCEPT ![u] = [at |-> now, role |-> _get_rate_limit_role(u)]]
      BY <1>2, <2>2, <3>1 DEF Arrive
    <3>3. _get_rate_limit_role(u) \in Roles /\ now \in 0..now
      BY <3>1, RoleOfCaller, LimitsHold DEF AccessInv, AccessTypeOK
    <3> QED
      BY <3>1, <3>2, <3>3 DEF AccessInv, AccessTypeOK, PromisesKept
  <2> QED
    BY <2>1, <2>2
<1>6. AccessTypeOK'
  BY <1>3, <1>5 DEF AccessInv, AccessTypeOK, database, Buckets
<1>7. PromisesKept'
  BY <1>3, <1>5 DEF AccessInv, PromisesKept, Buckets
<1>8. RequestsFit' /\ OwnersGuarded'
  <2>1. PICK n \in Nat \ {0} : req' = [req EXCEPT ![r] = q(n)]
    BY <1>4
  <2>2. q(n) \in Open /\ RequestFits(q(n)) /\ ~Revoking(q(n)) /\ q(n).roles = {}
    BY <1>1
  <2>3. tx' = [tx EXCEPT ![r] = tx[r]] /\ Owners' = Owners /\ mutex' = mutex
    BY <1>3 DEF AccessInv, RequestsFit, Owners, database
  <2>4. \A w \in tx[r] : WriteFits(q(n), w)
    BY <1>3 DEF AccessInv, RequestsFit, WriteFits
  <2> HIDE DEF q
  <2> QED
    BY <2>1, <2>2, <2>3, <2>4, RequestStep
<1> QED
  BY <1>6, <1>7, <1>8 DEF AccessInv

LEMMA ArrivalInv ==
  ASSUME AccessInv, NEW r \in Requests, Arrival(r)
  PROVE  AccessInv'
<1>1. registered \subseteq Users /\ Grantable \subseteq Roles
  BY LimitsHold DEF AccessInv, AccessTypeOK
<1>2. ASSUME NEW kind \in {"assign", "revoke"}, NEW u \in registered, NEW v \in Users, NEW role \in Grantable,
             Arrive(r, Request(kind, u, v, role, None))
      PROVE  AccessInv'
  BY <1>1, <1>2, ArriveInv DEF Kinds
<1>3. ASSUME NEW u \in registered, Arrive(r, Request("use", u, u, None, None))
      PROVE  AccessInv'
  BY <1>1, <1>3, ArriveInv DEF Kinds
<1>4. ASSUME NEW u \in Users, NEW g \in Guests \cup {None}, Arrive(r, Request("login", u, u, None, g))
      PROVE  AccessInv'
  BY <1>4, ArriveInv DEF Kinds
<1>5. ASSUME NEW g \in Guests \cup {None}, Arrive(r, Request("guest", None, None, None, g))
      PROVE  AccessInv'
  BY <1>5, ArriveInv DEF Kinds
<1> QED
  BY <1>2, <1>3, <1>4, <1>5 DEF Arrival

-----------------------------------------------------------------------------
\* A set of naturals that is not empty has a smallest element.
LEMMA Smallest ==
    ASSUME NEW T, T \subseteq Nat, T # {}
    PROVE  \E x \in T : \A y \in T : x <= y
<1> DEFINE Less == OpToRel(<, Nat)
<1>1. IsWellFoundedOn(Less, Nat)
  BY NatLessThanWellFounded
<1>2. \A x, y \in Nat : x < y => <<x, y>> \in Less
  BY DEF OpToRel
<1> HIDE DEF Less
<1>3. PICK x \in T : \A y \in T : ~ (<<y, x>> \in Less)
  BY <1>1, WFMin
<1>4. ASSUME NEW y \in T
      PROVE  x <= y
  <2>1. ~ (y < x)
    BY <1>2, <1>3
  <2> QED
    BY <2>1
<1> QED
  BY <1>4

\* What the loop of check pops: everything up to the first timestamp in the window.
LEMMA Popped ==
  ASSUME AccessInv, NEW b \in Buckets
  PROVE  /\ expired(b) \in 0 .. Len(events[b])
         /\ \A i \in 1 .. expired(b) : events[b][i] <= now - 2 * Window
         /\ expired(b) < Len(events[b]) => events[b][expired(b) + 1] > now - 2 * Window
<1> DEFINE e == events[b]
<1> DEFINE cut == now - 2 * Window
<1> DEFINE T == {n \in 0 .. Len(e) : n < Len(e) => e[n + 1] > cut}
<1>1. e \in Seq(Nat) /\ Len(e) \in Nat /\ cut \in Int
  BY LimitsHold DEF AccessInv, AccessTypeOK, PromisesKept
<1>2. Len(e) \in T /\ T \subseteq Nat
  BY <1>1
<1>3. PICK n \in T : \A m \in T : n <= m
  BY <1>2, Smallest
<1>4. ASSUME NEW i \in 1 .. n
      PROVE  e[i] <= cut
  <2>1. /\ n \in 0 .. Len(e) /\ i \in 1 .. Len(e)
        /\ i - 1 \in 0 .. Len(e) /\ i - 1 < Len(e) /\ ~(n <= i - 1)
    BY <1>1, <1>3
  <2>2. ~(e[(i - 1) + 1] > cut) /\ (i - 1) + 1 = i
    BY <1>3, <2>1
  <2>3. e[i] \in Nat
    BY <1>1, <2>1, ElementOfSeq
  <2> QED
    BY <1>1, <2>2, <2>3
<1>5. \E m \in 0 .. Len(e) : (\A i \in 1 .. m : e[i] <= cut) /\ (m < Len(e) => e[m + 1] > cut)
  BY <1>3, <1>4
<1> QED
  BY <1>5 DEF expired

LEMMA LiveProperties ==
  ASSUME AccessInv, NEW b \in Buckets
  PROVE  /\ live(b) \in Seq(Nat) /\ Len(live(b)) = Len(events[b]) - expired(b)
         /\ \A i \in 1 .. Len(live(b)) : live(b)[i] = events[b][expired(b) + i]
         /\ \A i \in 1 .. Len(live(b)) : live(b)[i] \in 0 .. now
<1>1. events[b] \in Seq(Nat) /\ Len(events[b]) \in Nat /\ expired(b) \in 0 .. Len(events[b])
  BY Popped DEF AccessInv, PromisesKept
<1>2. /\ live(b) \in Seq(Nat) /\ Len(live(b)) = Len(events[b]) - expired(b)
      /\ \A i \in 1 .. Len(live(b)) : live(b)[i] = events[b][expired(b) + i]
  <2> DEFINE e == events[b]
             m == expired(b) + 1
  <2>1. e \in Seq(Nat) /\ m \in 1 .. Len(e) + 1 /\ m \in Nat /\ Len(e) \in Nat
    BY <1>1
  <2>2. live(b) = SubSeq(e, m, Len(e))
    BY DEF live
  <2> HIDE DEF e, m
  <2>3. /\ SubSeq(e, m, Len(e)) \in Seq(Nat)
        /\ Len(SubSeq(e, m, Len(e))) = Len(e) - m + 1
        /\ \A i \in 1 .. Len(e) - m + 1 : SubSeq(e, m, Len(e))[i] = e[m + i - 1]
    BY <2>1, SubSeqProperties
  <2>4. \A i \in Int : m + i - 1 = expired(b) + i
    BY <1>1 DEF m
  <2>5. Len(e) - m + 1 = Len(e) - expired(b)
    BY <1>1, <2>1 DEF m
  <2>6. live(b) \in Seq(Nat) /\ Len(live(b)) = Len(e) - expired(b)
    BY <2>2, <2>3, <2>5
  <2>7. ASSUME NEW i \in 1 .. Len(live(b))
        PROVE  live(b)[i] = e[expired(b) + i]
    <3>1. i \in 1 .. Len(e) - m + 1 /\ i \in Int
      BY <2>5, <2>6
    <3>2. live(b)[i] = e[m + i - 1]
      BY <2>2, <2>3, <3>1
    <3> QED
      BY <2>4, <3>1, <3>2
  <2> QED
    BY <2>6, <2>7 DEF e
<1>3. DOMAIN events[b] = 1 .. Len(events[b])
  BY <1>1
<1>4. \A i \in 1 .. Len(live(b)) : expired(b) + i \in DOMAIN events[b]
  BY <1>1, <1>2, <1>3
<1> QED
  BY <1>2, <1>4 DEF AccessInv, AccessTypeOK

\* The promise is long enough: rounding up to whole seconds never falls short.
LEMMA PromiseCovers ==
  ASSUME AccessInv, NEW oldest \in Int, now \in Int
  PROVE  /\ now + 2 * retry_after(oldest) \in Int
         /\ oldest + 2 * Window <= now + 2 * retry_after(oldest)
<1>1. Window \in Nat
  BY LimitsHold
<1>2. \A n \in Int : (n + 1) \div 2 \in Int /\ n <= 2 * ((n + 1) \div 2)
  OBVIOUS
<1>3. 2 * Window - (now - oldest) \in Int
  BY <1>1
<1> DEFINE n == 2 * Window - (now - oldest)
<1>4. (n + 1) \div 2 \in Int /\ n <= 2 * ((n + 1) \div 2)
  BY <1>2, <1>3
<1>5. retry_after(oldest) \in Int /\ retry_after(oldest) >= (n + 1) \div 2
  BY <1>4 DEF retry_after, Max
<1> QED
  BY <1>1, <1>4, <1>5

LEMMA CheckInv ==
  ASSUME AccessInv, NEW r \in Requests, check(r)
  PROVE  AccessInv'
<1> DEFINE b == resolve_rate_limit_identity(req[r])
<1> DEFINE limit == req[r].limit
<1>1. req[r].pc = "limit" /\ req[r] \in Open /\ RequestFits(req[r])
  BY OpenRequest DEF check, Ends
<1>2. limit \in Nat \ {0} /\ b \in Buckets
  BY <1>1 DEF Open, RequestFits, resolve_rate_limit_identity, Buckets
<1>3. now \in Nat /\ Window \in Nat
  BY LimitsHold DEF AccessInv, AccessTypeOK
<1>4. UNCHANGED <<database, mutex, tx, audit, role_cache, usage, now>>
  BY DEF check
<1>5. /\ live(b) \in Seq(Nat) /\ Len(live(b)) \in Nat
      /\ \A i \in 1 .. Len(live(b)) : live(b)[i] \in 0 .. now
  BY <1>2, LiveProperties
<1>6. CASE Len(live(b)) >= limit
  <2>1. /\ Answered(r, "refused") /\ events' = [events EXCEPT ![b] = live(b)]
        /\ promise' = [promise EXCEPT ![b] =
             IF Len(live(b)) > limit THEN None
             ELSE [due |-> now + 2 * retry_after(live(b)[1]), limit |-> limit]]
    BY <1>6 DEF check
  <2>2. RequestsFit' /\ OwnersGuarded'
    BY <1>1, <1>4, <2>1, DeniedInv
  <2>3. live(b)[1] \in Int
    BY <1>2, <1>5, <1>6
  <2>4. /\ now + 2 * retry_after(live(b)[1]) \in Int
        /\ live(b)[1] + 2 * Window <= now + 2 * retry_after(live(b)[1])
    BY <1>3, <2>3, PromiseCovers
  <2>5. events'[b] = live(b) /\ events' \in [Buckets -> Seq(Nat)]
    BY <1>2, <1>5, <2>1 DEF AccessInv, PromisesKept
  <2>6. ASSUME NEW c \in Buckets \ {b} PROVE events'[c] = events[c] /\ promise'[c] = promise[c]
    BY <2>1 DEF AccessInv, PromisesKept
  <2>7. promise'[b] # None =>
          /\ promise'[b] \in [due : Int, limit : Nat \ {0}]
          /\ Len(events'[b]) = promise'[b].limit
          /\ events'[b][1] + 2 * Window <= promise'[b].due
    <3> SUFFICES ASSUME promise'[b] # None
                 PROVE  /\ promise'[b] \in [due : Int, limit : Nat \ {0}]
                        /\ Len(events'[b]) = promise'[b].limit
                        /\ events'[b][1] + 2 * Window <= promise'[b].due
      OBVIOUS
    <3>1. promise'[b] = [due |-> now + 2 * retry_after(live(b)[1]), limit |-> limit] /\ Len(live(b)) = limit
      BY <1>2, <1>5, <1>6, <2>1 DEF AccessInv, PromisesKept
    <3> QED
      BY <1>2, <2>4, <2>5, <3>1
  <2>8. PromisesKept'
    <3>1. \A c \in Buckets : promise'[c] # None =>
            /\ promise'[c] \in [due : Int, limit : Nat \ {0}]
            /\ Len(events'[c]) = promise'[c].limit
            /\ events'[c][1] + 2 * Window <= promise'[c].due
      BY <2>6, <2>7 DEF AccessInv, PromisesKept
    <3>2. promise' = [c \in Buckets |-> promise'[c]]
      BY <2>1 DEF AccessInv, PromisesKept
    <3> QED
      BY <1>4, <2>5, <3>1, <3>2 DEF AccessInv, PromisesKept, Buckets
  <2>9. \A c \in Buckets : \A i \in DOMAIN events'[c] : events'[c][i] \in 0 .. now
    <3>1. DOMAIN live(b) = 1 .. Len(live(b))
      BY <1>5
    <3> QED
      BY <1>5, <2>5, <2>6, <3>1 DEF AccessInv, AccessTypeOK
  <2>10. AccessTypeOK'
    BY <1>4, <2>9 DEF AccessInv, AccessTypeOK, database, Buckets
  <2> QED
    BY <2>2, <2>8, <2>10 DEF AccessInv
<1>7. CASE ~(Len(live(b)) >= limit)
  <2>1. /\ Step(r, FirstStep[req[r].kind]) /\ events' = [events EXCEPT ![b] = Append(live(b), now)]
        /\ promise' = [promise EXCEPT ![b] = None]
    BY <1>7 DEF check
  <2> DEFINE q == [req[r] EXCEPT !.pc = FirstStep[req[r].kind]]
  <2>2. FirstStep[req[r].kind] \in {"authorize", "use", "lookup", "guest"}
    BY <1>1 DEF FirstStep, Open, Kinds
  <2>3. q \in Open /\ ~Revoking(q) /\ q.roles = {}
    BY <1>1, <2>2 DEF Open, Managing, Revoking, RequestFits
  <2>4. RequestFits(q)
    BY <1>1 DEF Open, Managing, RequestFits, FirstStep, Kinds
  <2>5. RequestsFit' /\ OwnersGuarded'
    <3>1. req' = [req EXCEPT ![r] = q] /\ tx' = [tx EXCEPT ![r] = tx[r]] /\ mutex' = mutex /\ Owners' = Owners
      BY <1>4, <2>1 DEF Step, AccessInv, RequestsFit, Owners, database
    <3>2. \A w \in tx[r] : WriteFits(q, w)
      BY <1>1 DEF AccessInv, RequestsFit, WriteFits
    <3> HIDE DEF q
    <3> QED
      BY <2>3, <2>4, <3>1, <3>2, RequestStep
  <2>6. events'[b] = Append(live(b), now) /\ events' \in [Buckets -> Seq(Nat)] /\ promise'[b] = None
    BY <1>2, <1>3, <1>5, <2>1 DEF AccessInv, PromisesKept
  <2>7. ASSUME NEW c \in Buckets \ {b} PROVE events'[c] = events[c] /\ promise'[c] = promise[c]
    BY <2>1 DEF AccessInv, PromisesKept
  <2>8. PromisesKept'
    <3>1. \A c \in Buckets : promise'[c] # None =>
            /\ promise'[c] \in [due : Int, limit : Nat \ {0}]
            /\ Len(events'[c]) = promise'[c].limit
            /\ events'[c][1] + 2 * Window <= promise'[c].due
      BY <2>6, <2>7 DEF AccessInv, PromisesKept
    <3>2. promise' = [c \in Buckets |-> promise'[c]]
      BY <2>1 DEF AccessInv, PromisesKept
    <3> QED
      BY <1>4, <2>6, <3>1, <3>2 DEF AccessInv, PromisesKept, Buckets
  <2>9. \A c \in Buckets : \A i \in DOMAIN events'[c] : events'[c][i] \in 0 .. now
    <3>1. \A i \in DOMAIN events'[b] : events'[b][i] \in 0 .. now
      BY <1>3, <1>5, <2>6
    <3> QED
      BY <2>7, <3>1 DEF AccessInv, AccessTypeOK
  <2>10. AccessTypeOK'
    BY <1>4, <2>9 DEF AccessInv, AccessTypeOK, database, Buckets
  <2> QED
    BY <2>5, <2>8, <2>10 DEF AccessInv
<1> QED
  BY <1>6, <1>7

LEMMA ClockInv ==
  ASSUME AccessInv, Tick \/ NextDay \/ bootstrap_admins \/ UNCHANGED accessVars
  PROVE  AccessInv' /\ Owners \subseteq Owners'
<1>1. UNCHANGED <<mutex, req, tx, audit, limiter>>
  BY DEF Tick, NextDay, bootstrap_admins, accessVars, limiter
<1>2. Owners \subseteq Owners'
  BY DEF Tick, NextDay, bootstrap_admins, accessVars, database, Owners
<1>3. RequestsFit'
  BY <1>1 DEF AccessInv, RequestsFit
<1>4. OwnersGuarded'
  BY <1>1, <1>2 DEF AccessInv, OwnersGuarded
<1>5. registered' \subseteq Users /\ assigned' \subseteq Users \X Roles /\ linked' = linked
  BY LimitsHold DEF Tick, NextDay, bootstrap_admins, accessVars, database, AccessInv, AccessTypeOK, Roles
<1>6. now' \in 0 .. MaxTime /\ now <= now' /\ usage' \in [Users -> 0..DailyLimit] /\ now \in 0 .. MaxTime
  BY LimitsHold DEF Tick, NextDay, bootstrap_admins, accessVars, AccessInv, AccessTypeOK
<1>7. \A x \in 0 .. now : x \in 0 .. now'
  BY <1>6, LimitsHold
<1>8. AccessTypeOK'
  BY <1>1, <1>5, <1>6, <1>7 DEF AccessInv, AccessTypeOK, limiter, Buckets
<1> QED
  BY <1>1, <1>2, <1>3, <1>4, <1>8, LimiterKept DEF AccessInv

\* Only a commit takes an owner's role away.
LEMMA OwnersStay ==
  ASSUME NEW r \in Requests,
         Arrival(r) \/ check(r) \/ Identity(r) \/ Management(r)
           \/ check_daily_usage_quota(r) \/ record(r) \/ Fail(r)
  PROVE  Owners' = Owners
<1>1. CASE Arrival(r)
  <2>1. \A q : Arrive(r, q) => UNCHANGED database
    BY DEF Arrive
  <2>2. UNCHANGED database
    BY <1>1, <2>1 DEF Arrival
  <2> QED
    BY <2>2 DEF database, Owners
<1>2. CASE Identity(r)
  BY <1>2 DEF Identity, lookup, login_with_google, _maybe_link_guest, resolve_guest_caller, Refuse, database, Owners
<1>3. CASE Management(r)
  BY <1>3 DEF Management, authorize, actor_roles, target_roles, owners, assign_role, revoke_role, Refuse,
              database, Owners
<1>4. CASE check(r) \/ check_daily_usage_quota(r) \/ record(r) \/ Fail(r)
  BY <1>4 DEF check, check_daily_usage_quota, record, Fail, Refuse, database, Owners
<1> QED
  BY <1>1, <1>2, <1>3, <1>4

LEMMA NextInv ==
  ASSUME AccessInv, [AccessNext]_accessVars
  PROVE  AccessInv' /\ (Owners # {} => Owners' # {})
<1>1. CASE \E r \in Requests : commit_session(r)
  BY <1>1, CommitInv
<1>2. CASE Tick \/ NextDay \/ bootstrap_admins \/ UNCHANGED accessVars
  BY <1>2, ClockInv
<1>3. ASSUME NEW r \in Requests,
             Arrival(r) \/ check(r) \/ Identity(r) \/ Management(r)
               \/ check_daily_usage_quota(r) \/ record(r) \/ Fail(r)
      PROVE  AccessInv' /\ (Owners # {} => Owners' # {})
  BY <1>3, OwnersStay, ArrivalInv, CheckInv, IdentityInv, ManagementInv, QuotaInv, RecordInv, FailInv
<1> QED
  BY <1>1, <1>2, <1>3 DEF AccessNext

LEMMA PromisesSuffice == AccessInv => RetryAfterSuffices
<1> SUFFICES ASSUME AccessInv, NEW b \in Buckets, promise[b] # None, now >= promise[b].due
             PROVE  Len(live(b)) < promise[b].limit
  BY DEF AccessInv, RetryAfterSuffices
<1>1. /\ promise[b] \in [due : Int, limit : Nat \ {0}] /\ Len(events[b]) = promise[b].limit
      /\ events[b][1] + 2 * Window <= promise[b].due /\ events[b] \in Seq(Nat)
  BY DEF AccessInv, PromisesKept
<1>2. now \in Nat /\ Window \in Nat
  BY LimitsHold DEF AccessInv, AccessTypeOK
<1>3. events[b][1] \in Nat /\ Len(events[b]) > 0
  BY <1>1, ElementOfSeq
<1>4. ~(events[b][1] > now - 2 * Window)
  BY <1>1, <1>2, <1>3
<1>5. expired(b) # 0 /\ expired(b) \in 0 .. Len(events[b])
  BY <1>3, <1>4, Popped
<1> QED
  BY <1>1, <1>5, LiveProperties

LEMMA AccessInvariantHolds == AccessSpec => []AccessInv
<1>1. AccessInv /\ [AccessNext]_accessVars => AccessInv'
  BY NextInv
<1>2. AccessInit => AccessInv
  BY InitInv, LimitsAssumption
<1> QED
  BY <1>1, <1>2, PTL DEF AccessSpec

\* A caller that waits as long as Retry-After says and finds its bucket left alone
\* is not refused again, for any limits and any window: SlidingWindowRateLimiter.check
\* rounds up to the second in which the oldest timestamp leaves.
THEOREM WaitingSuffices == AccessSpec => []RetryAfterSuffices
BY AccessInvariantHolds, PromisesSuffice, PTL

\* No interleaving of assignments, revocations, logins and crashes removes the last
\* owner: revoke_role counts the owners under the advisory lock it keeps to its commit.
THEOREM AnOwnerRemains == AccessSpec => OwnerRemains
<1>1. AccessInv /\ [AccessNext]_accessVars => [Owners # {} => Owners' # {}]_accessVars
  BY NextInv
<1> QED
  BY AccessInvariantHolds, <1>1, PTL DEF AccessSpec, OwnerRemains
=============================================================================
