--------------------------- MODULE ChatTurnProofs ---------------------------
(***************************************************************************)
(* Proofs about ChatTurn for any callers, keys and quota, any number of     *)
(* requests at once, turns, sessions and days.                             *)
(***************************************************************************)
EXTENDS ChatTurn, FiniteSetTheorems, WellFoundedInduction, TLAPS

(* The inductive invariant *)

\* The messages of R are numbered a, a + 1, ..., b - 1.
Numbered(R, a, b) ==
    /\ IsFiniteSet(R) /\ Cardinality(R) = b - a
    /\ {m.seq : m \in R} = a .. b - 1
    /\ \A m, n \in R : m.seq = n.seq => m = n

\* No two messages of R have the same client key.
KeysUnique(R) == \A m, n \in R : m.key = n.key /\ m.key # None => m = n

\* The message after m is of the same turn.
Followed(R, m) == \E r \in R : r.seq = m.seq + 1 /\ r.turn = m.turn

\* A keyed message is a user's, and followed by one of its turn or all there is of its turn.
Answered(R) ==
    \A m \in R : m.key # None =>
        /\ m.role = "user"
        /\ Followed(R, m) \/ \A n \in R : n.turn = m.turn => n = m

\* One of the summaries is the latest.
HasLatest(A) == A = {} \/ \E a \in A : \A b \in A : b.version <= a.version

Transaction ==
    [rows : SUBSET Message, next : Nat, summary : SUBSET Summary, quota : Int, new : BOOLEAN]
Request ==
    [pc : {"idle", "quota", "resolve", "lookup", "append", "reply", "pausing", "summarize"},
     turn : Nat, caller : Callers \cup {None}, route : Routes \cup {None},
     key : Keys \cup {None}, want : Nat, s : Nat, latest : Summary \cup {None}, tx : Transaction]

Types ==
    /\ TypeOK
    /\ sess \in [Sessions -> [owner : Callers \cup {None}, live : BOOLEAN, next : Nat \ {0}]]
    /\ \A s \in Sessions : sess[s].live => sess[s].owner \in Callers
    /\ slot \in [Slots -> Request]

\* A session that does not exist, not yet or no longer, has no rows; the rows of one that does are
\* numbered without a gap, and every summary stands for all messages it covers.
Stored(s) ==
    /\ created < s => ~sess[s].live /\ sess[s].next = 1
    /\ ~sess[s].live => rows[s] = {} /\ summaries[s] = {}
    /\ sess[s].live => Numbered(rows[s], 1, sess[s].next)
    /\ HasLatest(summaries[s])
    /\ \A a \in summaries[s] : a.of = 1 .. a.covers /\ a.covers < sess[s].next
    /\ KeysUnique(rows[s]) /\ Answered(rows[s])

\* What a request has come to, by where it is.
Stage(p) ==
    /\ slot[p].pc = "idle" => slot[p] = Idle
    /\ slot[p].pc # "idle" => slot[p].turn \in 1 .. turns /\ slot[p].caller \in Callers
    /\ slot[p].pc \in {"quota", "resolve"} => slot[p].s = 0 /\ slot[p].tx = EmptyTx
    /\ slot[p].pc \in {"lookup", "append", "reply", "pausing", "summarize"} =>
         slot[p].s \in 1 .. created
    /\ slot[p].pc \in {"lookup", "append"} => slot[p].tx.next = 0
    /\ slot[p].pc \in {"reply", "pausing"} =>
         \/ slot[p].tx.next = sess[slot[p].s].next + 1
         \/ slot[p].tx.next = 0 /\ slot[p].route = "streamFixed" /\ ~slot[p].tx.new
    /\ slot[p].pc = "summarize" =>
         /\ slot[p].tx.next # 0
         /\ slot[p].latest \in Summary /\ slot[p].latest.of = 1 .. slot[p].latest.covers
         /\ slot[p].latest.covers = slot[p].tx.next - 1
    /\ slot[p].pc # "summarize" => slot[p].tx.quota = -1
    /\ slot[p].tx.quota \in {-1} \cup 0 .. day
    /\ slot[p].tx.quota # -1 => slot[p].caller \in Guests
    /\ slot[p].tx.summary = {}

\* A transaction that has written holds the lock of its session, its rows continue the stored ones,
\* and the session is its own or exists.
Written(p) ==
    LET s == slot[p].s
        tx == slot[p].tx
    IN  /\ tx.next = 0 => tx.rows = {}
        /\ tx.new => s \in Sessions /\ ~sess[s].live /\ sess[s].next = 1
        /\ tx.next # 0 =>
             /\ s \in Sessions /\ lock[s] = p
             /\ tx.new \/ sess[s].live
             /\ Numbered(tx.rows, sess[s].next, tx.next)
             /\ \A m \in tx.rows : m.turn = slot[p].turn
             /\ KeysUnique(rows[s] \cup tx.rows) /\ Answered(rows[s] \cup tx.rows)

\* A request whose message is not appended has no row, and a stored keyed message of a turn under
\* way is followed by one of that turn.
Unanswered(p) ==
    \A s \in Sessions : \A m \in rows[s] : m.turn = slot[p].turn =>
        /\ slot[p].pc \notin {"quota", "resolve", "lookup", "append"}
        /\ m.key # None => Followed(rows[s], m)

\* Requests have turns and new sessions of their own, and who holds a lock has written.
Apart ==
    /\ \A p, q \in Slots : p # q =>
          /\ slot[p].turn = slot[q].turn => slot[p].turn = 0
          /\ slot[p].tx.new => slot[q].s # slot[p].s
    /\ \A s \in Sessions : lock[s] # None => slot[lock[s]].s = s /\ slot[lock[s]].tx.next # 0
    /\ \A s \in Sessions : \A m \in rows[s] : m.turn <= turns

\* The requests of g that may still count for day d.
Counting(g, d) ==
    {p \in Slots : /\ slot[p].caller = g /\ slot[p].pc \notin {"idle", "quota"}
                   /\ slot[p].tx.quota = d \/ (slot[p].tx.quota = -1 /\ day <= d)}

\* What is counted and what may still be counted is within the bound; no later day is counted.
Quotas ==
    \A g \in Guests, d \in Days :
        /\ quota[g][d] + Cardinality(Counting(g, d)) <= Quota + Cardinality(Slots) - 1
        /\ day < d => quota[g][d] = 0

\* The requests that may still create a session.
Creating == {p \in Slots : slot[p].pc \in {"quota", "resolve"} /\ slot[p].want = 0}

Room == created + Cardinality(Creating) <= MaxSessions

IInv ==
    /\ Types /\ Apart /\ Quotas /\ Room
    /\ \A s \in Sessions : Stored(s)
    /\ \A p \in Slots : Stage(p) /\ Written(p) /\ Unanswered(p)

(* Numbered messages *)

\* No messages are numbered from any number on.
LEMMA NumberedEmpty == \A a \in Nat : Numbered({}, a, a)
BY FS_EmptySet DEF Numbered

\* A message with the next number continues a numbering.
LEMMA NumberedAdd ==
    ASSUME NEW R, NEW a \in Nat, NEW b \in Nat, a <= b, Numbered(R, a, b), NEW x, x.seq = b
    PROVE  Numbered(R \cup {x}, a, b + 1)
<1>1. \A m \in R : m.seq \in a .. b - 1
  BY DEF Numbered
<1>2. x \notin R
  BY <1>1
<1>3. IsFiniteSet(R \cup {x}) /\ Cardinality(R \cup {x}) = b + 1 - a
  BY <1>2, FS_AddElement DEF Numbered
<1>4. {m.seq : m \in R \cup {x}} = {m.seq : m \in R} \cup {b}
  OBVIOUS
<1>5. {m.seq : m \in R \cup {x}} = a .. b
  BY <1>4 DEF Numbered
<1>6. \A m, n \in R \cup {x} : m.seq = n.seq => m = n
  BY <1>1 DEF Numbered
<1> QED
  BY <1>3, <1>5, <1>6 DEF Numbered

\* Two numberings, the second of which begins where the first ends, are one.
LEMMA NumberedJoin ==
    ASSUME NEW R, NEW Q, NEW a \in Nat, NEW b \in Nat, NEW c \in Nat, a <= b, b <= c,
           Numbered(R, a, b), Numbered(Q, b, c)
    PROVE  Numbered(R \cup Q, a, c)
<1>1. /\ \A m \in R : m.seq \in a .. b - 1
      /\ \A m \in Q : m.seq \in b .. c - 1
  BY DEF Numbered
<1>2. R \cap Q = {}
  BY <1>1
<1>3. IsFiniteSet(R \cup Q) /\ Cardinality(R \cup Q) = c - a
  <2>1. /\ IsFiniteSet(R) /\ IsFiniteSet(Q) /\ Cardinality(R) = b - a /\ Cardinality(Q) = c - b
        /\ Cardinality(R \cap Q) = 0
    BY <1>2, FS_EmptySet DEF Numbered
  <2>2. /\ IsFiniteSet(R \cup Q)
        /\ Cardinality(R \cup Q) = Cardinality(R) + Cardinality(Q) - Cardinality(R \cap Q)
    BY <2>1, FS_Union
  <2> QED
    BY <2>1, <2>2
<1>4. {m.seq : m \in R \cup Q} = {m.seq : m \in R} \cup {m.seq : m \in Q}
  OBVIOUS
<1>5. {m.seq : m \in R \cup Q} = a .. c - 1
  BY <1>4 DEF Numbered
<1>6. \A m, n \in R \cup Q : m.seq = n.seq => m = n
  BY <1>1 DEF Numbered
<1> QED
  BY <1>3, <1>5, <1>6 DEF Numbered

(* Summaries and the context of the model *)

\* A request that has found its session is about one of those created.
LEMMA SessionOf ==
    ASSUME Types, NEW p \in Slots, Stage(p),
           slot[p].pc \in {"lookup", "append", "reply", "pausing", "summarize"}
    PROVE  slot[p].s \in Sessions /\ slot[p].s <= created
<1>1. created \in Nat /\ created <= MaxSessions /\ MaxSessions \in Nat
  BY ChatAssumption DEF Types, TypeOK
<1>2. slot[p].s \in 1 .. created
  BY DEF Stage
<1> QED
  BY <1>1, <1>2 DEF Sessions

\* The latest summary stands for exactly the messages it covers, all of which are stored.
LEMMA LatestIsWhole ==
    ASSUME Types, NEW s \in Sessions, Stored(s)
    PROVE  /\ get_latest_summary(s) \in Summary
           /\ get_latest_summary(s).of = 1 .. get_latest_summary(s).covers
           /\ get_latest_summary(s).covers < sess[s].next
<1>1. sess[s].next \in Nat \ {0} /\ summaries[s] \subseteq Summary
  BY DEF Types, TypeOK
<1>2. CASE summaries[s] = {}
  <2>1. get_latest_summary(s) = [version |-> 0, covers |-> 0, of |-> {}]
    BY <1>2 DEF get_latest_summary
  <2> QED
    BY <1>1, <2>1 DEF Summary
<1>3. CASE summaries[s] # {}
  <2>1. get_latest_summary(s) \in summaries[s]
    BY <1>3 DEF get_latest_summary, Stored, HasLatest
  <2> QED
    BY <1>1, <2>1 DEF Stored
<1> QED
  BY <1>2, <1>3

\* What is stored in a session, whether or not it exists.
LEMMA StoredSeqs ==
    ASSUME Types, NEW s \in Sessions, Stored(s)
    PROVE  {m.seq : m \in rows[s]} = IF sess[s].live THEN 1 .. sess[s].next - 1 ELSE {}
BY DEF Stored, Numbered, Types

\* The invariant says what the context of the model must be.
LEMMA ContextInv == IInv => ContextIsWhole
<1> SUFFICES ASSUME IInv PROVE ContextIsWhole
  OBVIOUS
<1>1. ASSUME NEW s \in Sessions
      PROVE  resolve_persisted_context(s) = list_messages(s)
  <2> DEFINE l == get_latest_summary(s)
  <2>1. l \in Summary /\ l.of = 1 .. l.covers /\ l.covers < sess[s].next
    BY LatestIsWhole DEF IInv
  <2>2. {m.seq : m \in rows[s]} = IF sess[s].live THEN 1 .. sess[s].next - 1 ELSE {}
    BY StoredSeqs DEF IInv
  <2>3. sess[s].next \in Nat \ {0} /\ l.covers \in Nat
    BY <2>1 DEF IInv, Types, Summary
  <2>4. ~sess[s].live => l.covers = 0
    BY DEF IInv, Stored, get_latest_summary
  <2>5. resolve_persisted_context(s) = l.of \cup {m.seq : m \in {n \in rows[s] : n.seq > l.covers}}
    BY DEF resolve_persisted_context, assemble_context_messages, list_messages_after_seq, EmptyTx
  <2> HIDE DEF l
  <2>6. {m.seq : m \in {n \in rows[s] : n.seq > l.covers}} = {i \in {m.seq : m \in rows[s]} : i > l.covers}
    OBVIOUS
  <2>7. CASE sess[s].live
    <3>1. {i \in 1 .. sess[s].next - 1 : i > l.covers} \cup 1 .. l.covers = 1 .. sess[s].next - 1
      BY <2>1, <2>3
    <3> QED
      BY <2>1, <2>2, <2>5, <2>6, <2>7, <3>1 DEF list_messages
  <2>8. CASE ~sess[s].live
    <3>1. 1 .. l.covers = {}
      BY <2>4, <2>8
    <3> QED
      BY <2>1, <2>2, <2>5, <2>6, <2>8, <3>1 DEF list_messages
  <2> QED
    BY <2>7, <2>8
<1>2. ASSUME NEW p \in Slots, slot[p].pc \in {"reply", "pausing"}
      PROVE  resolve_llm_messages(p)
               = list_messages(slot[p].s) \cup {m.seq : m \in slot[p].tx.rows}
  <2> DEFINE s == slot[p].s
             R == slot[p].tx.rows
             l == get_latest_summary(s)
  <2>1. s \in Sessions
    BY <1>2, SessionOf DEF IInv
  <2>2. l \in Summary /\ l.of = 1 .. l.covers /\ l.covers < sess[s].next
    BY <2>1, LatestIsWhole DEF IInv
  <2>3. sess[s].next \in Nat \ {0} /\ l.covers \in Nat
    BY <2>1, <2>2 DEF IInv, Types, Summary
  <2>4. \A m \in R : m.seq > l.covers
    <3>1. CASE slot[p].tx.next = 0
      BY <3>1 DEF IInv, Written
    <3>2. CASE slot[p].tx.next # 0
      <4>1. {m.seq : m \in R} = sess[s].next .. slot[p].tx.next - 1
        BY <3>2 DEF IInv, Written, Numbered
      <4>2. \A m \in R : m.seq \in sess[s].next .. slot[p].tx.next - 1
        BY <4>1
      <4>3. slot[p].tx.next \in Nat
        BY DEF IInv, Types, Request, Transaction
      <4> QED
        BY <2>2, <2>3, <4>2, <4>3
    <3> QED
      BY <3>1, <3>2
  <2>5. resolve_persisted_context(s) = l.of \cup {m.seq : m \in {n \in rows[s] : n.seq > l.covers}}
    BY DEF resolve_persisted_context, assemble_context_messages, list_messages_after_seq, EmptyTx
  <2>6. resolve_llm_messages(p) = l.of \cup {m.seq : m \in {n \in rows[s] \cup R : n.seq > l.covers}}
    BY DEF resolve_llm_messages, assemble_context_messages, list_messages_after_seq
  <2>7. resolve_persisted_context(s) = list_messages(s)
    BY <1>1, <2>1
  <2> HIDE DEF l, R, s
  <2>8. {m.seq : m \in {n \in rows[s] \cup R : n.seq > l.covers}}
           = {m.seq : m \in {n \in rows[s] : n.seq > l.covers}} \cup {m.seq : m \in R}
    BY <2>4
  <2>9. resolve_llm_messages(p) = list_messages(s) \cup {m.seq : m \in R}
    BY <2>5, <2>6, <2>7, <2>8
  <2> QED
    BY <2>9 DEF s, R
<1> QED
  BY <1>1, <1>2 DEF ContextIsWhole

(* What a step leaves alone *)

\* The sets that are counted are sets of slots.
LEMMA SlotSets ==
    /\ Cardinality(Slots) \in Nat \ {0}
    /\ \A T \in SUBSET Slots : IsFiniteSet(T) /\ Cardinality(T) \in Nat
                               /\ Cardinality(T) <= Cardinality(Slots)
<1>1. IsFiniteSet(Slots) /\ Slots # {}
  BY ChatAssumption
<1>2. Cardinality(Slots) \in Nat \ {0}
  BY <1>1, FS_CardinalityType, FS_EmptySet
<1>3. ASSUME NEW T \in SUBSET Slots
      PROVE  IsFiniteSet(T) /\ Cardinality(T) \in Nat /\ Cardinality(T) <= Cardinality(Slots)
  BY <1>1, FS_Subset, FS_CardinalityType
<1> QED
  BY <1>2, <1>3

\* The sessions of a request that nobody else may change: the one it has locked and the one it has
\* created.
Own(q, s) == lock[s] = q \/ (slot[q].tx.new /\ slot[q].s = s)

\* A request keeps its properties in a step of others, which leaves its own session alone and stores
\* messages of other turns.
LEMMA RequestKept ==
    ASSUME IInv, NEW q \in Slots, slot'[q] = slot[q],
           turns' \in Nat, turns <= turns', created' \in Nat, created <= created',
           day' \in Nat, day <= day',
           \A s \in Sessions :
               Own(q, s) => sess'[s] = sess[s] /\ rows'[s] = rows[s] /\ lock'[s] = lock[s],
           \A s \in Sessions :
               \/ rows'[s] = {}
               \/ rows[s] \subseteq rows'[s]
                  /\ \A m \in rows'[s] \ rows[s] : m.turn # slot[q].turn
    PROVE  Stage(q)' /\ Written(q)' /\ Unanswered(q)'
<1> DEFINE s == slot[q].s
<1>1. Stage(q) /\ Written(q) /\ Unanswered(q)
  BY DEF IInv
<1>2. slot[q] \in Request /\ turns \in Nat /\ created \in Nat /\ day \in Nat
  BY DEF IInv, Types, TypeOK, Days
<1>3. slot[q].tx.next # 0 => s \in Sessions /\ sess'[s] = sess[s] /\ rows'[s] = rows[s] /\ lock'[s] = lock[s]
  BY <1>1 DEF Written, Own
<1>4. slot[q].tx.new => s \in Sessions /\ sess'[s] = sess[s]
  BY <1>1 DEF Written, Own
<1>5. Written(q)'
  BY <1>1, <1>3, <1>4 DEF Written
<1>6. Stage(q)'
  <2>1. sess[s].next + 1 = slot[q].tx.next /\ slot[q].tx.next # 0 => sess'[s] = sess[s]
    BY <1>3
  <2>2. slot[q].pc \in {"reply", "pausing"} =>
         \/ slot[q].tx.next = sess'[s].next + 1
         \/ slot[q].tx.next = 0 /\ slot[q].route = "streamFixed" /\ ~slot[q].tx.new
    <3>1. ASSUME slot[q].pc \in {"reply", "pausing"}, slot[q].tx.next = sess[s].next + 1
          PROVE  slot[q].tx.next # 0
      <4>1. s \in Sessions
        BY <1>1, <3>1, SessionOf DEF IInv
      <4>2. sess[s].next \in Nat
        BY <4>1 DEF IInv, Types
      <4> QED
        BY <3>1, <4>2
    <3> QED
      BY <1>1, <2>1, <3>1 DEF Stage
  <2> QED
    BY <1>1, <1>2, <2>2 DEF Stage
<1>7. Unanswered(q)'
  BY <1>1 DEF Unanswered, Followed
<1> QED
  BY <1>5, <1>6, <1>7

\* The counters keep their bound when nothing is counted and no request more may count.
LEMMA QuotasKept ==
    ASSUME IInv, UNCHANGED <<quota, day>>,
           \A g \in Guests, d \in Days : Counting(g, d)' \subseteq Counting(g, d)
    PROVE  Quotas'
<1> SUFFICES ASSUME NEW g \in Guests, NEW d \in Days
             PROVE  /\ quota'[g][d] + Cardinality(Counting(g, d)') <= Quota + Cardinality(Slots) - 1
                    /\ day' < d => quota'[g][d] = 0
  BY DEF Quotas
<1>1. Counting(g, d) \subseteq Slots
  BY DEF Counting
<1>2. Cardinality(Counting(g, d)') <= Cardinality(Counting(g, d))
  BY <1>1, SlotSets, FS_Subset
<1>3. quota[g][d] \in Nat /\ Quota \in Nat
  BY ChatAssumption DEF IInv, Types, TypeOK
<1>4. Counting(g, d)' \in SUBSET Slots
  BY <1>1
<1> QED
  BY <1>1, <1>2, <1>3, <1>4, SlotSets DEF IInv, Quotas

\* There is room for the sessions still to be created when no request more may create one.
LEMMA RoomKept ==
    ASSUME IInv, created' = created, Creating' \subseteq Creating
    PROVE  Room'
<1>1. Creating \subseteq Slots
  BY DEF Creating
<1>2. Cardinality(Creating') <= Cardinality(Creating)
  BY <1>1, SlotSets, FS_Subset
<1>3. created \in Nat /\ MaxSessions \in Nat
  BY ChatAssumption DEF IInv, Types, TypeOK
<1>4. Creating' \in SUBSET Slots
  BY <1>1
<1> QED
  BY <1>1, <1>2, <1>3, <1>4, SlotSets DEF IInv, Room

\* Sessions keep their properties when no row is written.
LEMMA StoredKept ==
    ASSUME IInv, NEW s \in Sessions, sess'[s] = sess[s], rows'[s] = rows[s],
           summaries'[s] = summaries[s], created' \in Nat, created <= created'
    PROVE  Stored(s)'
<1>1. Stored(s) /\ created \in Nat /\ s \in Nat
  BY DEF IInv, Types, TypeOK, Sessions
<1>2. created' < s => created < s
  BY <1>1
<1> QED
  BY <1>1, <1>2 DEF Stored

(* The first state *)

\* The idle request is a request.
LEMMA IdleIsRequest == Idle \in Request /\ EmptyTx \in Transaction
<1>1. EmptyTx \in Transaction
  BY DEF EmptyTx, Transaction
<1> QED
  BY <1>1 DEF Idle, Request

\* The invariant holds before the first request.
LEMMA InitInv == Init => IInv
<1> SUFFICES ASSUME Init PROVE IInv
  OBVIOUS
<1>1. /\ \A s \in Sessions : /\ sess[s] = [owner |-> None, live |-> FALSE, next |-> 1]
                             /\ rows[s] = {} /\ summaries[s] = {} /\ lock[s] = None
      /\ \A p \in Slots : slot[p] = Idle
      /\ turns = 0 /\ created = 0 /\ day = 0
  BY DEF Init
<1>2. Types
  <2>1. TypeOK
    BY ChatAssumption DEF Init, TypeOK, Days
  <2>2. slot \in [Slots -> Request]
    BY IdleIsRequest DEF Init
  <2>3. sess \in [Sessions -> [owner : Callers \cup {None}, live : BOOLEAN, next : Nat \ {0}]]
    BY DEF Init
  <2> QED
    BY <1>1, <2>1, <2>2, <2>3 DEF Types
<1>3. Apart
  BY <1>1 DEF Apart, Idle, EmptyTx
<1>4. Quotas
  <2>1. \A g \in Guests, d \in Days : Counting(g, d) = {} /\ quota[g][d] = 0
    BY <1>1 DEF Counting, Idle, Init
  <2>2. Cardinality({}) = 0 /\ Quota \in Nat /\ Cardinality(Slots) \in Nat \ {0}
    BY FS_EmptySet, SlotSets, ChatAssumption
  <2>3. \A g \in Guests, d \in Days : Cardinality(Counting(g, d)) = 0
    BY <2>1, <2>2
  <2> QED
    BY <2>1, <2>2, <2>3 DEF Quotas
<1>5. Room
  <2>1. Creating = {}
    BY <1>1 DEF Creating, Idle
  <2> QED
    BY <1>1, <2>1, FS_EmptySet, ChatAssumption DEF Room
<1>6. ASSUME NEW s \in Sessions
      PROVE  Stored(s)
  BY <1>1 DEF Stored, HasLatest, KeysUnique, Answered
<1>7. ASSUME NEW p \in Slots
      PROVE  Stage(p) /\ Written(p) /\ Unanswered(p)
  <2>1. Stage(p)
    <3>1. slot[p] = Idle /\ Idle.pc = "idle" /\ Idle.tx = EmptyTx
      BY <1>1 DEF Idle
    <3>2. EmptyTx.quota = -1 /\ EmptyTx.summary = {}
      BY DEF EmptyTx
    <3> QED
      BY <3>1, <3>2 DEF Stage
  <2>2. Written(p)
    BY <1>1 DEF Written, Idle, EmptyTx
  <2>3. Unanswered(p)
    BY <1>1 DEF Unanswered
  <2> QED
    BY <2>1, <2>2, <2>3
<1> QED
  BY <1>2, <1>3, <1>4, <1>5, <1>6, <1>7 DEF IInv

(* Steps of one request *)

\* A step of p changes the slot of p.
LEMMA SlotOf ==
    ASSUME Types, NEW p \in Slots, NEW r \in Request, To(p, r)
    PROVE  /\ slot' \in [Slots -> Request] /\ slot'[p] = r
           /\ \A q \in Slots : q # p => slot'[q] = slot[q]
BY DEF Types, To

\* A request that goes on without a write keeps everything except the count of what may be counted.
LEMMA Moved ==
    ASSUME IInv, NEW p \in Slots, NEW x,
           \/ slot[p].pc = "quota" /\ x = "resolve"
           \/ slot[p].pc = "lookup" /\ x = "append"
           \/ slot[p].pc = "reply" /\ x = "pausing",
           To(p, [slot[p] EXCEPT !.pc = x]),
           UNCHANGED <<sess, rows, summaries, quota, lock, Fixed>>
    PROVE  Quotas' => IInv'
<1> DEFINE j == slot[p]
           k == [j EXCEPT !.pc = x]
<1>1. j \in Request
  BY DEF IInv, Types
<1>2. /\ k \in Request /\ k.pc = x /\ k.turn = j.turn /\ k.caller = j.caller /\ k.route = j.route
      /\ k.key = j.key /\ k.want = j.want /\ k.s = j.s /\ k.latest = j.latest /\ k.tx = j.tx
  BY <1>1 DEF Request
<1>3. UNCHANGED <<sess, rows, summaries, quota, lock, linked, turns, created, day>>
  BY DEF Fixed
<1>4. /\ slot' \in [Slots -> Request] /\ slot'[p] = k
      /\ \A q \in Slots : q # p => slot'[q] = slot[q]
  BY <1>2, SlotOf DEF IInv
<1> HIDE DEF k
<1>5. Types'
  BY <1>3, <1>4 DEF IInv, Types, TypeOK
<1>6. /\ \A q \in Slots : /\ slot'[q].turn = slot[q].turn /\ slot'[q].s = slot[q].s
                          /\ slot'[q].tx = slot[q].tx
  BY <1>2, <1>4
<1>7. Apart'
  <2>1. \A s \in Sessions : lock[s] # None => lock[s] \in Slots
    BY DEF IInv, Types, TypeOK
  <2> QED
    BY <1>3, <1>6, <2>1 DEF IInv, Apart
<1>8. Room'
  <2>1. Creating' \subseteq Creating
    BY <1>2, <1>4 DEF Creating
  <2> QED
    BY <1>3, <2>1, RoomKept
<1>9. ASSUME NEW s \in Sessions
      PROVE  Stored(s)'
  BY <1>3, StoredKept DEF IInv, Types, TypeOK
<1>10. ASSUME NEW q \in Slots
       PROVE  Stage(q)' /\ Written(q)' /\ Unanswered(q)'
  <2>1. CASE q # p
    BY <1>3, <1>4, <2>1, RequestKept DEF IInv, Types, TypeOK, Days
  <2>2. CASE q = p
    <3>1. Stage(p) /\ Written(p) /\ Unanswered(p)
      BY DEF IInv
    <3>2. Stage(p)'
      BY <1>2, <1>3, <1>4, <3>1 DEF Stage
    <3>3. Written(p)'
      BY <1>2, <1>3, <1>4, <3>1 DEF Written
    <3>4. Unanswered(p)'
      BY <1>2, <1>3, <1>4, <3>1 DEF Unanswered
    <3> QED
      BY <2>2, <3>2, <3>3, <3>4
  <2> QED
    BY <2>1, <2>2
<1> QED
  BY <1>5, <1>7, <1>8, <1>9, <1>10 DEF IInv

\* A refused or aborted request leaves nothing behind.
LEMMA RefuseInv ==
    ASSUME IInv, NEW p \in Slots, Refuse(p)
    PROVE  IInv'
<1>1. UNCHANGED <<sess, rows, summaries, quota, linked, turns, created, day>>
  BY DEF Refuse, Rollback, Fixed
<1>2. /\ slot' \in [Slots -> Request] /\ slot'[p] = Idle
      /\ \A q \in Slots : q # p => slot'[q] = slot[q]
  BY IdleIsRequest, SlotOf DEF IInv, Refuse
<1>3. /\ lock' \in [Sessions -> Slots \cup {None}]
      /\ \A s \in Sessions : lock'[s] # None => lock'[s] = lock[s] /\ lock'[s] # p
      /\ \A s \in Sessions : lock[s] # p => lock'[s] = lock[s]
  BY DEF Refuse, Rollback, IInv, Types, TypeOK
<1>4. Idle.pc = "idle" /\ Idle.turn = 0 /\ Idle.caller = None /\ Idle.s = 0 /\ Idle.tx = EmptyTx
  BY DEF Idle
<1>5. EmptyTx.rows = {} /\ EmptyTx.next = 0 /\ EmptyTx.new = FALSE /\ EmptyTx.quota = -1
      /\ EmptyTx.summary = {}
  BY DEF EmptyTx
<1>6. Types'
  BY <1>1, <1>2, <1>3 DEF IInv, Types, TypeOK
<1>7. Apart'
  <2>1. ASSUME NEW q \in Slots, NEW r \in Slots, q # r
        PROVE  /\ slot'[q].turn = slot'[r].turn => slot'[q].turn = 0
               /\ slot'[q].tx.new => slot'[r].s # slot'[q].s
    <3>1. slot[q].tx.new => slot[q].s # 0
      <4>1. Written(q) /\ 0 \notin Sessions
        BY DEF IInv, Sessions
      <4> QED
        BY <4>1 DEF Written
    <3> QED
      BY <1>2, <1>4, <1>5, <2>1, <3>1 DEF IInv, Apart
  <2>2. ASSUME NEW s \in Sessions, lock'[s] # None
        PROVE  slot'[lock'[s]].s = s /\ slot'[lock'[s]].tx.next # 0
    <3>1. lock'[s] = lock[s] /\ lock[s] # p /\ lock[s] \in Slots
      BY <1>3, <2>2 DEF IInv, Types, TypeOK
    <3> QED
      BY <1>2, <2>2, <3>1 DEF IInv, Apart
  <2> QED
    BY <1>1, <2>1, <2>2 DEF IInv, Apart
<1>8. Quotas'
  <2>1. \A g \in Guests, d \in Days : Counting(g, d)' \subseteq Counting(g, d)
    BY <1>1, <1>2, <1>4 DEF Counting
  <2> QED
    BY <1>1, <2>1, QuotasKept
<1>9. Room'
  <2>1. Creating' \subseteq Creating
    BY <1>2, <1>4 DEF Creating
  <2> QED
    BY <1>1, <2>1, RoomKept
<1>10. ASSUME NEW s \in Sessions
       PROVE  Stored(s)'
  BY <1>1, StoredKept DEF IInv, Types, TypeOK
<1>11. ASSUME NEW q \in Slots
       PROVE  Stage(q)' /\ Written(q)' /\ Unanswered(q)'
  <2>1. CASE q # p
    <3>1. \A s \in Sessions : Own(q, s) => lock'[s] = lock[s]
      <4> SUFFICES ASSUME NEW s \in Sessions, Own(q, s), lock[s] = p PROVE lock'[s] = lock[s]
        BY <1>3
      <4>1. p # None
        BY ChatAssumption
      <4>2. slot[q].tx.new /\ slot[q].s = s /\ slot[p].s = s
        BY <2>1, <4>1 DEF Own, IInv, Apart
      <4> QED
        BY <2>1, <4>2 DEF IInv, Apart
    <3> QED
      BY <1>1, <1>2, <2>1, <3>1, RequestKept DEF IInv, Types, TypeOK, Days
  <2>2. CASE q = p
    <3>1. Stage(p)'
      BY <1>1, <1>2, <1>4, <1>5 DEF Stage, IInv, Types, TypeOK, Days
    <3>2. Written(p)'
      BY <1>1, <1>2, <1>4, <1>5 DEF Written
    <3>3. Unanswered(p)'
      <4>1. \A s \in Sessions : \A m \in rows[s] : m.turn # 0
        BY DEF IInv, Types, TypeOK, Message, Turns
      <4> QED
        BY <1>1, <1>2, <1>4, <4>1 DEF Unanswered
    <3> QED
      BY <2>2, <3>1, <3>2, <3>3
  <2> QED
    BY <2>1, <2>2
<1> QED
  BY <1>6, <1>7, <1>8, <1>9, <1>10, <1>11 DEF IInv

\* The quota check lets a guest's turn through while the day's counter is below the quota, so that
\* all requests together can exceed it by less than their number.
LEMMA CheckQuotaInv ==
    ASSUME IInv, NEW p \in Slots, check_quota(p)
    PROVE  IInv'
<1> DEFINE c == slot[p].caller
<1>1. CASE c \in Guests /\ quota[c][day] >= Quota
  <2>1. Refuse(p)
    BY <1>1 DEF check_quota
  <2> QED
    BY <2>1, RefuseInv
<1>2. CASE ~(c \in Guests /\ quota[c][day] >= Quota)
  <2>1. /\ slot[p].pc = "quota" /\ To(p, [slot[p] EXCEPT !.pc = "resolve"])
        /\ UNCHANGED <<sess, rows, summaries, quota, lock, Fixed>>
    BY <1>2 DEF check_quota
  <2>2. UNCHANGED <<quota, day>>
    BY <2>1 DEF Fixed
  <2>3. slot[p] \in Request /\ [slot[p] EXCEPT !.pc = "resolve"] \in Request
        /\ [slot[p] EXCEPT !.pc = "resolve"].caller = c
    BY DEF IInv, Types, Request
  <2>4. slot'[p].caller = c /\ \A q \in Slots : q # p => slot'[q] = slot[q]
    BY <2>1, <2>3, SlotOf DEF IInv
  <2>5. ASSUME NEW g \in Guests, NEW d \in Days
        PROVE  /\ quota'[g][d] + Cardinality(Counting(g, d)') <= Quota + Cardinality(Slots) - 1
               /\ day' < d => quota'[g][d] = 0
    <3>1. /\ quota[g][d] \in Nat /\ quota[g][day] \in Nat /\ Quota \in Nat /\ day \in Nat /\ d \in Nat
          /\ Cardinality(Slots) \in Nat \ {0}
      BY ChatAssumption, SlotSets DEF IInv, Types, TypeOK, Days
    <3>2. Counting(g, d)' \in SUBSET Slots /\ Counting(g, d) \in SUBSET Slots
      BY DEF Counting
    <3>3. /\ Cardinality(Counting(g, d)') \in Nat
          /\ Cardinality(Counting(g, d)') <= Cardinality(Slots)
          /\ Cardinality(Counting(g, d)) \in Nat
      BY <3>2, SlotSets
    <3>4. /\ quota[g][d] + Cardinality(Counting(g, d)) <= Quota + Cardinality(Slots) - 1
          /\ day < d => quota[g][d] = 0
      BY DEF IInv, Quotas
    <3>5. CASE c = g /\ day <= d
      <4>1. quota[g][day] < Quota
        BY <1>2, <3>1, <3>5
      <4>2. quota[g][d] < Quota
        BY <3>1, <3>4, <3>5, <4>1
      <4> QED
        BY <2>2, <3>1, <3>3, <3>4, <4>2
    <3>6. CASE c # g \/ ~(day <= d)
      <4>1. p \notin Counting(g, d)'
        <5>1. slot'[p].tx = slot[p].tx
          BY <2>1, <2>3, SlotOf DEF IInv, Request
        <5>2. slot[p].tx.quota = -1
          BY <2>1 DEF IInv, Stage
        <5> QED
          BY <2>2, <2>4, <3>1, <3>6, <5>1, <5>2 DEF Counting
      <4>2. Counting(g, d)' \subseteq Counting(g, d)
        BY <2>2, <2>4, <4>1 DEF Counting
      <4>3. Cardinality(Counting(g, d)') <= Cardinality(Counting(g, d))
        BY <3>2, <4>2, SlotSets, FS_Subset
      <4> QED
        BY <2>2, <3>1, <3>3, <3>4, <4>3
    <3> QED
      BY <3>5, <3>6
  <2>6. Quotas'
    BY <2>5 DEF Quotas
  <2> QED
    BY <2>1, <2>6, Moved
<1> QED
  BY <1>1, <1>2

\* A request that arrives gets a turn of its own and, if it may create a session, room for it.
LEMMA AcceptInv ==
    ASSUME IInv, NEW p \in Slots, accept(p)
    PROVE  IInv'
<1>1. PICK c \in Callers, k \in Keys \cup {None}, w \in 0 .. created,
           r \in IF slot'[p].caller \in Guests THEN GuestRoutes ELSE UserRoutes :
        /\ w # 0 \/ MayCreate
        /\ To(p, [Idle EXCEPT !.pc = "quota", !.turn = turns + 1, !.caller = c, !.route = r,
                              !.key = k, !.want = w])
  <2>1. PICK c \in Callers, k \in Keys \cup {None}, w \in 0 .. created :
          \E r \in IF c \in Guests THEN GuestRoutes ELSE UserRoutes :
            /\ w # 0 \/ MayCreate
            /\ To(p, [Idle EXCEPT !.pc = "quota", !.turn = turns + 1, !.caller = c, !.route = r,
                                  !.key = k, !.want = w])
    BY DEF accept
  <2>2. slot'[p].caller = c
    BY <2>1 DEF To, Idle, IInv, Types
  <2> QED
    BY <2>1, <2>2
<1> DEFINE n == [Idle EXCEPT !.pc = "quota", !.turn = turns + 1, !.caller = c, !.route = r,
                             !.key = k, !.want = w]
<1>2. /\ slot[p].pc = "idle" /\ turns < MaxTurns /\ turns' = turns + 1
      /\ UNCHANGED <<sess, rows, summaries, quota, linked, lock, created, day>>
  BY DEF accept
<1>3. turns \in Nat /\ MaxTurns \in Nat /\ created \in Nat /\ MaxSessions \in Nat /\ day \in Nat
  BY ChatAssumption DEF IInv, Types, TypeOK, Days
<1>4. /\ n.pc = "quota" /\ n.turn = turns + 1 /\ n.caller = c /\ n.s = 0 /\ n.tx = EmptyTx
      /\ n.want = w
  BY DEF Idle
<1>5. n \in Request
  <2> DEFINE n1 == [Idle EXCEPT !.pc = "quota"]
             n2 == [n1 EXCEPT !.turn = turns + 1]
             n3 == [n2 EXCEPT !.caller = c]
             n4 == [n3 EXCEPT !.route = r]
             n5 == [n4 EXCEPT !.key = k]
             n6 == [n5 EXCEPT !.want = w]
  <2>1. r \in Routes /\ w \in Nat
    BY <1>3 DEF Routes
  <2>2. n = n6
    OBVIOUS
  <2> HIDE DEF n, n6
  <2>3. n1 \in Request
    BY IdleIsRequest DEF Request
  <2> HIDE DEF n1
  <2>4. n2 \in Request
    BY <1>3, <2>3 DEF Request
  <2> HIDE DEF n2
  <2>5. n3 \in Request
    BY <2>4 DEF Request
  <2> HIDE DEF n3
  <2>6. n4 \in Request
    BY <2>1, <2>5 DEF Request
  <2> HIDE DEF n4
  <2>7. n5 \in Request
    BY <2>6 DEF Request
  <2> HIDE DEF n5
  <2>8. n6 \in Request
    BY <2>1, <2>7 DEF Request, n6
  <2> QED
    BY <2>2, <2>8
<1>6. /\ slot' \in [Slots -> Request] /\ slot'[p] = n
      /\ \A q \in Slots : q # p => slot'[q] = slot[q]
  BY <1>1, <1>5, SlotOf DEF IInv
<1>7. EmptyTx.rows = {} /\ EmptyTx.next = 0 /\ EmptyTx.new = FALSE /\ EmptyTx.quota = -1
      /\ EmptyTx.summary = {}
  BY DEF EmptyTx
<1> HIDE DEF n
<1>8. Types'
  BY <1>2, <1>3, <1>6 DEF IInv, Types, TypeOK
<1>9. \A q \in Slots : slot[q].turn <= turns
  <2> TAKE q \in Slots
  <2>1. Stage(q)
    BY DEF IInv
  <2> QED
    BY <1>3, <2>1 DEF Stage, Idle
<1>10. Apart'
  <2>1. ASSUME NEW q \in Slots, NEW t \in Slots, q # t
        PROVE  /\ slot'[q].turn = slot'[t].turn => slot'[q].turn = 0
               /\ slot'[q].tx.new => slot'[t].s # slot'[q].s
    <3>1. slot[q].tx.new => slot[q].s # 0
      <4>1. Written(q) /\ 0 \notin Sessions
        BY DEF IInv, Sessions
      <4> QED
        BY <4>1 DEF Written
    <3>2. slot[q].turn # turns + 1 /\ slot[t].turn # turns + 1
      <4>1. slot[q].turn \in Nat /\ slot[t].turn \in Nat
        BY DEF IInv, Types, Request
      <4> QED
        BY <1>3, <1>9, <4>1
    <3> QED
      BY <1>4, <1>6, <1>7, <2>1, <3>1, <3>2 DEF IInv, Apart
  <2>2. ASSUME NEW s \in Sessions, lock'[s] # None
        PROVE  slot'[lock'[s]].s = s /\ slot'[lock'[s]].tx.next # 0
    <3>1. lock[s] \in Slots /\ slot[lock[s]].s = s /\ slot[lock[s]].tx.next # 0
      BY <1>2, <2>2 DEF IInv, Apart, Types, TypeOK
    <3>2. slot[p].tx.next = 0
      BY <1>2 DEF IInv, Stage, Idle, EmptyTx
    <3>3. lock[s] # p
      BY <3>1, <3>2
    <3> QED
      BY <1>2, <1>6, <3>1, <3>3
  <2>3. \A s \in Sessions : \A m \in rows'[s] : m.turn <= turns'
    BY <1>2, <1>3 DEF IInv, Apart, Types, TypeOK, Message, Turns
  <2> QED
    BY <2>1, <2>2, <2>3 DEF Apart
<1>11. Quotas'
  <2>1. \A g \in Guests, d \in Days : Counting(g, d)' \subseteq Counting(g, d)
    BY <1>2, <1>4, <1>6 DEF Counting
  <2> QED
    BY <1>2, <2>1, QuotasKept
<1>12. Room'
  <2>1. CASE w # 0
    <3>1. Creating' \subseteq Creating
      BY <1>4, <1>6, <2>1 DEF Creating
    <3> QED
      BY <1>2, <3>1, RoomKept
  <2>2. CASE w = 0
    <3>1. Creating' = Creating \cup {p} /\ p \notin Creating /\ Creating \in SUBSET Slots
      BY <1>2, <1>4, <1>6, <2>2 DEF Creating
    <3>2. IsFiniteSet(Creating) /\ Cardinality(Creating) \in Nat
      BY <3>1, SlotSets
    <3>3. Cardinality(Creating') = Cardinality(Creating) + 1
      BY <3>1, <3>2, FS_AddElement
    <3>4. created + Cardinality(Creating) < MaxSessions
      BY <1>1, <2>2 DEF MayCreate, Creating
    <3> QED
      BY <1>2, <1>3, <3>2, <3>3, <3>4 DEF Room
  <2> QED
    BY <2>1, <2>2
<1>13. ASSUME NEW s \in Sessions
       PROVE  Stored(s)'
  BY <1>2, <1>3, StoredKept
<1>14. ASSUME NEW q \in Slots
       PROVE  Stage(q)' /\ Written(q)' /\ Unanswered(q)'
  <2>1. CASE q # p
    BY <1>2, <1>3, <1>6, <2>1, RequestKept
  <2>2. CASE q = p
    <3>1. Stage(p)'
      BY <1>2, <1>3, <1>4, <1>6, <1>7 DEF Stage
    <3>2. Written(p)'
      BY <1>2, <1>4, <1>6, <1>7 DEF Written
    <3>3. Unanswered(p)'
      <4>1. \A s \in Sessions : \A m \in rows[s] : m.turn # turns + 1
        BY <1>3 DEF IInv, Apart, Types, TypeOK, Message, Turns
      <4> QED
        BY <1>2, <1>4, <1>6, <4>1 DEF Unanswered
    <3> QED
      BY <2>2, <3>1, <3>2, <3>3
  <2> QED
    BY <2>1, <2>2
<1> QED
  BY <1>8, <1>10, <1>11, <1>12, <1>13, <1>14 DEF IInv

\* A set of naturals that is not empty has a smallest element.
LEMMA Smallest ==
    ASSUME NEW T, T \subseteq Nat, T # {}
    PROVE  \E x \in T : \A y \in T : x <= y
<1> DEFINE Less == OpToRel(<, Nat)
<1>1. IsWellFoundedOn(Less, Nat)
  BY NatLessThanWellFounded
<1>2. \A x, y \in Nat : x < y => <<x, y>> \in Less
  BY DEF OpToRel
<1> HIDE DEF Less
<1>3. PICK x \in T : \A y \in T : ~ (<<y, x>> \in Less)
  BY <1>1, WFMin
<1>4. ASSUME NEW y \in T
      PROVE  x <= y
  <2>1. ~ (y < x)
    BY <1>2, <1>3
  <2> QED
    BY <2>1
<1> QED
  BY <1>4

\* The default session of a guest, if there is one, exists.
LEMMA DefaultExists ==
    ASSUME NEW g, get_default_guest_session(g) # 0
    PROVE  LET s == get_default_guest_session(g) IN s \in Sessions /\ s <= created /\ sess[s].live
<1> DEFINE mine == {s \in Sessions : s <= created /\ sess[s].live /\ sess[s].owner = g}
           d == CHOOSE s \in mine : \A t \in mine : s <= t
<1>1. mine # {} /\ get_default_guest_session(g) = d
  BY DEF get_default_guest_session
<1>2. mine \subseteq Nat
  BY DEF Sessions
<1>3. \E s \in mine : \A t \in mine : s <= t
  <2> HIDE DEF mine
  <2> QED
    BY <1>1, <1>2, Smallest
<1>4. d \in mine
  <2> HIDE DEF mine
  <2> QED
    BY <1>3
<1> QED
  BY <1>1, <1>4

\* A turn on a session that exists.
LEMMA UseInv ==
    ASSUME IInv, NEW p \in Slots, slot[p].pc = "resolve",
           NEW s \in Sessions, s <= created, sess[s].live,
           To(p, [slot[p] EXCEPT !.pc = "lookup", !.s = s, !.want = 0]),
           UNCHANGED <<sess, rows, summaries, quota, lock, Fixed>>
    PROVE  IInv'
<1> DEFINE j == slot[p]
           k == [j EXCEPT !.pc = "lookup", !.s = s, !.want = 0]
<1>1. j \in Request /\ s \in Nat \ {0}
  BY DEF IInv, Types, Sessions
<1>2. /\ k.pc = "lookup" /\ k.turn = j.turn /\ k.caller = j.caller /\ k.s = s
      /\ k.tx = j.tx /\ k \in Request
  <2> HIDE DEF j
  <2> QED
    BY <1>1 DEF Request
<1>3. UNCHANGED <<sess, rows, summaries, quota, lock, linked, turns, created, day>>
  BY DEF Fixed
<1>4. /\ slot' \in [Slots -> Request] /\ slot'[p] = k
      /\ \A q \in Slots : q # p => slot'[q] = slot[q]
  BY <1>2, SlotOf DEF IInv
<1>5. j.tx = EmptyTx
  BY DEF IInv, Stage
<1>6. EmptyTx.rows = {} /\ EmptyTx.next = 0 /\ EmptyTx.new = FALSE /\ EmptyTx.quota = -1
      /\ EmptyTx.summary = {}
  BY DEF EmptyTx
<1> HIDE DEF k
<1>7. Types'
  BY <1>3, <1>4 DEF IInv, Types, TypeOK
<1>8. Apart'
  <2>1. ASSUME NEW q \in Slots, NEW t \in Slots, q # t
        PROVE  /\ slot'[q].turn = slot'[t].turn => slot'[q].turn = 0
               /\ slot'[q].tx.new => slot'[t].s # slot'[q].s
    <3>1. slot[q].tx.new => slot[q].s # s
      <4>1. Written(q)
        BY DEF IInv
      <4> QED
        BY <4>1 DEF Written
    <3> QED
      BY <1>2, <1>4, <1>5, <1>6, <2>1, <3>1 DEF IInv, Apart
  <2>2. ASSUME NEW t \in Sessions, lock'[t] # None
        PROVE  slot'[lock'[t]].s = t /\ slot'[lock'[t]].tx.next # 0
    <3>1. lock[t] \in Slots /\ slot[lock[t]].s = t /\ slot[lock[t]].tx.next # 0
      BY <1>3, <2>2 DEF IInv, Apart, Types, TypeOK
    <3>2. lock[t] # p
      BY <1>5, <1>6, <3>1
    <3> QED
      BY <1>3, <1>4, <3>1, <3>2
  <2> QED
    BY <1>3, <2>1, <2>2 DEF IInv, Apart
<1>9. Quotas'
  <2>1. \A g \in Guests, d \in Days : Counting(g, d)' \subseteq Counting(g, d)
    BY <1>2, <1>3, <1>4 DEF Counting
  <2> QED
    BY <1>3, <2>1, QuotasKept
<1>10. Room'
  <2>1. Creating' \subseteq Creating
    BY <1>2, <1>4 DEF Creating
  <2> QED
    BY <1>3, <2>1, RoomKept
<1>11. ASSUME NEW t \in Sessions
       PROVE  Stored(t)'
  BY <1>3, StoredKept DEF IInv, Types, TypeOK
<1>12. ASSUME NEW q \in Slots
       PROVE  Stage(q)' /\ Written(q)' /\ Unanswered(q)'
  <2>1. CASE q # p
    <3>1. created \in Nat /\ turns \in Nat /\ day \in Nat
      BY DEF IInv, Types, TypeOK, Days
    <3> QED
      BY <1>3, <1>4, <2>1, <3>1, RequestKept
  <2>2. CASE q = p
    <3>1. Stage(p) /\ Unanswered(p) /\ created \in Nat /\ turns \in Nat /\ day \in Nat
      BY DEF IInv, Types, TypeOK, Days
    <3>2. Stage(p)'
      BY <1>1, <1>2, <1>3, <1>4, <1>5, <1>6, <3>1 DEF Stage
    <3>3. Written(p)'
      BY <1>2, <1>3, <1>4, <1>5, <1>6 DEF Written
    <3>4. Unanswered(p)'
      BY <1>2, <1>3, <1>4, <3>1 DEF Unanswered
    <3> QED
      BY <2>2, <3>2, <3>3, <3>4
  <2> QED
    BY <2>1, <2>2
<1> QED
  BY <1>7, <1>8, <1>9, <1>10, <1>11, <1>12 DEF IInv

\* A turn that creates its session takes a number nobody has used.
LEMMA CreateInv ==
    ASSUME IInv, NEW p \in Slots, slot[p].pc = "resolve", slot[p].want = 0,
           created' = created + 1,
           To(p, [slot[p] EXCEPT !.pc = "lookup", !.s = created + 1, !.tx.new = TRUE]),
           UNCHANGED <<sess, rows, summaries, quota, linked, lock, turns, day>>
    PROVE  IInv'
<1> DEFINE j == slot[p]
           k == [j EXCEPT !.pc = "lookup", !.s = created + 1, !.tx.new = TRUE]
           s == created + 1
<1>1. j \in Request /\ created \in Nat /\ MaxSessions \in Nat /\ turns \in Nat /\ day \in Nat
  BY ChatAssumption DEF IInv, Types, TypeOK, Days
<1>2. j.tx = EmptyTx
  BY DEF IInv, Stage
<1>3. /\ k.pc = "lookup" /\ k.turn = j.turn /\ k.caller = j.caller /\ k.s = s /\ k.want = 0
      /\ k.tx.rows = {} /\ k.tx.next = 0 /\ k.tx.summary = {} /\ k.tx.quota = -1
      /\ k.tx.new = TRUE
  <2>1. k.pc = "lookup" /\ k.turn = j.turn /\ k.caller = j.caller /\ k.s = s /\ k.want = j.want
    <3> HIDE DEF j
    <3> QED
      BY <1>1 DEF Request
  <2>2. k.tx = [j.tx EXCEPT !.new = TRUE]
    <3> HIDE DEF j
    <3> QED
      BY <1>1 DEF Request
  <2>3. /\ k.tx.rows = {} /\ k.tx.next = 0 /\ k.tx.summary = {} /\ k.tx.quota = -1
        /\ k.tx.new = TRUE
    BY <1>2, <2>2 DEF EmptyTx
  <2> QED
    BY <2>1, <2>3
<1>4. k \in Request
  <2> DEFINE k1 == [j EXCEPT !.pc = "lookup"]
             k2 == [k1 EXCEPT !.s = created + 1]
             t == [j.tx EXCEPT !.new = TRUE]
             k3 == [k2 EXCEPT !.tx = t]
  <2>1. t \in Transaction
    <3>1. j.tx \in Transaction
      BY <1>2, IdleIsRequest
    <3> HIDE DEF j
    <3> QED
      BY <3>1 DEF Transaction
  <2>2. k = k3
    <3> HIDE DEF j
    <3> QED
      BY <1>1 DEF Request
  <2> HIDE DEF k, t, j, k3
  <2>3. k1 \in Request
    BY <1>1 DEF Request
  <2> HIDE DEF k1
  <2>4. k2 \in Request
    BY <1>1, <2>3 DEF Request
  <2> HIDE DEF k2
  <2>5. k3 \in Request
    BY <2>1, <2>4 DEF Request, k3
  <2> QED
    BY <2>2, <2>5
<1>5. /\ slot' \in [Slots -> Request] /\ slot'[p] = k
      /\ \A q \in Slots : q # p => slot'[q] = slot[q]
  BY <1>4, SlotOf DEF IInv
<1> HIDE DEF k
<1>6. Creating' = Creating \ {p} /\ p \in Creating /\ Creating \in SUBSET Slots
  BY <1>3, <1>5 DEF Creating
<1>7. /\ Cardinality(Creating') = Cardinality(Creating) - 1 /\ Cardinality(Creating) \in Nat
      /\ Cardinality(Creating') \in Nat
  BY <1>6, SlotSets, FS_RemoveElement
<1>8. created + Cardinality(Creating) <= MaxSessions
  BY DEF IInv, Room
<1>9. Room'
  BY <1>1, <1>7, <1>8 DEF Room
<1>10. s \in Sessions /\ created' <= MaxSessions /\ created' \in Nat /\ created <= created'
  BY <1>1, <1>7, <1>8 DEF Sessions
<1>11. ~sess[s].live /\ sess[s].next = 1
  BY <1>1, <1>10 DEF IInv, Stored
<1>12. Types'
  BY <1>1, <1>5, <1>10 DEF IInv, Types, TypeOK
<1>13. Apart'
  <2>1. ASSUME NEW q \in Slots
        PROVE  slot[q].s # s
    <3>1. Stage(q) /\ slot[q] \in Request
      BY DEF IInv, Types
    <3>2. slot[q].pc \in {"idle", "quota", "resolve"} => slot[q].s = 0
      BY <3>1 DEF Stage, Idle
    <3>3. slot[q].pc \notin {"idle", "quota", "resolve"} => slot[q].s \in 1 .. created
      BY <3>1 DEF Stage, Request
    <3> QED
      BY <1>1, <3>2, <3>3
  <2>2. ASSUME NEW q \in Slots, NEW t \in Slots, q # t
        PROVE  /\ slot'[q].turn = slot'[t].turn => slot'[q].turn = 0
               /\ slot'[q].tx.new => slot'[t].s # slot'[q].s
    BY <1>3, <1>5, <2>1, <2>2 DEF IInv, Apart
  <2>3. ASSUME NEW t \in Sessions, lock'[t] # None
        PROVE  slot'[lock'[t]].s = t /\ slot'[lock'[t]].tx.next # 0
    <3>1. lock[t] \in Slots /\ slot[lock[t]].s = t /\ slot[lock[t]].tx.next # 0
      BY <2>3 DEF IInv, Apart, Types, TypeOK
    <3>2. lock[t] # p
      BY <1>2, <3>1 DEF EmptyTx
    <3> QED
      BY <1>5, <3>1, <3>2
  <2> QED
    BY <2>2, <2>3 DEF IInv, Apart
<1>14. Quotas'
  <2>1. \A g \in Guests, d \in Days : Counting(g, d)' \subseteq Counting(g, d)
    BY <1>2, <1>3, <1>5 DEF Counting, EmptyTx
  <2> QED
    BY <2>1, QuotasKept
<1>15. ASSUME NEW t \in Sessions
       PROVE  Stored(t)'
  BY <1>10, StoredKept
<1>16. ASSUME NEW q \in Slots
       PROVE  Stage(q)' /\ Written(q)' /\ Unanswered(q)'
  <2>1. CASE q # p
    BY <1>1, <1>5, <1>10, <2>1, RequestKept
  <2>2. CASE q = p
    <3>1. Stage(p) /\ Unanswered(p)
      BY DEF IInv
    <3>2. Stage(p)'
      BY <1>1, <1>3, <1>5, <3>1 DEF Stage
    <3>3. Written(p)'
      BY <1>3, <1>5, <1>10, <1>11 DEF Written
    <3>4. Unanswered(p)'
      BY <1>3, <1>5, <3>1 DEF Unanswered
    <3> QED
      BY <2>2, <3>2, <3>3, <3>4
  <2> QED
    BY <2>1, <2>2
<1> QED
  BY <1>9, <1>12, <1>13, <1>14, <1>15, <1>16 DEF IInv

\* A turn finds its session, creates it or is refused.
LEMMA ResolveInv ==
    ASSUME IInv, NEW p \in Slots, resolve_session(p)
    PROVE  IInv'
<1> DEFINE c == slot[p].caller
           w == slot[p].want
           default == IF c \in Guests THEN get_default_guest_session(c) ELSE 0
<1>1. slot[p].pc = "resolve" /\ w \in Nat /\ created \in Nat /\ created <= MaxSessions
      /\ MaxSessions \in Nat
  BY ChatAssumption DEF resolve_session, IInv, Types, TypeOK, Request
<1>2. CASE /\ w # 0 /\ get_owned_session(c, w)
           /\ To(p, [slot[p] EXCEPT !.pc = "lookup", !.s = w, !.want = 0])
           /\ UNCHANGED <<sess, rows, summaries, quota, lock, Fixed>>
  <2>1. w \in Sessions /\ w <= created /\ sess[w].live
    BY <1>1, <1>2 DEF get_owned_session, Sessions
  <2> QED
    BY <1>1, <1>2, <2>1, UseInv
<1>3. CASE Refuse(p)
  BY <1>3, RefuseInv
<1>4. CASE /\ default # 0
           /\ To(p, [slot[p] EXCEPT !.pc = "lookup", !.s = default, !.want = 0])
           /\ UNCHANGED <<sess, rows, summaries, quota, lock, Fixed>>
  <2>1. default \in Sessions /\ default <= created /\ sess[default].live
    BY <1>4, DefaultExists
  <2> HIDE DEF default
  <2> QED
    BY <1>1, <1>4, <2>1, UseInv
<1>5. CASE /\ w = 0 /\ created' = created + 1
           /\ To(p, [slot[p] EXCEPT !.pc = "lookup", !.s = created + 1, !.tx.new = TRUE])
           /\ UNCHANGED <<sess, rows, summaries, quota, linked, lock, turns, day>>
  BY <1>1, <1>5, CreateInv
<1> QED
  BY <1>2, <1>3, <1>4, <1>5 DEF resolve_session

(* Writes into the transaction *)

\* A session that can be written to is numbered from 1, with or without rows.
LEMMA NumberedRows ==
    ASSUME IInv, NEW s \in Sessions, sess[s].live \/ sess[s].next = 1
    PROVE  Numbered(rows[s], 1, sess[s].next)
<1>1. Stored(s)
  BY DEF IInv
<1>2. CASE sess[s].live
  BY <1>1, <1>2 DEF Stored
<1>3. CASE ~sess[s].live
  <2>1. rows[s] = {} /\ sess[s].next = 1
    BY <1>1, <1>3 DEF Stored
  <2> QED
    BY <2>1, NumberedEmpty
<1> QED
  BY <1>2, <1>3

\* allocate_seq and add_message put one message into the transaction and nothing else.
LEMMA AddedFields ==
    ASSUME IInv, NEW p \in Slots, slot[p].pc \in {"append", "reply"},
           NEW role \in {"user", "assistant"}, NEW key \in Keys \cup {None}
    PROVE  LET tx == Added(p, role, key)
               x == [seq |-> NextSeq(p), role |-> role, turn |-> slot[p].turn, key |-> key]
           IN  /\ tx \in Transaction /\ tx.rows = slot[p].tx.rows \cup {x} /\ x \in Message
               /\ NextSeq(p) \in Nat \ {0} /\ tx.next = NextSeq(p) + 1
               /\ tx.summary = {} /\ tx.quota = -1 /\ tx.new = slot[p].tx.new
<1> DEFINE tx == slot[p].tx
           n == NextSeq(p)
           x == [seq |-> n, role |-> role, turn |-> slot[p].turn, key |-> key]
           t == [tx EXCEPT !.rows = @ \cup {x}, !.next = n + 1]
<1>1. Stage(p) /\ Types
  BY DEF IInv
<1>2. tx \in Transaction /\ tx.summary = {} /\ tx.quota = -1
  BY <1>1 DEF Stage, Types, Request
<1>3. slot[p].s \in Sessions
  BY <1>1, SessionOf
<1>4. n \in Nat \ {0}
  <2>1. sess[slot[p].s].next \in Nat \ {0}
    BY <1>1, <1>3 DEF Types
  <2>2. tx.next \in Nat
    BY <1>2 DEF Transaction
  <2> QED
    BY <2>1, <2>2 DEF NextSeq
<1>5. x \in Message
  <2>1. slot[p].turn \in Turns
    BY <1>1, ChatAssumption DEF Stage, Types, TypeOK, Turns
  <2> QED
    BY <1>4, <2>1 DEF Message
<1>6. Added(p, role, key) = t
  BY DEF Added
<1> HIDE DEF x, n, tx
<1>7. /\ t.rows = tx.rows \cup {x} /\ t.next = n + 1 /\ t.summary = tx.summary
      /\ t.quota = tx.quota /\ t.new = tx.new /\ t \in Transaction
  <2>1. tx.rows \cup {x} \in SUBSET Message /\ n + 1 \in Nat
    BY <1>2, <1>4, <1>5 DEF Transaction
  <2> QED
    BY <1>2, <2>1 DEF Transaction
<1> QED
  BY <1>2, <1>4, <1>5, <1>6, <1>7 DEF x, n, tx

\* A request that has written under the lock of its session and goes on.
LEMMA WriteInv ==
    ASSUME IInv, NEW p \in Slots, NEW k \in Request, To(p, k),
           slot[p].pc \in {"append", "reply"}, k.pc \in {"reply", "summarize"},
           k.turn = slot[p].turn, k.caller = slot[p].caller, k.s = slot[p].s,
           LockFree(p), lock' = [lock EXCEPT ![k.s] = p],
           UNCHANGED <<sess, rows, summaries, quota, Fixed>>,
           k.tx.next # 0, k.tx.new = slot[p].tx.new, k.tx.new \/ sess[k.s].live,
           Numbered(k.tx.rows, sess[k.s].next, k.tx.next),
           \A m \in k.tx.rows : m.turn = k.turn,
           KeysUnique(rows[k.s] \cup k.tx.rows), Answered(rows[k.s] \cup k.tx.rows),
           k.tx.quota \in {-1, day}, Stage(p)'
    PROVE  IInv'
<1> DEFINE s == k.s
<1>1. UNCHANGED <<sess, rows, summaries, quota, linked, turns, created, day>>
  BY DEF Fixed
<1>2. created \in Nat /\ turns \in Nat /\ day \in Nat
  BY DEF IInv, Types, TypeOK, Days
<1>3. /\ slot' \in [Slots -> Request] /\ slot'[p] = k
      /\ \A q \in Slots : q # p => slot'[q] = slot[q]
  BY SlotOf DEF IInv
<1>4. s \in Sessions /\ lock[s] \in {None, p}
  BY SessionOf DEF IInv, LockFree
<1>5. /\ lock' \in [Sessions -> Slots \cup {None}] /\ lock'[s] = p
      /\ \A t \in Sessions : t # s => lock'[t] = lock[t]
  BY <1>4 DEF IInv, Types, TypeOK
<1>6. Types'
  BY <1>1, <1>3, <1>5 DEF IInv, Types, TypeOK
<1>7. Apart'
  <2>1. ASSUME NEW q \in Slots, NEW t \in Slots, q # t
        PROVE  /\ slot'[q].turn = slot'[t].turn => slot'[q].turn = 0
               /\ slot'[q].tx.new => slot'[t].s # slot'[q].s
    BY <1>3, <2>1 DEF IInv, Apart
  <2>2. ASSUME NEW t \in Sessions, lock'[t] # None
        PROVE  slot'[lock'[t]].s = t /\ slot'[lock'[t]].tx.next # 0
    <3>1. CASE lock'[t] = p
      <4>1. t # s => slot[p].s = t
        BY <1>5, <2>2, <3>1 DEF IInv, Apart
      <4> QED
        BY <1>3, <3>1, <4>1
    <3>2. CASE lock'[t] # p
      <4>1. lock'[t] = lock[t] /\ lock[t] \in Slots
        BY <1>5, <2>2, <3>2 DEF IInv, Types, TypeOK
      <4> QED
        BY <1>3, <2>2, <3>2, <4>1 DEF IInv, Apart
    <3> QED
      BY <3>1, <3>2
  <2> QED
    BY <1>1, <2>1, <2>2 DEF IInv, Apart
<1>8. Quotas'
  <2>1. slot[p].tx.quota = -1
    BY DEF IInv, Stage
  <2>2. \A g \in Guests, d \in Days : Counting(g, d)' \subseteq Counting(g, d)
    BY <1>1, <1>2, <1>3, <2>1 DEF Counting
  <2> QED
    BY <1>1, <2>2, QuotasKept
<1>9. Room'
  <2>1. Creating' \subseteq Creating
    BY <1>3 DEF Creating
  <2> QED
    BY <1>1, <2>1, RoomKept
<1>10. ASSUME NEW t \in Sessions
       PROVE  Stored(t)'
  BY <1>1, <1>2, StoredKept
<1>11. ASSUME NEW q \in Slots
       PROVE  Stage(q)' /\ Written(q)' /\ Unanswered(q)'
  <2>1. CASE q # p
    <3>1. ASSUME NEW t \in Sessions, Own(q, t)
          PROVE  lock'[t] = lock[t]
      <4>1. q # None
        BY ChatAssumption
      <4>2. t # s
        BY <1>4, <2>1, <3>1, <4>1 DEF Own, IInv, Apart
      <4> QED
        BY <1>5, <4>2
    <3> QED
      BY <1>1, <1>2, <1>3, <2>1, <3>1, RequestKept
  <2>2. CASE q = p
    <3>1. Unanswered(p) /\ Written(p)
      BY DEF IInv
    <3>2. Written(p)'
      BY <1>1, <1>3, <1>4, <1>5, <3>1 DEF Written
    <3>3. Unanswered(p)'
      BY <1>1, <1>3, <3>1 DEF Unanswered
    <3> QED
      BY <2>2, <3>2, <3>3
  <2> QED
    BY <2>1, <2>2
<1> QED
  BY <1>6, <1>7, <1>8, <1>9, <1>10, <1>11 DEF IInv

\* The user's message is the first of its turn, and its key is not stored yet.
LEMMA AppendInv ==
    ASSUME IInv, NEW p \in Slots, append_user(p)
    PROVE  IInv'
<1> DEFINE j == slot[p]
           s == slot[p].s
           tx == Added(p, "user", j.key)
           x == [seq |-> NextSeq(p), role |-> "user", turn |-> j.turn, key |-> j.key]
           k == [j EXCEPT !.pc = "reply", !.key = None, !.tx = tx]
           bad == \/ ~slot[p].tx.new /\ ~sess[s].live
                  \/ find_by_client_message_id(s, slot[p].key) # {}
<1>1. slot[p].pc = "append" /\ LockFree(p)
  BY DEF append_user
<1>2. CASE bad
  <2>1. Refuse(p)
    BY <1>2 DEF append_user
  <2> QED
    BY <2>1, RefuseInv
<1>3. CASE ~bad
  <2>1. /\ To(p, k) /\ lock' = [lock EXCEPT ![s] = p]
        /\ UNCHANGED <<sess, rows, summaries, quota, Fixed>>
    BY <1>3 DEF append_user, Asked
  <2>2. j \in Request /\ Stage(p) /\ Written(p) /\ Unanswered(p)
    BY DEF IInv, Types
  <2>3. j.tx.next = 0 /\ j.tx.rows = {}
    BY <1>1, <2>2 DEF Stage, Written
  <2>4. /\ tx \in Transaction /\ tx.rows = {x} /\ x \in Message
        /\ NextSeq(p) \in Nat \ {0} /\ tx.next = NextSeq(p) + 1
        /\ tx.summary = {} /\ tx.quota = -1 /\ tx.new = j.tx.new
    <3>1. j.key \in Keys \cup {None}
      BY <2>2 DEF Request
    <3> QED
      BY <1>1, <2>3, <3>1, AddedFields
  <2>5. NextSeq(p) = sess[s].next
    BY <2>3 DEF NextSeq
  <2>6. s \in Sessions
    BY <1>1, SessionOf DEF IInv
  <2>7. x.seq = sess[s].next /\ x.turn = j.turn /\ x.key = j.key /\ x.role = "user"
    BY <2>5
  <2> HIDE DEF tx, x, j
  <2>8. /\ k \in Request /\ k.pc = "reply" /\ k.turn = j.turn /\ k.caller = j.caller /\ k.s = j.s
        /\ k.tx = tx
    BY <2>2, <2>4 DEF Request
  <2>9. Numbered({x}, sess[s].next, sess[s].next + 1)
    <3>1. sess[s].next \in Nat
      BY <2>6 DEF IInv, Types
    <3>2. Numbered({}, sess[s].next, sess[s].next)
      BY <3>1, NumberedEmpty
    <3>3. Numbered({} \cup {x}, sess[s].next, sess[s].next + 1)
      BY <2>7, <3>1, <3>2, NumberedAdd
    <3>4. {} \cup {x} = {x}
      OBVIOUS
    <3> QED
      BY <3>3, <3>4
  <2>10. \A m \in rows[s] : m.turn # j.turn
    BY <1>1, <2>2, <2>6 DEF Unanswered, j
  <2>11. KeysUnique(rows[s] \cup {x})
    <3>1. \A m \in rows[s] : x.key # None => m.key # x.key
      BY <1>3, <2>7 DEF find_by_client_message_id, j
    <3>2. KeysUnique(rows[s])
      BY <2>6 DEF IInv, Stored
    <3> QED
      BY <3>1, <3>2 DEF KeysUnique
  <2>12. Answered(rows[s] \cup {x})
    <3>1. Answered(rows[s])
      BY <2>6 DEF IInv, Stored
    <3> QED
      BY <2>7, <2>10, <3>1 DEF Answered, Followed
  <2>13. tx.new \/ sess[s].live
    BY <1>3, <2>4 DEF j
  <2>14. slot'[p] = k /\ UNCHANGED <<sess, turns, created, day>>
    BY <2>1, <2>8, SlotOf DEF IInv, Fixed
  <2> HIDE DEF k
  <2>15. Stage(p)'
    <3>1. turns \in Nat /\ created \in Nat /\ day \in Nat
      BY DEF IInv, Types, TypeOK, Days
    <3> QED
      BY <1>1, <2>2, <2>4, <2>5, <2>8, <2>14, <3>1 DEF Stage, j
  <2>16. j.turn = slot[p].turn /\ j.caller = slot[p].caller /\ j.s = s /\ j.tx.new = slot[p].tx.new
    BY DEF j
  <2>17. tx.next # 0 /\ \A m \in {x} : m.turn = k.turn
    BY <2>4, <2>7, <2>8
  <2>18. /\ k.tx.next # 0 /\ k.tx.new = slot[p].tx.new /\ (k.tx.new \/ sess[k.s].live)
         /\ Numbered(k.tx.rows, sess[k.s].next, k.tx.next)
         /\ \A m \in k.tx.rows : m.turn = k.turn
         /\ KeysUnique(rows[k.s] \cup k.tx.rows) /\ Answered(rows[k.s] \cup k.tx.rows)
         /\ k.tx.quota \in {-1, day}
    BY <2>4, <2>5, <2>8, <2>9, <2>11, <2>12, <2>13, <2>16, <2>17
  <2>19. lock' = [lock EXCEPT ![k.s] = p]
    BY <2>1, <2>8, <2>16
  <2> QED
    BY <1>1, <2>1, <2>8, <2>15, <2>16, <2>18, <2>19, WriteInv
<1> QED
  BY <1>2, <1>3

(* Commits *)

\* What a transaction must be for its commit to keep the invariant: it has written, under the lock,
\* rows of its turn that continue the stored ones, and a summary of all of them or none.
Committable(p, tx) ==
    LET s == slot[p].s
    IN  /\ tx \in Transaction /\ tx.next # 0 /\ tx.new = slot[p].tx.new
        /\ s \in Sessions /\ lock[s] \in {None, p}
        /\ tx.new \/ sess[s].live
        /\ Numbered(tx.rows, sess[s].next, tx.next)
        /\ \A m \in tx.rows : m.turn = slot[p].turn
        /\ KeysUnique(rows[s] \cup tx.rows) /\ Answered(rows[s] \cup tx.rows)
        /\ tx.summary = {} \/ \E a \in Summary : /\ tx.summary = {a} /\ a.of = 1 .. a.covers
                                                 /\ a.covers = tx.next - 1
        /\ \/ tx.quota = -1
           \/ /\ tx.quota \in 0 .. day /\ slot[p].caller \in Guests
              /\ slot[p].tx.quota \in {-1, tx.quota}
              /\ slot[p].tx.quota = -1 => tx.quota = day

\* With one summary more one of them is the latest.
LEMMA LatestOfMore ==
    ASSUME NEW A \in SUBSET Summary, HasLatest(A), NEW a \in Summary
    PROVE  HasLatest(A \cup {a})
<1>1. CASE A = {}
  <2>1. a.version <= a.version
    BY DEF Summary
  <2> QED
    BY <1>1, <2>1 DEF HasLatest
<1>2. CASE A # {}
  <2>1. PICK b \in A : \A c \in A : c.version <= b.version
    BY <1>2 DEF HasLatest
  <2>2. \A c \in A \cup {a} : c.version \in Nat
    BY DEF Summary
  <2>3. CASE a.version <= b.version
    BY <2>1, <2>3 DEF HasLatest
  <2>4. CASE ~(a.version <= b.version)
    <3>1. \A c \in A \cup {a} : c.version <= a.version
      BY <2>1, <2>2, <2>4
    <3> QED
      BY <3>1 DEF HasLatest
  <2> QED
    BY <2>3, <2>4
<1> QED
  BY <1>1, <1>2

\* What a commit writes, session by session.
LEMMA CommitWrites ==
    ASSUME IInv, NEW p \in Slots, NEW tx, Committable(p, tx), Commit(p, tx)
    PROVE  LET s == slot[p].s
           IN  /\ rows'[s] = rows[s] \cup tx.rows /\ summaries'[s] = summaries[s] \cup tx.summary
               /\ sess'[s] = [owner |-> IF tx.new THEN slot[p].caller ELSE sess[s].owner,
                              live |-> sess[s].live \/ tx.new, next |-> tx.next]
               /\ lock'[s] = None
               /\ \A t \in Sessions : t # s =>
                    /\ rows'[t] = rows[t] /\ summaries'[t] = summaries[t] /\ sess'[t] = sess[t]
                    /\ lock'[t] = lock[t]
               /\ rows' \in [Sessions -> SUBSET Message]
               /\ summaries' \in [Sessions -> SUBSET Summary]
               /\ lock' \in [Sessions -> Slots \cup {None}]
               /\ DOMAIN sess' = Sessions /\ sess' = [t \in Sessions |-> sess'[t]]
<1> DEFINE s == slot[p].s
<1>1. s \in Sessions /\ tx.next # 0 /\ tx \in Transaction /\ lock[s] \in {None, p}
  BY DEF Committable
<1>2. /\ rows \in [Sessions -> SUBSET Message] /\ summaries \in [Sessions -> SUBSET Summary]
      /\ lock \in [Sessions -> Slots \cup {None}]
      /\ sess \in [Sessions -> [owner : Callers \cup {None}, live : BOOLEAN, next : Nat \ {0}]]
  BY DEF IInv, Types, TypeOK
<1>3. tx.rows \subseteq Message /\ tx.summary \subseteq Summary
  BY <1>1 DEF Transaction
<1>4. rows' = [rows EXCEPT ![s] = @ \cup tx.rows]
      /\ summaries' = [summaries EXCEPT ![s] = @ \cup tx.summary]
      /\ lock' = [lock EXCEPT ![s] = IF @ = p THEN None ELSE @]
  BY DEF Commit
<1>5. sess' = [sess EXCEPT ![s] = [owner |-> IF tx.new THEN slot[p].caller ELSE sess[s].owner,
                                   live |-> sess[s].live \/ tx.new, next |-> tx.next]]
  BY <1>1 DEF Commit
<1>6. /\ rows'[s] = rows[s] \cup tx.rows /\ summaries'[s] = summaries[s] \cup tx.summary
      /\ lock'[s] = None
      /\ \A t \in Sessions : t # s =>
            rows'[t] = rows[t] /\ summaries'[t] = summaries[t] /\ lock'[t] = lock[t]
  BY <1>1, <1>2, <1>4
<1>7. /\ sess'[s] = [owner |-> IF tx.new THEN slot[p].caller ELSE sess[s].owner,
                     live |-> sess[s].live \/ tx.new, next |-> tx.next]
      /\ \A t \in Sessions : t # s => sess'[t] = sess[t]
      /\ DOMAIN sess' = Sessions /\ sess' = [t \in Sessions |-> sess'[t]]
  BY <1>1, <1>2, <1>5
<1>8. rows' \in [Sessions -> SUBSET Message]
  BY <1>1, <1>2, <1>3, <1>4
<1>9. summaries' \in [Sessions -> SUBSET Summary]
  BY <1>1, <1>2, <1>3, <1>4
<1>10. lock' \in [Sessions -> Slots \cup {None}]
  BY <1>1, <1>2, <1>4
<1> QED
  BY <1>6, <1>7, <1>8, <1>9, <1>10

\* The counters after a commit.
LEMMA CommitQuotas ==
    ASSUME IInv, NEW p \in Slots, NEW tx, Committable(p, tx), Commit(p, tx), UNCHANGED Fixed,
           slot[p].pc \in {"reply", "summarize"}, NEW k \in Request, To(p, k),
           \/ k = Idle
           \/ k.caller = slot[p].caller /\ tx.quota = -1 /\ k.tx.quota = slot[p].tx.quota
    PROVE  Quotas' /\ quota' \in [Guests -> [Days -> Nat]]
<1>1. /\ slot'[p] = k /\ \A q \in Slots : q # p => slot'[q] = slot[q]
  BY SlotOf DEF IInv
<1>2. day' = day /\ day \in Nat /\ quota \in [Guests -> [Days -> Nat]]
  BY DEF Fixed, IInv, Types, TypeOK, Days
<1>3. \A g \in Guests, d \in Days : Counting(g, d)' \subseteq Counting(g, d)
  BY <1>1, <1>2 DEF Counting, Idle
<1>4. CASE tx.quota = -1
  <2>1. quota' = quota
    BY <1>4 DEF Commit
  <2> QED
    BY <1>2, <1>3, <2>1, QuotasKept
<1>5. CASE tx.quota # -1
  <2> DEFINE c == slot[p].caller
             e == tx.quota
  <2>1. /\ e \in 0 .. day /\ c \in Guests /\ slot[p].tx.quota \in {-1, e}
        /\ slot[p].tx.quota = -1 => e = day
    BY <1>5 DEF Committable
  <2>2. e \in Days /\ e \in Nat
    BY <2>1, ChatAssumption DEF IInv, Types, TypeOK, Days
  <2>3. quota' = [quota EXCEPT ![c][e] = @ + 1]
    BY <2>1, <2>2 DEF Commit
  <2>4. quota[c] \in [Days -> Nat]
    BY <1>2, <2>1
  <2>5. quota' = [quota EXCEPT ![c] = [quota[c] EXCEPT ![e] = quota[c][e] + 1]]
    BY <2>3
  <2>6. [quota[c] EXCEPT ![e] = quota[c][e] + 1] \in [Days -> Nat]
    BY <2>2, <2>4
  <2>7. quota' \in [Guests -> [Days -> Nat]]
    BY <1>2, <2>1, <2>5, <2>6
  <2>8. /\ quota'[c][e] = quota[c][e] + 1
        /\ \A d \in Days : d # e => quota'[c][d] = quota[c][d]
        /\ \A g \in Guests : g # c => quota'[g] = quota[g]
    BY <1>2, <2>1, <2>2, <2>4, <2>5
  <2>9. k = Idle
    BY <1>5
  <2>10. ASSUME NEW g \in Guests, NEW d \in Days
         PROVE  /\ quota'[g][d] + Cardinality(Counting(g, d)') <= Quota + Cardinality(Slots) - 1
                /\ day' < d => quota'[g][d] = 0
    <3>1. /\ quota[g][d] \in Nat /\ Quota \in Nat /\ d \in Nat /\ Cardinality(Slots) \in Nat
          /\ quota[g][d] + Cardinality(Counting(g, d)) <= Quota + Cardinality(Slots) - 1
          /\ day < d => quota[g][d] = 0
      BY <1>2, ChatAssumption, SlotSets DEF IInv, Quotas, Days
    <3>2. Counting(g, d) \in SUBSET Slots /\ Counting(g, d)' \in SUBSET Slots
      BY DEF Counting
    <3>3. Cardinality(Counting(g, d)) \in Nat /\ Cardinality(Counting(g, d)') \in Nat
          /\ IsFiniteSet(Counting(g, d))
      BY <3>2, SlotSets
    <3>4. CASE g = c /\ d = e
      <4>1. p \in Counting(g, d)
        BY <1>2, <2>1, <2>2, <3>4 DEF Counting
      <4>2. Counting(g, d)' \subseteq Counting(g, d) \ {p}
        BY <1>1, <1>3, <2>9 DEF Counting, Idle
      <4>3. Cardinality(Counting(g, d) \ {p}) = Cardinality(Counting(g, d)) - 1
            /\ IsFiniteSet(Counting(g, d) \ {p})
        BY <3>3, <4>1, FS_RemoveElement
      <4>4. Cardinality(Counting(g, d)') <= Cardinality(Counting(g, d)) - 1
        BY <4>2, <4>3, FS_Subset
      <4> QED
        BY <1>2, <2>1, <2>2, <2>8, <3>1, <3>3, <3>4, <4>4
    <3>5. CASE ~(g = c /\ d = e)
      <4>1. quota'[g][d] = quota[g][d]
        BY <2>8, <3>5
      <4>2. Cardinality(Counting(g, d)') <= Cardinality(Counting(g, d))
        BY <1>3, <3>3, FS_Subset
      <4> QED
        BY <1>2, <3>1, <3>3, <4>1, <4>2
    <3> QED
      BY <3>4, <3>5
  <2>11. Quotas'
    BY <2>10 DEF Quotas
  <2> QED
    BY <2>7, <2>11
<1> QED
  BY <1>4, <1>5

\* The session that a commit has written to.
LEMMA CommitStored ==
    ASSUME IInv, NEW p \in Slots, NEW tx, Committable(p, tx), Commit(p, tx), created' = created,
           NEW s, s = slot[p].s
    PROVE  Stored(s)'
<1> DEFINE new == [owner |-> IF tx.new THEN slot[p].caller ELSE sess[s].owner,
                   live |-> sess[s].live \/ tx.new, next |-> tx.next]
<1>1. /\ s \in Sessions /\ tx \in Transaction /\ tx.next # 0 /\ tx.new = slot[p].tx.new
      /\ tx.new \/ sess[s].live
      /\ Numbered(tx.rows, sess[s].next, tx.next)
      /\ KeysUnique(rows[s] \cup tx.rows) /\ Answered(rows[s] \cup tx.rows)
      /\ tx.summary = {} \/ \E a \in Summary : /\ tx.summary = {a} /\ a.of = 1 .. a.covers
                                               /\ a.covers = tx.next - 1
  BY DEF Committable
<1>2. Stored(s) /\ Written(p) /\ sess[s].next \in Nat \ {0} /\ tx.next \in Nat
      /\ summaries[s] \subseteq Summary /\ created \in Nat /\ tx.new \in BOOLEAN
  BY <1>1 DEF IInv, Types, TypeOK, Transaction
<1>3. /\ rows'[s] = rows[s] \cup tx.rows /\ summaries'[s] = summaries[s] \cup tx.summary
      /\ sess'[s] = new
  BY CommitWrites
<1>4. new.live = TRUE /\ new.next = tx.next
  BY <1>1
<1> HIDE DEF new
<1>5. sess[s].live \/ sess[s].next = 1
  BY <1>1, <1>2 DEF Written
<1>6. sess[s].next <= tx.next
  <2>1. Cardinality(tx.rows) \in Nat /\ Cardinality(tx.rows) = tx.next - sess[s].next
    BY <1>1, FS_CardinalityType DEF Numbered
  <2> QED
    BY <1>2, <2>1
<1>7. Numbered(rows'[s], 1, tx.next)
  <2>1. Numbered(rows[s], 1, sess[s].next)
    BY <1>1, <1>5, NumberedRows
  <2>2. 1 <= sess[s].next
    BY <1>2
  <2> QED
    BY <1>1, <1>2, <1>3, <1>6, <2>1, <2>2, NumberedJoin
<1>8. ~(created' < s)
  <2>1. ~(created < s)
    <3>1. slot[p].pc # "idle" /\ slot[p].pc \notin {"quota", "resolve"}
      <4>1. Stage(p) /\ 0 \notin Sessions
        BY DEF IInv, Sessions
      <4> QED
        BY <1>1, <4>1 DEF Stage, Idle
    <3>2. slot[p].pc \in {"lookup", "append", "reply", "pausing", "summarize"}
      BY <3>1 DEF IInv, Types, Request
    <3>3. s <= created
      BY <3>2, SessionOf DEF IInv
    <3> QED
      BY <1>1, <1>2, <3>3 DEF Sessions
  <2> QED
    BY <2>1
<1>9. HasLatest(summaries'[s])
  <2>1. HasLatest(summaries[s])
    BY <1>2 DEF Stored
  <2>2. CASE tx.summary = {}
    <3>1. summaries'[s] = summaries[s]
      BY <1>3, <2>2
    <3> QED
      BY <2>1, <3>1
  <2>3. CASE tx.summary # {}
    BY <1>1, <1>2, <1>3, <2>1, <2>3, LatestOfMore
  <2> QED
    BY <2>2, <2>3
<1>10. \A a \in summaries'[s] : a.of = 1 .. a.covers /\ a.covers < tx.next
  <2>1. \A a \in summaries[s] : a.of = 1 .. a.covers /\ a.covers < tx.next
    <3>1. \A a \in summaries[s] : a.covers \in Nat
      BY <1>2 DEF Summary
    <3>2. \A a \in summaries[s] : a.of = 1 .. a.covers /\ a.covers < sess[s].next
      BY <1>2 DEF Stored
    <3> QED
      BY <1>2, <1>6, <3>1, <3>2
  <2>2. \A a \in tx.summary : a.of = 1 .. a.covers /\ a.covers < tx.next
    BY <1>1, <1>2
  <2> QED
    BY <1>3, <2>1, <2>2
<1>11. KeysUnique(rows'[s]) /\ Answered(rows'[s])
  BY <1>1, <1>3
<1>12. sess'[s].live /\ sess'[s].next = tx.next
  BY <1>3, <1>4
<1> QED
  BY <1>7, <1>8, <1>9, <1>10, <1>11, <1>12 DEF Stored

\* A commit, after which the request ends or, for the guest denial on a stream, begins a second
\* transaction.
LEMMA CommitInv ==
    ASSUME IInv, NEW p \in Slots, NEW tx, Committable(p, tx), Commit(p, tx), UNCHANGED Fixed,
           slot[p].pc \in {"reply", "summarize"}, NEW k \in Request, To(p, k),
           \/ k = Idle
           \/ /\ slot[p].pc = "reply" /\ k.pc = "reply" /\ k.turn = slot[p].turn
              /\ k.caller = slot[p].caller /\ k.s = slot[p].s /\ k.route = "streamFixed"
              /\ k.tx = EmptyTx /\ tx.quota = -1
              /\ \A m \in rows[k.s] \cup tx.rows :
                    m.turn = k.turn /\ m.key # None => Followed(rows[k.s] \cup tx.rows, m)
    PROVE  IInv'
<1> DEFINE s == slot[p].s
           c == slot[p].caller
           new == [owner |-> IF tx.new THEN c ELSE sess[s].owner,
                   live |-> sess[s].live \/ tx.new, next |-> tx.next]
<1>1. /\ s \in Sessions /\ tx \in Transaction /\ tx.next # 0 /\ tx.new = slot[p].tx.new
      /\ tx.new \/ sess[s].live
      /\ lock[s] \in {None, p} /\ \A m \in tx.rows : m.turn = slot[p].turn
  BY DEF Committable
<1>2. UNCHANGED <<linked, turns, created, day>>
  BY DEF Fixed
<1>3. created \in Nat /\ turns \in Nat /\ day \in Nat
  BY DEF IInv, Types, TypeOK, Days
<1>4. /\ slot' \in [Slots -> Request] /\ slot'[p] = k
      /\ \A q \in Slots : q # p => slot'[q] = slot[q]
  BY SlotOf DEF IInv
<1>5. /\ rows'[s] = rows[s] \cup tx.rows /\ sess'[s] = new /\ lock'[s] = None
      /\ \A t \in Sessions : t # s =>
           /\ rows'[t] = rows[t] /\ summaries'[t] = summaries[t] /\ sess'[t] = sess[t]
           /\ lock'[t] = lock[t]
      /\ rows' \in [Sessions -> SUBSET Message]
      /\ summaries' \in [Sessions -> SUBSET Summary]
      /\ lock' \in [Sessions -> Slots \cup {None}]
      /\ DOMAIN sess' = Sessions /\ sess' = [t \in Sessions |-> sess'[t]]
  BY CommitWrites
<1>6. /\ EmptyTx.rows = {} /\ EmptyTx.next = 0 /\ EmptyTx.new = FALSE /\ EmptyTx.quota = -1
      /\ EmptyTx.summary = {}
      /\ Idle.pc = "idle" /\ Idle.turn = 0 /\ Idle.caller = None /\ Idle.s = 0 /\ Idle.tx = EmptyTx
  BY DEF EmptyTx, Idle
<1>7. slot[p].turn \in 1 .. turns /\ c \in Callers
  BY DEF IInv, Stage
<1>8. slot[p].tx.quota = -1 \/ slot[p].pc = "summarize"
  BY DEF IInv, Stage
<1>9. Quotas' /\ quota' \in [Guests -> [Days -> Nat]]
  <2>1. \/ k = Idle
        \/ k.caller = slot[p].caller /\ tx.quota = -1 /\ k.tx.quota = slot[p].tx.quota
    BY <1>6, <1>8
  <2> QED
    BY <2>1, CommitQuotas
<1>10. k.tx = EmptyTx /\ k.pc \in {"idle", "reply"} /\ k.s \in {0, s}
       /\ k.turn \in {0, slot[p].turn}
  BY <1>6
<1>11. Types'
  <2>1. /\ new \in [owner : Callers \cup {None}, live : BOOLEAN, next : Nat \ {0}]
        /\ new.live => new.owner \in Callers /\ new \in Session
    <3>1. tx.next \in Nat /\ tx.new \in BOOLEAN /\ sess[s].live \in BOOLEAN
          /\ sess[s].owner \in Callers \cup {None}
      BY <1>1 DEF Transaction, IInv, Types
    <3>2. sess[s].live => sess[s].owner \in Callers
      BY <1>1 DEF IInv, Types
    <3> QED
      BY <1>1, <1>7, <3>1, <3>2 DEF Session
  <2> HIDE DEF new
  <2>2. \A t \in Sessions :
          /\ sess'[t] \in [owner : Callers \cup {None}, live : BOOLEAN, next : Nat \ {0}]
          /\ sess'[t].live => sess'[t].owner \in Callers /\ sess'[t] \in Session
    BY <1>1, <1>5, <2>1 DEF IInv, Types, TypeOK
  <2>3. sess' \in [Sessions -> [owner : Callers \cup {None}, live : BOOLEAN, next : Nat \ {0}]]
    BY <1>5, <2>2
  <2>4. TypeOK'
    BY <1>2, <1>5, <1>9, <2>2 DEF IInv, Types, TypeOK
  <2> QED
    BY <1>4, <2>2, <2>3, <2>4 DEF Types
<1> HIDE DEF new
<1>12. Apart'
  <2>1. ASSUME NEW q \in Slots, NEW t \in Slots, q # t
        PROVE  /\ slot'[q].turn = slot'[t].turn => slot'[q].turn = 0
               /\ slot'[q].tx.new => slot'[t].s # slot'[q].s
    <3>1. slot[q].tx.new => slot[q].s # 0
      <4>1. Written(q) /\ 0 \notin Sessions
        BY DEF IInv, Sessions
      <4> QED
        BY <4>1 DEF Written
    <3> QED
      BY <1>4, <1>6, <1>10, <2>1, <3>1 DEF IInv, Apart
  <2>2. ASSUME NEW t \in Sessions, lock'[t] # None
        PROVE  slot'[lock'[t]].s = t /\ slot'[lock'[t]].tx.next # 0
    <3>1. t # s /\ lock'[t] = lock[t] /\ lock[t] \in Slots
      BY <1>5, <2>2 DEF IInv, Types, TypeOK
    <3>2. slot[lock[t]].s = t /\ slot[lock[t]].tx.next # 0
      BY <2>2, <3>1 DEF IInv, Apart
    <3>3. lock[t] # p
      BY <3>1, <3>2
    <3> QED
      BY <1>4, <3>1, <3>2, <3>3
  <2>3. \A t \in Sessions : \A m \in rows'[t] : m.turn <= turns'
    BY <1>1, <1>2, <1>3, <1>5, <1>7 DEF IInv, Apart
  <2> QED
    BY <2>1, <2>2, <2>3 DEF Apart
<1>13. Room'
  <2>1. Creating' \subseteq Creating
    BY <1>4, <1>10 DEF Creating
  <2> QED
    BY <1>2, <2>1, RoomKept
<1>14. ASSUME NEW t \in Sessions
       PROVE  Stored(t)'
  <2>1. CASE t = s
    BY <1>2, <2>1, CommitStored
  <2>2. CASE t # s
    BY <1>2, <1>3, <1>5, <2>2, StoredKept
  <2> QED
    BY <2>1, <2>2
<1>15. ASSUME NEW q \in Slots
       PROVE  Stage(q)' /\ Written(q)' /\ Unanswered(q)'
  <2>1. CASE q # p
    <3>1. ASSUME NEW t \in Sessions, Own(q, t)
          PROVE  t # s
      <4>1. q # None
        BY ChatAssumption
      <4> QED
        BY <1>1, <2>1, <3>1, <4>1 DEF Own, IInv, Apart
    <3>2. slot[p].turn # slot[q].turn
      BY <1>3, <1>7, <2>1 DEF IInv, Apart
    <3>3. ASSUME NEW t \in Sessions
          PROVE  rows[t] \subseteq rows'[t] /\ \A m \in rows'[t] \ rows[t] : m.turn # slot[q].turn
      BY <1>1, <1>5, <3>2
    <3> QED
      BY <1>2, <1>3, <1>4, <1>5, <2>1, <3>1, <3>3, RequestKept
  <2>2. CASE q = p
    <3>1. Stage(p) /\ Unanswered(p)
      BY DEF IInv
    <3>2. Stage(p)'
      <4>1. slot[p].s \in 1 .. created
        BY <3>1 DEF Stage
      <4>2. CASE k = Idle
        BY <1>2, <1>3, <1>4, <1>6, <4>2 DEF Stage
      <4>3. CASE k # Idle
        BY <1>2, <1>3, <1>4, <1>6, <1>7, <4>1, <4>3 DEF Stage
      <4> QED
        BY <4>2, <4>3
    <3>3. Written(p)'
      BY <1>4, <1>6, <1>10 DEF Written
    <3>4. Unanswered(p)'
      <4>1. CASE k = Idle
        <5>1. \A t \in Sessions : \A m \in rows'[t] : m.turn # 0
          BY <1>5 DEF Message, Turns
        <5> QED
          BY <1>4, <1>6, <4>1, <5>1 DEF Unanswered
      <4>2. CASE k # Idle
        <5>1. k.turn = slot[p].turn /\ k.pc = "reply" /\ k.s = s
          BY <4>2
        <5>2. ASSUME NEW t \in Sessions, NEW m \in rows'[t], m.turn = k.turn, m.key # None
              PROVE  Followed(rows'[t], m)
          <6>1. CASE t = s
            BY <1>5, <4>2, <5>1, <5>2, <6>1
          <6>2. CASE t # s
            <7>1. rows'[t] = rows[t]
              BY <1>5, <6>2
            <7> QED
              BY <3>1, <5>1, <5>2, <7>1 DEF Unanswered
          <6> QED
            BY <6>1, <6>2
        <5> QED
          BY <1>4, <5>1, <5>2 DEF Unanswered
      <4> QED
        BY <4>1, <4>2
    <3> QED
      BY <2>2, <3>2, <3>3, <3>4
  <2> QED
    BY <2>1, <2>2
<1> QED
  BY <1>9, <1>11, <1>12, <1>13, <1>14, <1>15 DEF IInv

(* Replies *)

\* The assistant's message continues the numbering, in the turn's first transaction and in the
\* second one of a denial, and answers the keyed message of the turn.
LEMMA ReplyAdded ==
    ASSUME IInv, NEW p \in Slots, slot[p].pc = "reply", LockFree(p),
           slot[p].tx.new \/ sess[slot[p].s].live
    PROVE  LET s == slot[p].s
               tx == Added(p, "assistant", None)
           IN  /\ Committable(p, tx) /\ tx.quota = -1 /\ tx.summary = {}
               /\ \A m \in rows[s] \cup tx.rows :
                     m.turn = slot[p].turn /\ m.key # None => Followed(rows[s] \cup tx.rows, m)
<1> DEFINE s == slot[p].s
           R == slot[p].tx.rows
           tx == Added(p, "assistant", None)
           x == [seq |-> NextSeq(p), role |-> "assistant", turn |-> slot[p].turn, key |-> None]
           b == NextSeq(p)
<1>1. /\ tx \in Transaction /\ tx.rows = R \cup {x} /\ x \in Message
      /\ b \in Nat \ {0} /\ tx.next = b + 1
      /\ tx.summary = {} /\ tx.quota = -1 /\ tx.new = slot[p].tx.new
  BY AddedFields
<1>2. s \in Sessions /\ lock[s] \in {None, p} /\ sess[s].next \in Nat \ {0}
  <2>1. s \in Sessions
    BY SessionOf DEF IInv
  <2> QED
    BY <2>1 DEF IInv, Types, LockFree
<1>3. Stage(p) /\ Written(p) /\ Unanswered(p) /\ Stored(s)
  BY <1>2 DEF IInv
<1>4. x.seq = b /\ x.turn = slot[p].turn /\ x.key = None
  OBVIOUS
<1>5. /\ sess[s].next <= b /\ Numbered(R, sess[s].next, b) /\ \A m \in R : m.turn = slot[p].turn
      /\ \A m \in R : m.seq + 1 = b
      /\ KeysUnique(rows[s] \cup R) /\ Answered(rows[s] \cup R)
  <2>1. CASE slot[p].tx.next = 0
    <3>1. R = {} /\ b = sess[s].next
      BY <1>3, <2>1 DEF Written, NextSeq
    <3>2. Numbered({}, b, b)
      BY <1>1, NumberedEmpty
    <3>3. KeysUnique(rows[s]) /\ Answered(rows[s]) /\ rows[s] \cup {} = rows[s]
      BY <1>3 DEF Stored
    <3> HIDE DEF R, b
    <3> QED
      BY <1>1, <3>1, <3>2, <3>3
  <2>2. CASE slot[p].tx.next # 0
    <3>1. b = slot[p].tx.next /\ b = sess[s].next + 1
      BY <1>3, <2>2 DEF Stage, NextSeq
    <3>2. /\ Numbered(R, sess[s].next, b) /\ \A m \in R : m.turn = slot[p].turn
          /\ KeysUnique(rows[s] \cup R) /\ Answered(rows[s] \cup R)
      BY <1>3, <2>2, <3>1 DEF Written
    <3>3. \A m \in R : m.seq \in sess[s].next .. sess[s].next
      <4>1. {m.seq : m \in R} = sess[s].next .. b - 1
        BY <3>2 DEF Numbered
      <4>2. b - 1 = sess[s].next
        BY <1>2, <3>1
      <4> QED
        BY <4>1, <4>2
    <3> HIDE DEF R, b
    <3> QED
      BY <1>2, <3>1, <3>2, <3>3
  <2> QED
    BY <2>1, <2>2
<1> HIDE DEF x, b, R, tx
<1>6. Numbered(R \cup {x}, sess[s].next, b + 1)
  BY <1>1, <1>2, <1>4, <1>5, NumberedAdd
<1>7. \A m \in R \cup {x} : m.turn = slot[p].turn
  BY <1>4, <1>5
<1>8. KeysUnique(rows[s] \cup (R \cup {x}))
  BY <1>4, <1>5 DEF KeysUnique
<1>9. ASSUME NEW m \in rows[s] \cup (R \cup {x}), m.turn = slot[p].turn, m.key # None
      PROVE  Followed(rows[s] \cup (R \cup {x}), m)
  <2>1. CASE m \in rows[s]
    BY <1>2, <1>3, <1>9, <2>1 DEF Unanswered, Followed
  <2>2. CASE m \in R
    BY <1>4, <1>5, <1>9, <2>2 DEF Followed
  <2>3. CASE m = x
    BY <1>4, <1>9, <2>3
  <2> QED
    BY <2>1, <2>2, <2>3
<1>10. Answered(rows[s] \cup (R \cup {x}))
  <2> SUFFICES ASSUME NEW m \in rows[s] \cup (R \cup {x}), m.key # None
               PROVE  /\ m.role = "user"
                      /\ \/ Followed(rows[s] \cup (R \cup {x}), m)
                         \/ \A n \in rows[s] \cup (R \cup {x}) : n.turn = m.turn => n = m
    BY DEF Answered
  <2>1. m \in rows[s] \cup R
    BY <1>4
  <2>2. /\ m.role = "user"
        /\ Followed(rows[s] \cup R, m) \/ \A n \in rows[s] \cup R : n.turn = m.turn => n = m
    BY <1>5, <2>1 DEF Answered
  <2>3. CASE m.turn = slot[p].turn
    BY <1>9, <2>2, <2>3
  <2>4. CASE m.turn # slot[p].turn
    BY <1>4, <2>2, <2>4 DEF Followed
  <2> QED
    BY <2>3, <2>4
<1>11. tx.next # 0 /\ tx.rows = R \cup {x}
  BY <1>1
<1>12. Committable(p, tx)
  BY <1>1, <1>2, <1>6, <1>7, <1>8, <1>10, <1>11 DEF Committable
<1> QED
  BY <1>1, <1>9, <1>12 DEF tx

\* A billed reply counts for the day on which it is stored.
LEMMA ReplyBilled ==
    ASSUME IInv, NEW p \in Slots, slot[p].pc = "reply", NEW tx, Committable(p, tx), tx.quota = -1,
           tx.summary = {}
    PROVE  LET t == RecordQuota(p, tx)
           IN  /\ Committable(p, t) /\ t.quota \in {-1, day} /\ t.rows = tx.rows
               /\ t.next = tx.next /\ t.summary = {} /\ t.new = tx.new
               /\ t.quota # -1 => slot[p].caller \in Guests
<1> DEFINE t == [tx EXCEPT !.quota = day]
<1>1. tx \in Transaction /\ day \in Nat /\ slot[p].tx.quota = -1
  BY DEF Committable, IInv, Types, TypeOK, Days, Stage
<1>2. CASE slot[p].caller \in Guests
  <2>1. RecordQuota(p, tx) = t
    BY <1>2 DEF RecordQuota
  <2>2. /\ t \in Transaction /\ t.rows = tx.rows /\ t.next = tx.next /\ t.summary = tx.summary
        /\ t.new = tx.new /\ t.quota = day
    BY <1>1 DEF Transaction
  <2> HIDE DEF t
  <2>3. Committable(p, t)
    BY <1>1, <1>2, <2>2 DEF Committable
  <2> QED
    BY <1>2, <2>1, <2>2, <2>3
<1>3. CASE slot[p].caller \notin Guests
  <2>1. RecordQuota(p, tx) = tx
    BY <1>3 DEF RecordQuota
  <2> QED
    BY <2>1
<1> QED
  BY <1>2, <1>3

\* What the summarizer is given, with the summary so far, is every message up to the turn's reply.
LEMMA SummaryMade ==
    ASSUME IInv, NEW p \in Slots, NEW tx, Committable(p, tx), tx.rows # {}
    PROVE  LET s == slot[p].s
               latest == get_latest_summary(s)
               pending == list_messages_after_seq(s, tx, latest.covers)
           IN  /\ MaxSeq(pending) = tx.next - 1 /\ tx.next - 1 \in Nat
               /\ build_summary_input(latest, pending) = 1 .. tx.next - 1
               /\ latest.version + 1 \in Nat
<1> DEFINE s == slot[p].s
           latest == get_latest_summary(s)
           all == rows[s] \cup tx.rows
           pending == list_messages_after_seq(s, tx, latest.covers)
           n == tx.next
<1>1. /\ s \in Sessions /\ tx \in Transaction /\ n # 0 /\ tx.new = slot[p].tx.new
      /\ tx.new \/ sess[s].live
      /\ Numbered(tx.rows, sess[s].next, n)
  BY DEF Committable
<1>2. Stored(s) /\ Written(p) /\ sess[s].next \in Nat \ {0} /\ n \in Nat
  BY <1>1 DEF IInv, Types, Transaction
<1>3. latest \in Summary /\ latest.of = 1 .. latest.covers /\ latest.covers < sess[s].next
  BY <1>1, LatestIsWhole DEF IInv
<1>4. latest.covers \in Nat /\ latest.version \in Nat
  BY <1>3 DEF Summary
<1>5. sess[s].next <= n - 1
  <2>1. PICK m \in tx.rows : TRUE
    OBVIOUS
  <2>2. m.seq \in sess[s].next .. n - 1
    BY <1>1 DEF Numbered
  <2> QED
    BY <1>2, <2>2
<1>6. Numbered(all, 1, n)
  <2>1. sess[s].live \/ sess[s].next = 1
    BY <1>1, <1>2 DEF Written
  <2>2. Numbered(rows[s], 1, sess[s].next)
    BY <1>1, <2>1, NumberedRows
  <2>3. 1 <= sess[s].next /\ sess[s].next <= n
    BY <1>2, <1>5
  <2> QED
    BY <1>1, <1>2, <2>2, <2>3, NumberedJoin
<1>7. pending = {m \in all : m.seq > latest.covers}
  BY DEF list_messages_after_seq
<1>8. build_summary_input(latest, pending) = latest.of \cup {m.seq : m \in pending}
  BY DEF build_summary_input
<1>9. MaxSeq(pending) = CHOOSE i \in {m.seq : m \in pending} : \A m \in pending : m.seq <= i
  BY DEF MaxSeq
<1> HIDE DEF latest, all, pending, n
<1>10. {m.seq : m \in all} = 1 .. n - 1
  BY <1>6 DEF Numbered
<1>11. {m.seq : m \in pending} = latest.covers + 1 .. n - 1
  <2>1. {m.seq : m \in pending} = {i \in {m.seq : m \in all} : i > latest.covers}
    BY <1>7
  <2>2. {i \in 1 .. n - 1 : i > latest.covers} = latest.covers + 1 .. n - 1
    BY <1>2, <1>4
  <2> QED
    BY <1>10, <2>1, <2>2
<1>12. build_summary_input(latest, pending) = 1 .. n - 1
  <2>1. 1 .. latest.covers \cup (latest.covers + 1 .. n - 1) = 1 .. n - 1
    BY <1>2, <1>3, <1>4, <1>5
  <2> QED
    BY <1>3, <1>8, <1>11, <2>1
<1>13. MaxSeq(pending) = n - 1
  <2>1. \A m \in pending : m.seq <= n - 1
    BY <1>11, <1>2, <1>4
  <2>2. n - 1 \in {m.seq : m \in pending}
    BY <1>2, <1>3, <1>4, <1>5, <1>11
  <2>3. \A i \in {m.seq : m \in pending} : (\A m \in pending : m.seq <= i) => i = n - 1
    <3> SUFFICES ASSUME NEW i \in {m.seq : m \in pending}, \A m \in pending : m.seq <= i
                 PROVE  i = n - 1
      OBVIOUS
    <3>1. n - 1 <= i
      BY <2>2
    <3>2. i <= n - 1 /\ i \in Int
      BY <1>2, <1>4, <1>11
    <3> QED
      BY <1>2, <3>1, <3>2
  <2> DEFINE Good(i) == \A m \in pending : m.seq <= i
             i == CHOOSE j \in {m.seq : m \in pending} : Good(j)
  <2>4. Good(n - 1) /\ \A j \in {m.seq : m \in pending} : Good(j) => j = n - 1
    BY <2>1, <2>3
  <2> HIDE DEF Good
  <2>5. i = n - 1
    BY <2>2, <2>4
  <2> QED
    BY <1>9, <2>5 DEF Good
<1> QED
  BY <1>2, <1>4, <1>5, <1>12, <1>13 DEF latest, pending, n, s

\* A reply is stored and the turn commits, or it waits for its summary.
LEMMA AddReplyInv ==
    ASSUME IInv, NEW p \in Slots, NEW billed \in BOOLEAN, AddReply(p, billed)
    PROVE  IInv'
<1> DEFINE s == slot[p].s
           j == slot[p]
           added == Added(p, "assistant", None)
           tx == IF billed THEN RecordQuota(p, added) ELSE added
           latest == get_latest_summary(s)
           pending == list_messages_after_seq(s, tx, latest.covers)
           sum == [version |-> latest.version + 1, covers |-> MaxSeq(pending),
                   of |-> build_summary_input(latest, pending)]
           k == [j EXCEPT !.pc = "summarize", !.tx = tx, !.route = None, !.latest = sum]
<1>1. slot[p].pc = "reply" /\ LockFree(p)
  BY DEF AddReply
<1>2. CASE ~slot[p].tx.new /\ ~sess[s].live
  <2>1. Refuse(p)
    BY <1>2 DEF AddReply
  <2> QED
    BY <2>1, RefuseInv
<1>3. CASE slot[p].tx.new \/ sess[s].live
  <2>1. Committable(p, added) /\ added.quota = -1 /\ added.summary = {}
    BY <1>1, <1>3, ReplyAdded
  <2>2. added.rows # {}
    <3> DEFINE x == [seq |-> NextSeq(p), role |-> "assistant", turn |-> slot[p].turn, key |-> None]
    <3>1. added.rows = slot[p].tx.rows \cup {x}
      BY <1>1, AddedFields
    <3> HIDE DEF x, added
    <3> QED
      BY <3>1
  <2>3. /\ Committable(p, tx) /\ tx.quota \in {-1, day} /\ tx.rows # {} /\ tx.summary = {}
        /\ tx.quota # -1 => slot[p].caller \in Guests
    <3> HIDE DEF added
    <3>1. CASE billed
      BY <1>1, <2>1, <2>2, <3>1, ReplyBilled
    <3>2. CASE ~billed
      BY <2>1, <2>2, <3>2
    <3> QED
      BY <3>1, <3>2
  <2>4. CASE billed /\ Cardinality(pending) >= Threshold
    <3>1. /\ To(p, k) /\ lock' = [lock EXCEPT ![s] = p]
          /\ UNCHANGED <<sess, rows, summaries, quota, Fixed>>
      BY <1>3, <2>4 DEF AddReply
    <3> HIDE DEF tx
    <3>2. /\ MaxSeq(pending) = tx.next - 1 /\ tx.next - 1 \in Nat
          /\ build_summary_input(latest, pending) = 1 .. tx.next - 1
          /\ latest.version + 1 \in Nat
      BY <2>3, SummaryMade
    <3>3. sum \in Summary /\ sum.of = 1 .. sum.covers /\ sum.covers = tx.next - 1
      BY <3>2 DEF Summary
    <3>4. j \in Request /\ Stage(p) /\ tx \in Transaction /\ s \in 1 .. created
      BY <1>1, <2>3 DEF IInv, Types, Committable, Stage
    <3> HIDE DEF sum, j
    <3>5. /\ k.pc = "summarize" /\ k.turn = j.turn /\ k.caller = j.caller /\ k.s = j.s
          /\ k.tx = tx /\ k.latest = sum
      BY <3>4 DEF Request
    <3>6. k \in Request
      <4> DEFINE k1 == [j EXCEPT !.pc = "summarize"]
                 k2 == [k1 EXCEPT !.tx = tx]
                 k3 == [k2 EXCEPT !.route = None]
                 k4 == [k3 EXCEPT !.latest = sum]
      <4>1. k = k4
        OBVIOUS
      <4> HIDE DEF k, k4
      <4>2. k1 \in Request
        BY <3>4 DEF Request
      <4> HIDE DEF k1
      <4>3. k2 \in Request
        BY <3>4, <4>2 DEF Request
      <4> HIDE DEF k2
      <4>4. k3 \in Request
        BY <4>3 DEF Request
      <4> HIDE DEF k3
      <4>5. k4 \in Request
        BY <3>3, <4>4 DEF Request, k4
      <4> QED
        BY <4>1, <4>5
    <3>7. slot'[p] = k /\ UNCHANGED <<turns, created, day>>
      BY <3>1, <3>6, SlotOf DEF IInv, Fixed
    <3> HIDE DEF k
    <3>8. j.turn = slot[p].turn /\ j.caller = slot[p].caller /\ j.s = s /\ j.tx = slot[p].tx
      BY DEF j
    <3>9. Stage(p)'
      <4>1. turns \in Nat /\ created \in Nat /\ day \in Nat /\ tx.next # 0
        BY <2>3 DEF IInv, Types, TypeOK, Days, Committable
      <4>2. slot[p].turn \in 1 .. turns /\ slot[p].caller \in Callers
        BY <1>1, <3>4 DEF Stage
      <4> QED
        BY <2>3, <3>3, <3>4, <3>5, <3>7, <3>8, <4>1, <4>2 DEF Stage
    <3>10. /\ k.tx.next # 0 /\ k.tx.new = slot[p].tx.new /\ (k.tx.new \/ sess[k.s].live)
           /\ Numbered(k.tx.rows, sess[k.s].next, k.tx.next)
           /\ \A m \in k.tx.rows : m.turn = k.turn
           /\ KeysUnique(rows[k.s] \cup k.tx.rows) /\ Answered(rows[k.s] \cup k.tx.rows)
           /\ k.tx.quota \in {-1, day}
      BY <2>3, <3>5, <3>8 DEF Committable
    <3>11. lock' = [lock EXCEPT ![k.s] = p]
      BY <3>1, <3>5, <3>8
    <3> QED
      BY <1>1, <3>1, <3>5, <3>6, <3>8, <3>9, <3>10, <3>11, WriteInv
  <2>5. CASE ~(billed /\ Cardinality(pending) >= Threshold)
    <3>1. To(p, Idle) /\ Commit(p, tx) /\ UNCHANGED Fixed
      BY <1>3, <2>5 DEF AddReply
    <3> HIDE DEF tx
    <3> QED
      BY <1>1, <2>3, <3>1, IdleIsRequest, CommitInv
  <2> QED
    BY <2>4, <2>5
<1> QED
  BY <1>2, <1>3

\* A stream that ends without a reply commits the user's message.
LEMMA WithoutReplyInv ==
    ASSUME IInv, NEW p \in Slots, stream_without_reply(p)
    PROVE  IInv'
<1>1. /\ slot[p].pc = "reply" /\ slot[p].route = "stream"
      /\ To(p, Idle) /\ Commit(p, slot[p].tx) /\ UNCHANGED Fixed
  BY DEF stream_without_reply
<1>2. Stage(p) /\ Written(p) /\ slot[p] \in Request
  BY DEF IInv, Types
<1>3. slot[p].tx \in Transaction
  BY <1>2 DEF Request
<1>4. slot[p].s \in Sessions
  BY <1>1, SessionOf DEF IInv
<1>5. sess[slot[p].s].next \in Nat
  BY <1>4 DEF IInv, Types
<1>6. slot[p].tx.next # 0 /\ slot[p].tx.quota = -1 /\ slot[p].tx.summary = {}
  BY <1>1, <1>2, <1>5 DEF Stage
<1>7. Committable(p, slot[p].tx)
  BY <1>2, <1>3, <1>6 DEF Written, Committable
<1> QED
  BY <1>1, <1>7, IdleIsRequest, CommitInv

\* The guest denial on a stream: the first of its two transactions, or a refusal.
LEMMA DenialInv ==
    ASSUME IInv, NEW p \in Slots, stream_guest_denial(p)
    PROVE  IInv'
<1> DEFINE j == slot[p]
           k == [j EXCEPT !.route = "streamFixed", !.tx = EmptyTx]
           tx == Added(p, "assistant", None)
<1>1. slot[p].pc = "reply" /\ slot[p].route = "streamDenied"
  BY DEF stream_guest_denial
<1>2. CASE quota[slot[p].caller][day] >= Quota
  <2>1. Refuse(p)
    BY <1>2 DEF stream_guest_denial
  <2> QED
    BY <2>1, RefuseInv
<1>3. CASE ~(quota[slot[p].caller][day] >= Quota)
  <2>1. To(p, k) /\ Commit(p, tx) /\ UNCHANGED Fixed
    BY <1>3 DEF stream_guest_denial
  <2>2. Stage(p) /\ Written(p) /\ j \in Request /\ slot[p].s \in Sessions
    BY <1>1, SessionOf DEF IInv, Types
  <2>3. sess[slot[p].s].next \in Nat
    BY <2>2 DEF IInv, Types
  <2>4. slot[p].tx.next # 0
    BY <1>1, <2>2, <2>3 DEF Stage
  <2>5. LockFree(p) /\ (slot[p].tx.new \/ sess[slot[p].s].live)
    BY <2>2, <2>4 DEF Written, LockFree
  <2>6. /\ Committable(p, tx) /\ tx.quota = -1
        /\ \A m \in rows[slot[p].s] \cup tx.rows :
              m.turn = slot[p].turn /\ m.key # None => Followed(rows[slot[p].s] \cup tx.rows, m)
    BY <1>1, <2>5, ReplyAdded
  <2> HIDE DEF tx, j
  <2>7. /\ k.pc = j.pc /\ k.turn = j.turn /\ k.caller = j.caller /\ k.s = j.s
        /\ k.route = "streamFixed" /\ k.tx = EmptyTx /\ k \in Request
    BY <2>2, IdleIsRequest DEF Request, Routes, UserRoutes
  <2> HIDE DEF k
  <2>8. k.pc = "reply" /\ k.turn = slot[p].turn /\ k.caller = slot[p].caller /\ k.s = slot[p].s
    BY <1>1, <2>7 DEF j
  <2> QED
    BY <1>1, <2>1, <2>6, <2>7, <2>8, CommitInv
<1> QED
  BY <1>2, <1>3

\* The turn commits with the summary of everything up to its reply, or with none.
LEMMA SummarizeInv ==
    ASSUME IInv, NEW p \in Slots, summarize(p)
    PROVE  IInv'
<1>1. slot[p].pc = "summarize" /\ To(p, Idle) /\ UNCHANGED Fixed
  BY DEF summarize
<1>2. PICK new \in {{}, {slot[p].latest}} : Commit(p, add_summary(p, new))
  BY DEF summarize, trigger_summarization
<1> DEFINE old == slot[p].tx
           tx == [old EXCEPT !.summary = new]
<1>3. Stage(p) /\ Written(p) /\ slot[p] \in Request
  BY DEF IInv, Types
<1>4. /\ old.next # 0 /\ slot[p].latest \in Summary
      /\ slot[p].latest.of = 1 .. slot[p].latest.covers
      /\ slot[p].latest.covers = old.next - 1
      /\ old.quota \in {-1} \cup 0 .. day
      /\ old.quota # -1 => slot[p].caller \in Guests
  BY <1>1, <1>3 DEF Stage
<1>5. old \in Transaction /\ new \subseteq Summary
  BY <1>3, <1>4 DEF Request
<1>6. /\ tx \in Transaction /\ tx.rows = old.rows /\ tx.next = old.next /\ tx.new = old.new
      /\ tx.quota = old.quota /\ tx.summary = new
  <2> HIDE DEF old
  <2> QED
    BY <1>5 DEF Transaction
<1>7. Commit(p, tx)
  BY <1>2 DEF add_summary
<1> HIDE DEF tx
<1>8. /\ old.next # 0 => slot[p].s \in Sessions /\ lock[slot[p].s] = p
      /\ old.new \/ sess[slot[p].s].live
      /\ Numbered(old.rows, sess[slot[p].s].next, old.next)
      /\ \A m \in old.rows : m.turn = slot[p].turn
      /\ KeysUnique(rows[slot[p].s] \cup old.rows) /\ Answered(rows[slot[p].s] \cup old.rows)
  BY <1>3, <1>4 DEF Written
<1>9. \/ tx.summary = {}
      \/ \E a \in Summary : /\ tx.summary = {a} /\ a.of = 1 .. a.covers
                            /\ a.covers = tx.next - 1
  BY <1>2, <1>4, <1>6
<1>10. \/ tx.quota = -1
       \/ /\ tx.quota \in 0 .. day /\ slot[p].caller \in Guests
          /\ slot[p].tx.quota \in {-1, tx.quota}
          /\ slot[p].tx.quota = -1 => tx.quota = day
  BY <1>4, <1>6
<1>11. Committable(p, tx)
  BY <1>4, <1>6, <1>8, <1>9, <1>10 DEF Committable
<1> QED
  BY <1>1, <1>7, <1>11, IdleIsRequest, CommitInv

(* The other steps *)

\* The idempotency lookup writes nothing.
LEMMA ReplayInv ==
    ASSUME IInv, NEW p \in Slots, replay(p)
    PROVE  IInv'
<1>1. CASE Refuse(p)
  BY <1>1, RefuseInv
<1>2. CASE /\ To(p, [slot[p] EXCEPT !.pc = "append"])
           /\ UNCHANGED <<sess, rows, summaries, quota, lock, Fixed>>
  <2>1. slot[p].pc = "lookup"
    BY DEF replay
  <2> DEFINE k == [slot[p] EXCEPT !.pc = "append"]
  <2>2. slot[p] \in Request /\ k \in Request /\ k.caller = slot[p].caller /\ k.tx = slot[p].tx
    BY DEF IInv, Types, Request
  <2>3. slot'[p] = k /\ \A q \in Slots : q # p => slot'[q] = slot[q]
    BY <1>2, <2>2, SlotOf DEF IInv
  <2>4. UNCHANGED <<quota, day>>
    BY <1>2 DEF Fixed
  <2> HIDE DEF k
  <2>5. \A g \in Guests, d \in Days : Counting(g, d)' \subseteq Counting(g, d)
    BY <2>1, <2>2, <2>3, <2>4 DEF Counting
  <2>6. Quotas'
    BY <2>4, <2>5, QuotasKept
  <2> QED
    BY <1>2, <2>1, <2>6, Moved
<1> QED
  BY <1>1, <1>2 DEF replay

\* A pause waits for the row its own turn has locked; before the session is committed it fails.
LEMMA PauseInv ==
    ASSUME IInv, NEW p \in Slots, pause_for_approval(p)
    PROVE  IInv'
<1>1. CASE AddReply(p, FALSE)
  BY <1>1, AddReplyInv
<1>2. CASE /\ To(p, [slot[p] EXCEPT !.pc = "pausing"])
           /\ UNCHANGED <<sess, rows, summaries, quota, lock, Fixed>>
  <2>1. slot[p].pc = "reply"
    BY DEF pause_for_approval
  <2> DEFINE k == [slot[p] EXCEPT !.pc = "pausing"]
  <2>2. slot[p] \in Request /\ k \in Request /\ k.caller = slot[p].caller /\ k.tx = slot[p].tx
    BY DEF IInv, Types, Request
  <2>3. slot'[p] = k /\ \A q \in Slots : q # p => slot'[q] = slot[q]
    BY <1>2, <2>2, SlotOf DEF IInv
  <2>4. UNCHANGED <<quota, day>>
    BY <1>2 DEF Fixed
  <2> HIDE DEF k
  <2>5. \A g \in Guests, d \in Days : Counting(g, d)' \subseteq Counting(g, d)
    BY <2>1, <2>2, <2>3, <2>4 DEF Counting
  <2>6. Quotas'
    BY <2>4, <2>5, QuotasKept
  <2> QED
    BY <1>2, <2>1, <2>6, Moved
<1> QED
  BY <1>1, <1>2 DEF pause_for_approval

\* A session created by its own request takes a number nobody has used.
LEMMA CreateSessionInv ==
    ASSUME IInv, NEW u \in Users, create_session(u)
    PROVE  IInv'
<1> DEFINE s == created + 1
           new == [owner |-> u, live |-> TRUE, next |-> 1]
<1>1. /\ MayCreate /\ created' = created + 1 /\ sess' = [sess EXCEPT ![s] = new]
      /\ UNCHANGED <<rows, summaries, quota, linked, lock, slot, turns, day>>
  BY DEF create_session
<1>2. created \in Nat /\ MaxSessions \in Nat /\ turns \in Nat /\ day \in Nat
  BY ChatAssumption DEF IInv, Types, TypeOK, Days
<1>3. Creating' = Creating /\ Creating \in SUBSET Slots
  BY <1>1 DEF Creating
<1>4. created + Cardinality(Creating) < MaxSessions /\ Cardinality(Creating) \in Nat
  BY <1>1, <1>3, SlotSets DEF MayCreate, Creating
<1>5. Room'
  BY <1>1, <1>2, <1>3, <1>4 DEF Room
<1>6. s \in Sessions /\ created' \in Nat /\ created' <= MaxSessions /\ created <= created'
  BY <1>1, <1>2, <1>4 DEF Sessions
<1>7. /\ new.owner = u /\ new.live = TRUE /\ new.next = 1 /\ u \in Callers
      /\ new \in [owner : Callers \cup {None}, live : BOOLEAN, next : Nat \ {0}] /\ new \in Session
  BY DEF Callers, Session
<1> HIDE DEF new
<1>8. sess'[s] = new /\ \A t \in Sessions : t # s => sess'[t] = sess[t]
  BY <1>1, <1>6 DEF IInv, Types
<1>9. Types'
  <2>1. sess' \in [Sessions -> [owner : Callers \cup {None}, live : BOOLEAN, next : Nat \ {0}]]
    BY <1>1, <1>6, <1>7 DEF IInv, Types
  <2>2. \A t \in Sessions : sess'[t].live => sess'[t].owner \in Callers /\ sess'[t] \in Session
    BY <1>7, <1>8 DEF IInv, Types, TypeOK
  <2>3. TypeOK'
    BY <1>1, <1>2, <1>6, <2>2 DEF IInv, Types, TypeOK
  <2> QED
    BY <1>1, <2>1, <2>2, <2>3 DEF IInv, Types
<1>10. Apart'
  BY <1>1 DEF IInv, Apart
<1>11. Quotas'
  <2>1. \A g \in Guests, d \in Days : Counting(g, d)' = Counting(g, d)
    BY <1>1 DEF Counting
  <2> QED
    BY <1>1, <2>1, QuotasKept
<1>12. ASSUME NEW t \in Sessions
       PROVE  Stored(t)'
  <2>1. CASE t = s
    <3>1. Stored(t)
      BY DEF IInv
    <3>2. rows[t] = {} /\ summaries[t] = {}
      BY <1>2, <2>1, <3>1 DEF Stored
    <3>3. Numbered({}, 1, 1)
      BY NumberedEmpty
    <3>4. /\ rows'[t] = {} /\ summaries'[t] = {} /\ sess'[t].live /\ sess'[t].next = 1
          /\ ~(created' < t)
      BY <1>1, <1>2, <1>7, <1>8, <2>1, <3>2
    <3> QED
      BY <3>3, <3>4 DEF Stored, HasLatest, KeysUnique, Answered
  <2>2. CASE t # s
    BY <1>1, <1>6, <1>8, <2>2, StoredKept
  <2> QED
    BY <2>1, <2>2
<1>13. ASSUME NEW q \in Slots
       PROVE  Stage(q)' /\ Written(q)' /\ Unanswered(q)'
  <2>1. slot[q].s # s
    <3>1. Stage(q) /\ slot[q] \in Request
      BY DEF IInv, Types
    <3>2. slot[q].pc \in {"idle", "quota", "resolve"} => slot[q].s = 0
      BY <3>1 DEF Stage, Idle
    <3>3. slot[q].pc \notin {"idle", "quota", "resolve"} => slot[q].s \in 1 .. created
      BY <3>1 DEF Stage, Request
    <3> QED
      BY <1>2, <3>2, <3>3
  <2>2. ASSUME NEW t \in Sessions, Own(q, t)
        PROVE  t # s
    <3>1. q # None
      BY ChatAssumption
    <3> QED
      BY <2>1, <2>2, <3>1 DEF Own, IInv, Apart
  <2> QED
    BY <1>1, <1>2, <1>6, <1>8, <2>2, RequestKept
<1> QED
  BY <1>5, <1>9, <1>10, <1>11, <1>12, <1>13 DEF IInv

\* A deleted session takes its rows with it, and no transaction is writing to it.
LEMMA DeleteInv ==
    ASSUME IInv, NEW u \in Users, NEW s \in Sessions, delete_session(u, s)
    PROVE  IInv'
<1>1. /\ sess[s].live /\ s <= created /\ lock[s] = None
      /\ sess' = [sess EXCEPT ![s].live = FALSE]
      /\ rows' = [rows EXCEPT ![s] = {}] /\ summaries' = [summaries EXCEPT ![s] = {}]
      /\ UNCHANGED <<quota, linked, lock, slot, turns, created, day>>
  BY DEF delete_session, get_owned_session
<1>2. created \in Nat /\ turns \in Nat /\ day \in Nat /\ s \in Nat
  BY DEF IInv, Types, TypeOK, Days, Sessions
<1>3. /\ sess'[s] = [sess[s] EXCEPT !.live = FALSE] /\ rows'[s] = {} /\ summaries'[s] = {}
      /\ \A t \in Sessions : t # s =>
            sess'[t] = sess[t] /\ rows'[t] = rows[t] /\ summaries'[t] = summaries[t]
  BY <1>1 DEF IInv, Types, TypeOK
<1> DEFINE o == sess[s]
<1>4. o \in [owner : Callers \cup {None}, live : BOOLEAN, next : Nat \ {0}]
  BY DEF IInv, Types
<1>5. /\ [o EXCEPT !.live = FALSE].live = FALSE
      /\ [o EXCEPT !.live = FALSE] \in [owner : Callers \cup {None}, live : BOOLEAN, next : Nat \ {0}]
  <2> HIDE DEF o
  <2> QED
    BY <1>4
<1>6. Types'
  <2>1. sess' \in [Sessions -> [owner : Callers \cup {None}, live : BOOLEAN, next : Nat \ {0}]]
    <3>1. sess' = [sess EXCEPT ![s] = [o EXCEPT !.live = FALSE]]
      BY <1>1
    <3> QED
      BY <1>5, <3>1 DEF IInv, Types
  <2>2. \A t \in Sessions : sess'[t].live => sess'[t].owner \in Callers /\ sess'[t] \in Session
    BY <1>3, <1>5 DEF IInv, Types, TypeOK
  <2>3. rows' \in [Sessions -> SUBSET Message] /\ summaries' \in [Sessions -> SUBSET Summary]
    BY <1>1 DEF IInv, Types, TypeOK
  <2>4. TypeOK'
    BY <1>1, <2>2, <2>3 DEF IInv, Types, TypeOK
  <2> QED
    BY <1>1, <2>1, <2>2, <2>4 DEF IInv, Types
<1>7. Apart'
  <2>1. \A t \in Sessions : \A m \in rows'[t] : m.turn <= turns'
    BY <1>1, <1>3 DEF IInv, Apart
  <2> QED
    BY <1>1, <2>1 DEF IInv, Apart
<1>8. Quotas'
  <2>1. \A g \in Guests, d \in Days : Counting(g, d)' = Counting(g, d)
    BY <1>1 DEF Counting
  <2> QED
    BY <1>1, <2>1, QuotasKept
<1>9. Room'
  BY <1>1, RoomKept DEF Creating
<1>10. ASSUME NEW t \in Sessions
       PROVE  Stored(t)'
  <2>1. CASE t = s
    <3>1. ~sess'[t].live /\ rows'[t] = {} /\ summaries'[t] = {} /\ ~(created' < t)
      BY <1>1, <1>2, <1>3, <1>5, <2>1
    <3> QED
      BY <3>1 DEF Stored, HasLatest, KeysUnique, Answered
  <2>2. CASE t # s
    BY <1>1, <1>2, <1>3, <2>2, StoredKept
  <2> QED
    BY <2>1, <2>2
<1>11. ASSUME NEW q \in Slots
       PROVE  Stage(q)' /\ Written(q)' /\ Unanswered(q)'
  <2>1. ASSUME NEW t \in Sessions, Own(q, t)
        PROVE  t # s
    <3>1. q # None /\ Written(q)
      BY ChatAssumption DEF IInv
    <3> QED
      BY <1>1, <2>1, <3>1 DEF Own, Written
  <2> QED
    BY <1>1, <1>2, <1>3, <2>1, RequestKept
<1> QED
  BY <1>6, <1>7, <1>8, <1>9, <1>10, <1>11 DEF IInv

\* Clearing the summaries leaves the messages to stand for themselves.
LEMMA ClearInv ==
    ASSUME IInv, NEW u \in Users, NEW s \in Sessions, clear_summary(u, s)
    PROVE  IInv'
<1>1. /\ summaries' = [summaries EXCEPT ![s] = {}]
      /\ UNCHANGED <<sess, rows, quota, linked, lock, slot, turns, created, day>>
  BY DEF clear_summary
<1>2. created \in Nat /\ turns \in Nat /\ day \in Nat
  BY DEF IInv, Types, TypeOK, Days
<1>3. summaries'[s] = {} /\ \A t \in Sessions : t # s => summaries'[t] = summaries[t]
  BY <1>1 DEF IInv, Types, TypeOK
<1>4. Types'
  BY <1>1 DEF IInv, Types, TypeOK
<1>5. Apart'
  BY <1>1 DEF IInv, Apart
<1>6. Quotas'
  <2>1. \A g \in Guests, d \in Days : Counting(g, d)' = Counting(g, d)
    BY <1>1 DEF Counting
  <2> QED
    BY <1>1, <2>1, QuotasKept
<1>7. Room'
  BY <1>1, RoomKept DEF Creating
<1>8. ASSUME NEW t \in Sessions
      PROVE  Stored(t)'
  <2>1. CASE t = s
    <3>1. Stored(t)
      BY DEF IInv
    <3> QED
      BY <1>1, <1>3, <2>1, <3>1 DEF Stored, HasLatest
  <2>2. CASE t # s
    BY <1>1, <1>2, <1>3, <2>2, StoredKept
  <2> QED
    BY <2>1, <2>2
<1>9. ASSUME NEW q \in Slots
      PROVE  Stage(q)' /\ Written(q)' /\ Unanswered(q)'
  BY <1>1, <1>2, RequestKept
<1> QED
  BY <1>4, <1>5, <1>6, <1>7, <1>8, <1>9 DEF IInv

\* A guest who signs in keeps the stored rows as they are.
LEMMA LinkInv ==
    ASSUME IInv, NEW g \in Guests, NEW u \in Users, link_to_user(g, u)
    PROVE  IInv'
<1>1. /\ linked' = [linked EXCEPT ![g] = u]
      /\ UNCHANGED <<sess, rows, summaries, quota, lock, slot, turns, created, day>>
  BY DEF link_to_user
<1>2. created \in Nat /\ turns \in Nat /\ day \in Nat
  BY DEF IInv, Types, TypeOK, Days
<1>3. Types'
  BY <1>1 DEF IInv, Types, TypeOK
<1>4. Apart'
  BY <1>1 DEF IInv, Apart
<1>5. Quotas'
  <2>1. \A h \in Guests, d \in Days : Counting(h, d)' = Counting(h, d)
    BY <1>1 DEF Counting
  <2> QED
    BY <1>1, <2>1, QuotasKept
<1>6. Room'
  BY <1>1, RoomKept DEF Creating
<1>7. ASSUME NEW t \in Sessions
      PROVE  Stored(t)'
  BY <1>1, <1>2, StoredKept
<1>8. ASSUME NEW q \in Slots
      PROVE  Stage(q)' /\ Written(q)' /\ Unanswered(q)'
  BY <1>1, <1>2, RequestKept
<1> QED
  BY <1>3, <1>4, <1>5, <1>6, <1>7, <1>8 DEF IInv

\* After midnight the turns in flight count for the new day, unless they have recorded the old one.
LEMMA MidnightInv ==
    ASSUME IInv, midnight
    PROVE  IInv'
<1>1. /\ day < MaxDay /\ day' = day + 1
      /\ UNCHANGED <<sess, rows, summaries, quota, linked, lock, slot, turns, created>>
  BY DEF midnight
<1>2. created \in Nat /\ turns \in Nat /\ day \in Nat /\ MaxDay \in Nat /\ day' \in Nat /\ day <= day'
  BY <1>1, ChatAssumption DEF IInv, Types, TypeOK, Days
<1>3. Types'
  BY <1>1, <1>2 DEF IInv, Types, TypeOK, Days
<1>4. Apart'
  BY <1>1 DEF IInv, Apart
<1>5. Quotas'
  <2> SUFFICES ASSUME NEW g \in Guests, NEW d \in Days
               PROVE  /\ quota'[g][d] + Cardinality(Counting(g, d)') <= Quota + Cardinality(Slots) - 1
                      /\ day' < d => quota'[g][d] = 0
    BY DEF Quotas
  <2>1. /\ quota[g][d] \in Nat /\ Quota \in Nat /\ d \in Nat /\ Cardinality(Slots) \in Nat
        /\ quota[g][d] + Cardinality(Counting(g, d)) <= Quota + Cardinality(Slots) - 1
        /\ day < d => quota[g][d] = 0
    BY ChatAssumption, SlotSets DEF IInv, Types, TypeOK, Quotas, Days
  <2>2. Counting(g, d)' \subseteq Counting(g, d)
    BY <1>1, <1>2, <2>1 DEF Counting
  <2>3. Counting(g, d) \in SUBSET Slots /\ Counting(g, d)' \in SUBSET Slots
    BY <2>2 DEF Counting
  <2>4. /\ Cardinality(Counting(g, d)) \in Nat /\ Cardinality(Counting(g, d)') \in Nat
        /\ IsFiniteSet(Counting(g, d))
    BY <2>3, SlotSets
  <2>5. Cardinality(Counting(g, d)') <= Cardinality(Counting(g, d))
    BY <2>2, <2>4, FS_Subset
  <2> QED
    BY <1>1, <1>2, <2>1, <2>4, <2>5
<1>6. Room'
  BY <1>1, RoomKept DEF Creating
<1>7. ASSUME NEW t \in Sessions
      PROVE  Stored(t)'
  BY <1>1, <1>2, StoredKept
<1>8. ASSUME NEW q \in Slots
      PROVE  Stage(q)' /\ Written(q)' /\ Unanswered(q)'
  BY <1>1, <1>2, RequestKept
<1> QED
  BY <1>3, <1>4, <1>5, <1>6, <1>7, <1>8 DEF IInv

(* The theorems *)

\* Every step keeps the invariant.
LEMMA NextInv == IInv /\ [Next]_vars => IInv'
<1> SUFFICES ASSUME IInv, [Next]_vars PROVE IInv'
  OBVIOUS
<1>1. CASE UNCHANGED vars
  <2>1. UNCHANGED <<sess, rows, summaries, quota, linked, lock, slot, turns, created, day>>
    BY <1>1 DEF vars
  <2>2. created \in Nat /\ turns \in Nat /\ day \in Nat
    BY DEF IInv, Types, TypeOK, Days
  <2>3. Types' /\ Apart'
    BY <2>1 DEF IInv, Types, TypeOK, Apart
  <2>4. Quotas' /\ Room'
    <3>1. \A g \in Guests, d \in Days : Counting(g, d)' = Counting(g, d)
      BY <2>1 DEF Counting
    <3> QED
      BY <2>1, <3>1, QuotasKept, RoomKept DEF Creating
  <2>5. \A s \in Sessions : Stored(s)'
    BY <2>1, <2>2, StoredKept
  <2>6. \A q \in Slots : Stage(q)' /\ Written(q)' /\ Unanswered(q)'
    BY <2>1, <2>2, RequestKept
  <2> QED
    BY <2>3, <2>4, <2>5, <2>6 DEF IInv
<1>2. ASSUME NEW p \in Slots, accept(p) PROVE IInv'
  BY <1>2, AcceptInv
<1>3. ASSUME NEW p \in Slots, Step(p) PROVE IInv'
  <2>1. ASSUME NEW b \in BOOLEAN, AddReply(p, b) PROVE IInv'
    BY <2>1, AddReplyInv
  <2>2. CASE complete_chat(p) \/ tool_complete_chat(p) \/ agent_complete_chat(p)
    BY <2>1, <2>2 DEF complete_chat, tool_complete_chat, agent_complete_chat
  <2>3. CASE stream_chat(p) \/ stream_provider_answer(p) \/ stream_agent_chat(p)
    BY <2>1, <2>3 DEF stream_chat, stream_provider_answer, stream_agent_chat
  <2>4. CASE guest_denial_response(p) \/ empty_corpus_response(p) \/ stream_static_content(p)
    BY <2>1, <2>4 DEF guest_denial_response, empty_corpus_response, stream_static_content
  <2> QED
    BY <1>3, <2>2, <2>3, <2>4, CheckQuotaInv, ResolveInv, ReplayInv, AppendInv, DenialInv,
       SummarizeInv DEF Step
<1>4. ASSUME NEW p \in Slots, stream_without_reply(p) \/ pause_for_approval(p) PROVE IInv'
  BY <1>4, WithoutReplyInv, PauseInv
<1>5. ASSUME NEW p \in Slots, abort(p) PROVE IInv'
  BY <1>5, RefuseInv DEF abort
<1>6. ASSUME NEW u \in Users, create_session(u) PROVE IInv'
  BY <1>6, CreateSessionInv
<1>7. ASSUME NEW u \in Users, NEW s \in Sessions, delete_session(u, s) \/ clear_summary(u, s)
      PROVE  IInv'
  BY <1>7, DeleteInv, ClearInv
<1>8. ASSUME NEW u \in Users, NEW g \in Guests, link_to_user(g, u) PROVE IInv'
  BY <1>8, LinkInv
<1>9. CASE midnight
  BY <1>9, MidnightInv
<1> QED
  BY <1>1, <1>2, <1>3, <1>4, <1>5, <1>6, <1>7, <1>8, <1>9 DEF Next

\* The invariant holds in every reachable state.
LEMMA Always == Spec => []IInv
BY InitInv, NextInv, PTL DEF Spec

\* The stored messages of a session are numbered 1, 2, ..., n without a gap or a collision and
\* next_seq is n + 1 (allocate_seq), whatever turns run at once, roll back or are cut off.
THEOREM SeqsAreGapFree == Spec => []SeqsGapFree
<1>1. IInv => SeqsGapFree
  <2> SUFFICES ASSUME IInv PROVE SeqsGapFree
    OBVIOUS
  <2>1. ASSUME NEW s \in Sessions, sess[s].live
        PROVE  /\ {m.seq : m \in rows[s]} = 1 .. sess[s].next - 1
               /\ Cardinality(rows[s]) = sess[s].next - 1
    BY <2>1 DEF IInv, Stored, Numbered
  <2> QED
    BY <2>1 DEF SeqsGapFree, IInv, Types
<1> QED
  BY <1>1, Always, PTL

\* A client key is stored once per session and the message after a keyed one, by which complete_chat
\* and prepare_stream answer a retry, is the turn's own once the turn has a reply.
THEOREM RetryIsAnswered == Spec => []RetryFindsItsAnswer
<1>1. IInv => RetryFindsItsAnswer
  <2> SUFFICES ASSUME IInv, NEW s \in Sessions, NEW m \in rows[s], NEW n \in rows[s]
               PROVE  /\ m.key = n.key /\ m.key # None => m = n
                      /\ m.key # None /\ n.role = "assistant" /\ n.turn = m.turn
                            => \A r \in get_message_by_seq(s, m.seq + 1) : r.turn = m.turn
    BY DEF RetryFindsItsAnswer
  <2>1. m.key = n.key /\ m.key # None => m = n
    BY DEF IInv, Stored, KeysUnique
  <2>2. ASSUME m.key # None, n.role = "assistant", n.turn = m.turn,
               NEW r \in get_message_by_seq(s, m.seq + 1)
        PROVE  r.turn = m.turn
    <3>1. r \in rows[s] /\ r.seq = m.seq + 1
      BY <2>2 DEF get_message_by_seq
    <3>2. Followed(rows[s], m)
      BY <2>2 DEF IInv, Stored, Answered
    <3>3. Numbered(rows[s], 1, sess[s].next)
      BY DEF IInv, Stored
    <3> QED
      BY <3>1, <3>2, <3>3 DEF Followed, Numbered
  <2> QED
    BY <2>1, <2>2
<1> QED
  BY <1>1, Always, PTL

\* The counter of a guest's day exceeds the quota by less than the number of requests served at
\* once, although QuotaService.check reads it when a turn begins and record adds when it ends.
THEOREM OverrunIsBounded == Spec => []QuotaOverrunBounded
<1>1. IInv => QuotaOverrunBounded
  <2> SUFFICES ASSUME IInv, NEW g \in Guests, NEW d \in Days
               PROVE  quota[g][d] <= Quota + Cardinality(Slots) - 1
    BY DEF QuotaOverrunBounded
  <2>1. Counting(g, d) \in SUBSET Slots /\ quota[g][d] \in Nat /\ Quota \in Nat
    BY ChatAssumption DEF Counting, IInv, Types, TypeOK
  <2>2. Cardinality(Counting(g, d)) \in Nat /\ Cardinality(Slots) \in Nat
    BY <2>1, SlotSets
  <2> QED
    BY <2>1, <2>2 DEF IInv, Quotas
<1> QED
  BY <1>1, Always, PTL

\* The summary and the messages after it stand for the whole conversation, in what the next turn
\* will read and in what each turn asks the model with (assemble_context_messages).
THEOREM ContextAlwaysWhole == Spec => []ContextIsWhole
BY Always, ContextInv, PTL
=============================================================================
