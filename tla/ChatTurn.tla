------------------------------ MODULE ChatTurn ------------------------------
(***************************************************************************)
(* Chat turns and their persistence: ChatService (complete_chat,           *)
(* prepare_stream, stream_chat), UnifiedChatService, ToolChatService, the  *)
(* two agent adapters, SqlChatStore, the guest quota and the chat router's *)
(* request-scoped transaction.                                             *)
(*                                                                         *)
(* A request runs in one database transaction (READ COMMITTED) that the    *)
(* router commits when the response has been sent and rolls back when an   *)
(* exception leaves the handler. What the transaction has written is in    *)
(* slot[p].tx until then. allocate_seq takes the row lock of the chat      *)
(* session, which the transaction keeps until it ends.                     *)
(***************************************************************************)
EXTENDS Integers, FiniteSets

CONSTANTS
    Users,         \* authenticated callers
    Guests,        \* guest identities
    Slots,         \* requests served at the same time
    MaxTurns,      \* bound: turns submitted in all
    MaxSessions,   \* bound: chat sessions created in all
    MaxDay,        \* bound: UTC days that begin
    Keys,          \* client_message_id values
    Quota,         \* settings.guest_daily_message_quota
    Threshold,     \* settings.summary_trigger_message_count
    None

ASSUME ChatAssumption ==
    /\ {MaxTurns, MaxSessions, MaxDay, Quota, Threshold} \subseteq Nat
    /\ None \notin Users \cup Guests \cup Slots \cup Keys
    /\ IsFiniteSet(Slots) /\ Slots # {}

VARIABLES
    sess,       \* chat_sessions rows, by order of creation
    rows,       \* committed chat_messages of each session
    summaries,  \* committed session_summaries of each session
    quota,      \* guest_quota_counters, by guest and day
    linked,     \* guest_identities.linked_user_id
    lock,       \* holder of each session's row lock
    slot,       \* the requests in flight
    turns,      \* turns submitted so far
    created,    \* sessions created so far, committed or not
    day         \* the current UTC window

vars == <<sess, rows, summaries, quota, linked, lock, slot, turns, created, day>>

Callers == Users \cup Guests
Sessions == 1 .. MaxSessions
Turns == 1 .. MaxTurns
Days == 0 .. MaxDay

\* The ways a turn is served. "complete": ChatService.complete_chat, ToolChatService or
\* ChatAgentAdapter; "stream": stream_chat, the unified and the agent's stream; "fixed": a canned
\* answer without a stream (empty corpus, guest denial); "streamFixed": a canned answer on a
\* prepared stream; "streamDenied": the guest denial on one. Guests use no tools or documents.
GuestRoutes == {"complete", "stream", "fixed", "streamDenied"}
UserRoutes == {"complete", "stream", "fixed", "streamFixed"}
Routes == GuestRoutes \cup UserRoutes
Streaming == {"stream", "streamFixed", "streamDenied"}

\* Titles, contents, message status, sources and token counts are left out.
Session == [owner: Callers, live: BOOLEAN, next: Nat]
Message == [seq: Nat, role: {"user", "assistant"}, turn: Turns, key: Keys \cup {None}]
\* of: the messages whose content went into the summary, directly or through the one before it.
Summary == [version: Nat, covers: Nat, of: SUBSET Nat]

\* What a transaction has written and not committed. next = 0: no seq allocated.
EmptyTx == [rows |-> {}, next |-> 0, summary |-> {}, quota |-> -1, new |-> FALSE]
Idle == [pc |-> "idle", turn |-> 0, caller |-> None, route |-> None, key |-> None, want |-> 0,
         s |-> 0, latest |-> None, tx |-> EmptyTx]
-----------------------------------------------------------------------------
(* What a request reads: committed rows and its own. *)

\* SqlChatStore.get_owned_session: the caller's session, or one of a guest linked to the user.
get_owned_session(c, s) ==
    /\ s <= created /\ sess[s].live
    /\ \/ sess[s].owner = c
       \/ sess[s].owner \in Guests /\ c \in Users /\ linked[sess[s].owner] = c

\* SqlChatStore.get_default_guest_session: the guest's earliest committed session; 0 is none.
get_default_guest_session(g) ==
    LET mine == {s \in Sessions : s <= created /\ sess[s].live /\ sess[s].owner = g}
    IN  IF mine = {} THEN 0 ELSE CHOOSE s \in mine : \A t \in mine : s <= t

\* SqlChatStore.list_messages_after_seq, in a transaction that has written tx.
list_messages_after_seq(s, tx, covered) == {m \in rows[s] \cup tx.rows : m.seq > covered}

\* SqlChatStore.list_messages: what the transcript shows, in the order of seq.
list_messages(s) == {m.seq : m \in rows[s]}

\* SqlChatStore.get_latest_summary, from committed rows; version 0 is none.
get_latest_summary(s) ==
    IF summaries[s] = {} THEN [version |-> 0, covers |-> 0, of |-> {}]
    ELSE CHOOSE a \in summaries[s] : \A b \in summaries[s] : b.version <= a.version

\* SqlChatStore.find_by_client_message_id and get_message_by_seq, on committed rows.
find_by_client_message_id(s, k) == {m \in rows[s] : m.key = k /\ k # None}
get_message_by_seq(s, n) == {m \in rows[s] : m.seq = n}

\* assemble_context_messages: the messages the model sees, by seq; those up to covers only through
\* the summary.
assemble_context_messages(s, tx) ==
    LET latest == get_latest_summary(s)
    IN  latest.of \cup {m.seq : m \in list_messages_after_seq(s, tx, latest.covers)}

\* ConversationSummaryService.resolve_persisted_context: what the next turn will read.
resolve_persisted_context(s) == assemble_context_messages(s, EmptyTx)

\* ChatService._resolve_llm_messages, with MEMORY_ENABLED: what the turn of p asks the model with.
resolve_llm_messages(p) == assemble_context_messages(slot[p].s, slot[p].tx)

MaxSeq(S) == CHOOSE n \in {m.seq : m \in S} : \A m \in S : m.seq <= n
-----------------------------------------------------------------------------
(* What a request writes: into its transaction. *)

To(p, r) == slot' = [slot EXCEPT ![p] = r]

\* Faulty: the row lock is not awaited.
LockFree_Missing(p) == TRUE

\* SqlChatStore.allocate_seq: SELECT next_seq ... FOR UPDATE waits for the row lock, then takes
\* the next number; the lock stays until the transaction ends.
LockFree(p) == lock[slot[p].s] \in {None, p}
NextSeq(p) == IF slot[p].tx.next # 0 THEN slot[p].tx.next ELSE sess[slot[p].s].next

\* allocate_seq followed by add_message.
Added(p, role, key) ==
    LET n == NextSeq(p)
    IN  [slot[p].tx EXCEPT !.rows = @ \cup {[seq |-> n, role |-> role, turn |-> slot[p].turn,
                                             key |-> key]},
                           !.next = n + 1]

\* QuotaService.record: the counter of the day on which the reply is stored.
RecordQuota(p, tx) ==
    IF slot[p].caller \in Guests THEN [tx EXCEPT !.quota = day] ELSE tx

\* Faulty: the answer is sent and the transaction's lock is kept.
Commit_KeepsLock(p, tx) ==
    LET s == slot[p].s
    IN  /\ rows' = [rows EXCEPT ![s] = @ \cup tx.rows]
        /\ summaries' = [summaries EXCEPT ![s] = @ \cup tx.summary]
        /\ sess' = [sess EXCEPT ![s] = [owner |-> IF tx.new THEN slot[p].caller ELSE @.owner,
                                        live  |-> @.live \/ tx.new, next |-> tx.next]]
        /\ UNCHANGED <<quota, lock>>

\* The end of a transaction that commits: its rows become visible and its lock is free.
Commit(p, tx) ==
    LET s == slot[p].s
    IN  /\ rows' = [rows EXCEPT ![s] = @ \cup tx.rows]
        /\ summaries' = [summaries EXCEPT ![s] = @ \cup tx.summary]
        /\ sess' = [sess EXCEPT ![s] =
                       [owner |-> IF tx.new THEN slot[p].caller ELSE @.owner,
                        live  |-> @.live \/ tx.new,
                        next  |-> IF tx.next # 0 THEN tx.next ELSE @.next]]
        /\ quota' = IF tx.quota < 0 THEN quota
                    ELSE [quota EXCEPT ![slot[p].caller][tx.quota] = @ + 1]
        /\ lock' = [lock EXCEPT ![s] = IF @ = p THEN None ELSE @]

\* The end of a transaction that rolls back, or that has nothing to commit.
Rollback(p) ==
    /\ lock' = [t \in Sessions |-> IF lock[t] = p THEN None ELSE lock[t]]
    /\ UNCHANGED <<sess, rows, summaries, quota>>

Fixed == <<linked, turns, created, day>>
Refuse(p) == To(p, Idle) /\ Rollback(p) /\ UNCHANGED Fixed
-----------------------------------------------------------------------------
(* The turn, step by step. *)

\* Bound: a session number is left for every turn that may still create a session.
MayCreate ==
    created + Cardinality({p \in Slots : slot[p].pc \in {"quota", "resolve"} /\ slot[p].want = 0})
        < MaxSessions

\* A request arrives: create_chat or create_chat_stream. Guests may not use tools or documents.
accept(p) ==
    /\ slot[p].pc = "idle" /\ turns < MaxTurns
    /\ \E c \in Callers, k \in Keys \cup {None}, w \in 0 .. created :
         \E r \in IF c \in Guests THEN GuestRoutes ELSE UserRoutes :
            /\ w # 0 \/ MayCreate
            /\ To(p, [Idle EXCEPT !.pc = "quota", !.turn = turns + 1, !.caller = c, !.route = r,
                                  !.key = k, !.want = w])
    /\ turns' = turns + 1
    /\ UNCHANGED <<sess, rows, summaries, quota, linked, lock, created, day>>

\* ChatService._maybe_check_quota: QuotaService.check reads the committed counter.
check_quota(p) ==
    /\ slot[p].pc = "quota"
    /\ LET c == slot[p].caller
       IN  IF c \in Guests /\ quota[c][day] >= Quota THEN Refuse(p)
           ELSE /\ To(p, [slot[p] EXCEPT !.pc = "resolve"])
                /\ UNCHANGED <<sess, rows, summaries, quota, lock, Fixed>>

\* ChatService._resolve_session. A created row is the transaction's own until it commits.
resolve_session(p) ==
    /\ slot[p].pc = "resolve"
    /\ LET c == slot[p].caller
           w == slot[p].want
           default == IF c \in Guests THEN get_default_guest_session(c) ELSE 0
           use(s) == /\ To(p, [slot[p] EXCEPT !.pc = "lookup", !.s = s, !.want = 0])
                     /\ UNCHANGED <<sess, rows, summaries, quota, lock, Fixed>>
       IN  \/ /\ w # 0 /\ get_owned_session(c, w) /\ default \in {0, w}
              /\ use(w)
           \/ /\ w # 0 /\ ~(get_owned_session(c, w) /\ default \in {0, w})
              /\ Refuse(p)
           \/ w = 0 /\ default # 0 /\ use(default)
           \/ /\ w = 0 /\ default = 0
              /\ created' = created + 1
              /\ To(p, [slot[p] EXCEPT !.pc = "lookup", !.s = created + 1, !.tx.new = TRUE])
              /\ UNCHANGED <<sess, rows, summaries, quota, linked, lock, turns, day>>

\* The idempotency lookup of complete_chat and prepare_stream: a stored key is answered with the
\* message that follows it. Without one, prepare_stream answers with nothing and the
\* non-streaming services go on. The canned answers look nothing up.
replay(p) ==
    /\ slot[p].pc = "lookup"
    /\ LET prior == IF slot[p].route = "fixed" THEN {}
                    ELSE find_by_client_message_id(slot[p].s, slot[p].key)
           reply == UNION {get_message_by_seq(slot[p].s, m.seq + 1) : m \in prior}
       IN  IF prior # {} /\ (reply # {} \/ slot[p].route \in Streaming)
           THEN /\ Refuse(p)
           ELSE /\ To(p, [slot[p] EXCEPT !.pc = "append"])
                /\ UNCHANGED <<sess, rows, summaries, quota, lock, Fixed>>

\* The transaction of p with the user's message, waiting for the model.
Asked(p, tx) == To(p, [slot[p] EXCEPT !.pc = "reply", !.key = None, !.tx = tx])

\* Faulty: the user's message is committed, and the lock released, before the model is called.
append_user_Committed(p) ==
    /\ slot[p].pc = "append" /\ LockFree(p)
    /\ IF \/ ~slot[p].tx.new /\ ~sess[slot[p].s].live
          \/ find_by_client_message_id(slot[p].s, slot[p].key) # {}
       THEN Refuse(p)
       ELSE /\ Asked(p, EmptyTx)
            /\ Commit(p, Added(p, "user", slot[p].key))
            /\ UNCHANGED Fixed

\* allocate_seq and add_message for the user's message. A deleted session raises; a key stored in
\* the meantime breaks the unique index and the turn ends with database_error.
append_user(p) ==
    /\ slot[p].pc = "append" /\ LockFree(p)
    /\ LET s == slot[p].s
       IN  IF \/ ~slot[p].tx.new /\ ~sess[s].live
              \/ find_by_client_message_id(s, slot[p].key) # {}
           THEN Refuse(p)
           ELSE /\ Asked(p, Added(p, "user", slot[p].key))
                /\ lock' = [lock EXCEPT ![s] = p]
                /\ UNCHANGED <<sess, rows, summaries, quota, Fixed>>

\* Faulty: the summary so far is left out of the summarizer's input.
build_summary_input_Forgets(latest, pending) == {m.seq : m \in pending}

\* ChatService._build_summary_input: the summary so far and the messages it does not cover.
build_summary_input(latest, pending) == latest.of \cup {m.seq : m \in pending}

\* The assistant's message goes into the transaction. A billed one records the quota, and
\* _maybe_summarize reads what is pending; otherwise, and when too little is pending, the turn
\* commits: in ChatService._commit, or in the router once the response is sent.
AddReply(p, billed) ==
    /\ slot[p].pc = "reply" /\ LockFree(p)
    /\ LET s == slot[p].s
           added == Added(p, "assistant", None)
           tx == IF billed THEN RecordQuota(p, added) ELSE added
           latest == get_latest_summary(s)
           pending == list_messages_after_seq(s, tx, latest.covers)
       IN  IF ~slot[p].tx.new /\ ~sess[s].live THEN Refuse(p)
           ELSE IF billed /\ Cardinality(pending) >= Threshold
           THEN /\ To(p, [slot[p] EXCEPT !.pc = "summarize", !.tx = tx, !.route = None,
                            !.latest = [version |-> latest.version + 1,
                                        covers |-> MaxSeq(pending),
                                        of |-> build_summary_input(latest, pending)]])
                /\ lock' = [lock EXCEPT ![s] = p]
                /\ UNCHANGED <<sess, rows, summaries, quota, Fixed>>
           ELSE To(p, Idle) /\ Commit(p, tx) /\ UNCHANGED Fixed

\* ChatService.complete_chat: the model answers, or it fails, times out or answers with nothing and
\* an error row is stored without quota.
complete_chat(p) == slot[p].route = "complete" /\ \E ok \in BOOLEAN : AddReply(p, ok)

\* ToolChatService.complete_chat: the tool loop in place of the model; for users only.
tool_complete_chat(p) == slot[p].caller \in Users /\ complete_chat(p)

\* ChatAgentAdapter.complete_chat: the agent's run in place of the model; for users only.
agent_complete_chat(p) == slot[p].caller \in Users /\ complete_chat(p)

\* ChatService.stream_chat: the answer is complete, fails, or the client goes away, which
\* is_disconnected() sees before the next chunk; the partial answer is stored without quota.
stream_chat(p) == slot[p].route = "stream" /\ \E ok \in BOOLEAN : AddReply(p, ok)

\* UnifiedChatService._stream_provider_answer: the same after retrieval and the tool loop.
stream_provider_answer(p) == slot[p].caller \in Users /\ stream_chat(p)

\* stream_agent_chat: the same over the agent's events.
stream_agent_chat(p) == slot[p].caller \in Users /\ stream_chat(p)

\* The response is cancelled while it waits for a chunk, or stream_execute fails outside
\* _stream_provider_answer: no reply is stored and the router commits the user's message alone.
stream_without_reply(p) ==
    /\ slot[p].pc = "reply" /\ slot[p].route = "stream"
    /\ To(p, Idle) /\ Commit(p, slot[p].tx) /\ UNCHANGED Fixed

\* A canned answer without a stream records no quota: _guest_denial_response for guests and
\* _empty_corpus_response for users.
guest_denial_response(p) ==
    slot[p].route = "fixed" /\ slot[p].caller \in Guests /\ AddReply(p, FALSE)
empty_corpus_response(p) ==
    slot[p].route = "fixed" /\ slot[p].caller \in Users /\ AddReply(p, FALSE)

\* UnifiedChatService._stream_static_content: a canned answer on a stream is billed.
stream_static_content(p) == slot[p].route = "streamFixed" /\ AddReply(p, TRUE)

\* Faulty: the denial is billed when it is stored the first time too.
stream_guest_denial_BilledTwice(p) ==
    /\ slot[p].pc = "reply" /\ slot[p].route = "streamDenied"
    /\ IF quota[slot[p].caller][day] >= Quota THEN Refuse(p)
       ELSE /\ To(p, [slot[p] EXCEPT !.route = "streamFixed", !.tx = EmptyTx])
            /\ Commit(p, RecordQuota(p, Added(p, "assistant", None)))
            /\ UNCHANGED Fixed

\* UnifiedChatService._stream_guest_denial: the quota is checked a second time, the denial is
\* stored and committed, and _stream_static_content then stores it once more in a transaction of
\* its own.
stream_guest_denial(p) ==
    /\ slot[p].pc = "reply" /\ slot[p].route = "streamDenied"
    /\ IF quota[slot[p].caller][day] >= Quota THEN Refuse(p)
       ELSE /\ To(p, [slot[p] EXCEPT !.route = "streamFixed", !.tx = EmptyTx])
            /\ Commit(p, Added(p, "assistant", None))
            /\ UNCHANGED Fixed

\* AgentApprovalService.pause, on the request's second database session: its insert references the
\* chat session's row and needs a lock on it that the turn's own transaction holds, and keeps until
\* the insert returns. A session that is not committed yet fails the foreign key, which ends the
\* agent's run.
pause_for_approval(p) ==
    /\ slot[p].pc = "reply" /\ slot[p].route \in {"complete", "stream"}
    /\ slot[p].caller \in Users
    /\ \/ slot[p].tx.new /\ AddReply(p, FALSE)
       \/ /\ ~slot[p].tx.new /\ To(p, [slot[p] EXCEPT !.pc = "pausing"])
          /\ UNCHANGED <<sess, rows, summaries, quota, lock, Fixed>>

\* ChatService._trigger_summarization is best-effort: the summary that add_summary stores, or none
\* when the call or the store fails.
trigger_summarization(p) == {{}, {slot[p].latest}}

\* The row with the next version, in the transaction of the turn; the empty set adds none.
add_summary(p, new) == [slot[p].tx EXCEPT !.summary = new]

\* The model's summary arrives and add_summary stores it, or the call fails and none is stored;
\* the turn commits.
summarize(p) ==
    /\ slot[p].pc = "summarize"
    /\ To(p, Idle)
    /\ \E new \in trigger_summarization(p) : Commit(p, add_summary(p, new))
    /\ UNCHANGED Fixed

\* An exception leaves the handler, or the process dies: the transaction rolls back.
abort(p) ==
    /\ slot[p].pc \in {"lookup", "append", "reply", "pausing", "summarize"}
    /\ Refuse(p)
-----------------------------------------------------------------------------
(* Requests of one transaction each. *)

\* ChatService.create_session, for users only.
create_session(u) ==
    /\ MayCreate /\ turns = 0   \* bound: before the first turn
    /\ created' = created + 1
    /\ sess' = [sess EXCEPT ![created + 1] = [owner |-> u, live |-> TRUE, next |-> 1]]
    /\ UNCHANGED <<rows, summaries, quota, linked, lock, slot, turns, day>>

\* ChatService.delete_session: the DELETE waits for the row lock and cascades.
delete_session(u, s) ==
    /\ get_owned_session(u, s) /\ lock[s] = None
    /\ sess' = [sess EXCEPT ![s].live = FALSE]
    /\ rows' = [rows EXCEPT ![s] = {}]
    /\ summaries' = [summaries EXCEPT ![s] = {}]
    /\ UNCHANGED <<quota, linked, lock, slot, turns, created, day>>

\* ConversationSummaryService.clear_summary: takes no lock on the session.
clear_summary(u, s) ==
    /\ get_owned_session(u, s) /\ summaries[s] # {}
    /\ summaries' = [summaries EXCEPT ![s] = {}]
    /\ UNCHANGED <<sess, rows, quota, linked, lock, slot, turns, created, day>>

\* SqlGuestStore.link_to_user, when the guest signs in.
link_to_user(g, u) ==
    /\ linked[g] = None /\ \E s \in Sessions : sess[s].live /\ sess[s].owner = g   \* bound: with something to inherit
    /\ linked' = [linked EXCEPT ![g] = u]
    /\ UNCHANGED <<sess, rows, summaries, quota, lock, slot, turns, created, day>>

\* Midnight UTC: _utc_window names another counter. Bound: only those midnights that fall into a
\* guest's turn are taken.
midnight ==
    /\ day < MaxDay /\ \E p \in Slots : slot[p].caller \in Guests
    /\ day' = day + 1
    /\ UNCHANGED <<sess, rows, summaries, quota, linked, lock, slot, turns, created>>
-----------------------------------------------------------------------------
Init ==
    /\ sess = [s \in Sessions |-> [owner |-> None, live |-> FALSE, next |-> 1]]
    /\ rows = [s \in Sessions |-> {}]
    /\ summaries = [s \in Sessions |-> {}]
    /\ quota = [g \in Guests |-> [d \in Days |-> 0]]
    /\ linked = [g \in Guests |-> None]
    /\ lock = [s \in Sessions |-> None]
    /\ slot = [p \in Slots |-> Idle]
    /\ turns = 0 /\ created = 0 /\ day = 0

Step(p) ==
    \/ check_quota(p) \/ resolve_session(p) \/ replay(p) \/ append_user(p)
    \/ complete_chat(p) \/ tool_complete_chat(p) \/ agent_complete_chat(p)
    \/ stream_chat(p) \/ stream_provider_answer(p) \/ stream_agent_chat(p)
    \/ guest_denial_response(p) \/ empty_corpus_response(p) \/ stream_static_content(p)
    \/ stream_guest_denial(p) \/ summarize(p)

Next ==
    \/ \E p \in Slots : \/ accept(p) \/ Step(p)
                        \/ stream_without_reply(p) \/ pause_for_approval(p) \/ abort(p)
    \/ \E u \in Users : \/ create_session(u)
                        \/ \E s \in Sessions : delete_session(u, s) \/ clear_summary(u, s)
                        \/ \E g \in Guests : link_to_user(g, u)
    \/ midnight

Spec == Init /\ [][Next]_vars

\* The event loop and the database run every request that can go on; callers need not come.
FairSpec == Spec /\ \A p \in Slots : WF_vars(Step(p))
-----------------------------------------------------------------------------
(* Properties. *)

TypeOK ==
    /\ rows \in [Sessions -> SUBSET Message]
    /\ summaries \in [Sessions -> SUBSET Summary]
    /\ quota \in [Guests -> [Days -> Nat]]
    /\ linked \in [Guests -> Users \cup {None}]
    /\ lock \in [Sessions -> Slots \cup {None}]
    /\ turns \in 0 .. MaxTurns /\ created \in 0 .. MaxSessions /\ day \in Days
    /\ \A s \in Sessions : sess[s].live => sess[s] \in Session

\* Rows keep their types, and the stored messages of a session are numbered 1, 2, ..., n without a gap or a collision and
\* next_seq is n + 1, whatever turns, rollbacks, cancelled streams and retries came before
\* (allocate_seq promises "gap-free").
SeqsGapFree ==
    /\ TypeOK
    /\ \A s \in Sessions : sess[s].live =>
        /\ {m.seq : m \in rows[s]} = 1 .. sess[s].next - 1
        /\ Cardinality(rows[s]) = sess[s].next - 1

\* A client key is stored once per session, although the lookup that answers a retry reads before
\* the lock and two requests with one key can both miss; and whenever the repeated turn has stored
\* a reply, the message at seq + 1 that answers a retry is the turn's own.
RetryFindsItsAnswer ==
    \A s \in Sessions : \A m, n \in rows[s] :
        /\ m.key = n.key /\ m.key # None => m = n
        /\ m.key # None /\ n.role = "assistant" /\ n.turn = m.turn
               => \A r \in get_message_by_seq(s, m.seq + 1) : r.turn = m.turn

\* The quota is checked when a turn begins and recorded when it ends, so turns in flight together
\* pass the same check, over midnight too: the counter of a day exceeds the quota by less than the
\* number of requests served at once.
QuotaOverrunBounded ==
    \A g \in Guests, d \in Days : quota[g][d] <= Quota + Cardinality(Slots) - 1

\* The model's context is the whole conversation: with MEMORY_ENABLED the summary and the messages
\* after covers_through_seq stand for every stored message and the turn's own, although summaries
\* are cleared while turns run, turns roll back and two turns may read the same summary.
ContextIsWhole ==
    /\ \A s \in Sessions : resolve_persisted_context(s) = list_messages(s)
    /\ \A p \in Slots : slot[p].pc \in {"reply", "pausing"} =>
         resolve_llm_messages(p)
             = list_messages(slot[p].s) \cup {m.seq : m \in slot[p].tx.rows}

\* Every turn ends: no request waits for a session's row lock for ever, unless it waits behind a
\* turn that pauses for an approval, which never gets the row it has locked itself.
EveryTurnEnds ==
    \A p \in Slots : slot[p].pc # "idle" ~>
        slot[p].pc = "idle" \/ \E q \in Slots : slot[q].pc = "pausing"
=============================================================================
