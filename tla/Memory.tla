---- MODULE Memory ----
(***************************************************************************)
(* Durable memories of one user: extraction after a chat turn, the         *)
(* lifecycle pass that consolidates duplicates, archives and expires them, *)
(* deletion by the user, and retrieval into the prompt.                    *)
(*                                                                         *)
(* Extraction and passes are fire-and-forget tasks of the process, each    *)
(* with a transaction of its own at READ COMMITTED: a write waits for the  *)
(* transaction that has written the row and then overwrites what it left.  *)
(* Similarity above the threshold is abstracted to equality of contents.   *)
(***************************************************************************)
EXTENDS Integers, FiniteSets

CONSTANTS
    Turns,        \* chat turns whose messages are mined for memories
    Contents,     \* what a memory says, numbered in the order of the scores
    UserOnly,     \* bound: contents that are never extracted as a project's
    Sessions,     \* chat sessions; a project is a session
    Places,       \* positions in the order of similar records, and in that of created_at
    Limit,        \* the default limit of list_records and list_active_records
    MaxAttempts,  \* _MAX_PERSIST_ATTEMPTS
    MaxCrashes    \* bound: deaths of the process

ASSUME BoundsAssumption ==
    /\ Contents \subseteq Nat /\ Places \subseteq Nat
    /\ MaxAttempts \in Nat \ {0} /\ MaxCrashes \in Nat /\ Limit \in Nat \ {0}

\* A record is named by the turn it was extracted from and what it says.
Records == Turns \X Contents

VARIABLES
    session,    \* the session of each turn
    place,      \* where each record stands among those that say the same
    created,    \* created_at of each record, by the clock of the process that extracts it
    row,        \* committed lifecycle state of each record, or "absent"
    kind,       \* memory_type of each record
    pend,       \* what each transaction has written and not committed
    turn,       \* the extraction of each turn
    pass,       \* the lifecycle pass scheduled by it
    del,        \* the user's request to delete a record
    disturbed,  \* history: a pass has failed or the process has died
    missed,     \* history: records that the limit kept from a pass
    crashes

memoryVars == <<session, place, created, row, kind, pend, turn, pass, del, disturbed, missed, crashes>>

LifecycleState == {"created", "active", "consolidated", "archived", "deleted"}

VALID_TRANSITIONS == [s \in LifecycleState |->
    CASE s = "created"      -> {"active", "deleted"}
      [] s = "active"       -> {"consolidated", "archived", "deleted"}
      [] s = "consolidated" -> {"archived", "deleted"}
      [] s = "archived"     -> {"deleted"}
      [] s = "deleted"      -> {}]

Turn == {"turn"} \X Turns
Pass == {"pass"} \X Turns
Actors == Turn \cup Pass \cup {<<"delete", "user">>}
Deleter == <<"delete", "user">>

NoWrites == [r \in Records |-> "none"]
NoPass   == [pc |-> "none", todo |-> {}, at |-> {}]

MemoryInit ==
    /\ session \in [Turns -> Sessions]
    /\ place \in { p \in [Records -> Places] : \A r, q \in Records : r # q /\ r[2] = q[2] => p[r] # p[q] }
    /\ created \in { f \in [Records -> Places] : \A r, q \in Records : r # q => f[r] # f[q] }
    /\ row = [r \in Records |-> "absent"]
    /\ kind = [r \in Records |-> "none"]
    /\ pend = [a \in Actors |-> NoWrites]
    /\ turn = [t \in Turns |-> [pc |-> "idle", todo |-> {}, tries |-> 0]]
    /\ pass = [t \in Turns |-> NoPass]
    /\ del = [pc |-> "idle", rec |-> {}]
    /\ disturbed = FALSE /\ missed = {} /\ crashes = 0

-----------------------------------------------------------------------------
(* The provider *)

\* A statement of a transaction sees its own writes and what is committed.
Seen(a, r) == IF pend[a][r] # "none" THEN pend[a][r] ELSE row[r]

Stored(a) == { r \in Records : Seen(a, r) # "absent" }

\* A write waits for the other transactions that have written the row.
Free(a, r) == \A b \in Actors \ {a} : pend[b][r] = "none"

Write(a, r, state) == pend' = [pend EXCEPT ![a][r] = state]

Commit(a) ==
    /\ row' = [r \in Records |-> Seen(a, r)]
    /\ pend' = [pend EXCEPT ![a] = NoWrites]

Rollback(a) == pend' = [pend EXCEPT ![a] = NoWrites]

\* What the given session's statements range over: the user's own memories and
\* those of the project.
InScope(r, s) == kind[r] = "user" \/ (kind[r] = "project" /\ session[r[1]] = s)

\* ORDER BY created_at DESC LIMIT: no caller asks for more than the default.
Newest(found) == { r \in found : Cardinality({ q \in found : created[r] < created[q] }) < Limit }

\* list_active_records as it is called: with a session id, which only project
\* memories carry.
list_active_records(a, s) ==
    Newest({ r \in Stored(a) : /\ Seen(a, r) \notin {"deleted", "archived"}
                               /\ kind[r] = "project" /\ session[r[1]] = s })

\* What list_records finds before its limit.
Found(a, type, s, states) ==
    { r \in Stored(a) : kind[r] = type /\ InScope(r, s) /\ Seen(a, r) \in states }

list_records(a, type, s, states) == Newest(Found(a, type, s, states))

Manageable == LifecycleState \ {"deleted"}

\* Faulty: one query with the session id, which the user's memories do not carry.
_load_manageable_records_Session(a, s) == list_records(a, "project", s, Manageable)

\* _load_manageable_records: archived ones count towards the limit as well.
_load_manageable_records(a, s) ==
    list_records(a, "user", s, Manageable) \cup list_records(a, "project", s, Manageable)

_load_archived_records(a, s) ==
    list_records(a, "user", s, {"archived"}) \cup list_records(a, "project", s, {"archived"})

\* The records that are too old for a pass to be shown.
BeyondLimit(a, s) ==
    UNION { Found(a, type, s, Manageable) \ list_records(a, type, s, Manageable) :
               type \in {"user", "project"} }

-----------------------------------------------------------------------------
(* Extraction *)

\* extract_candidates and filter_preliminary: any memories of either kind, or
\* none when the model fails, the scores are low or the embedding fails.
extract_candidates(t) ==
    /\ turn[t].pc = "idle"
    /\ \E cands \in [Contents -> {"none", "user", "project"}] :
          /\ \A c \in UserOnly : cands[c] # "project"
          /\ LET found == { c \in Contents : cands[c] # "none" }
             IN  /\ kind' = [r \in Records |-> IF r[1] = t THEN cands[r[2]] ELSE kind[r]]
                 /\ turn' = [turn EXCEPT ![t].pc = IF found = {} THEN "done" ELSE "filtered",
                                         ![t].todo = found]
    /\ UNCHANGED <<session, place, created, row, pend, pass, del, disturbed, missed, crashes>>

_load_existing_records(t) == list_active_records(<<"turn", t>>, session[t])

\* dedupe_by_embedding: against what is stored, in a transaction of its own.
dedupe_by_embedding(t) ==
    /\ turn[t].pc = "filtered"
    /\ LET approved == turn[t].todo \ { r[2] : r \in _load_existing_records(t) }
       IN  turn' = [turn EXCEPT ![t].pc = IF approved = {} THEN "done" ELSE "persisting",
                                ![t].todo = approved]
    /\ UNCHANGED <<session, place, created, row, kind, pend, pass, del, disturbed, missed, crashes>>

\* Candidates are taken in order.
next_candidate(todo) == { c \in todo : \A d \in todo : c <= d }

\* activate_record, in the same transaction.
activate_record(state) == IF "active" \in VALID_TRANSITIONS[state] THEN "active" ELSE state

\* _persist_candidate: create_record, the event, and the activation.
_persist_candidate(t) ==
    /\ turn[t].pc = "persisting"
    /\ \E c \in next_candidate(turn[t].todo) :
          /\ Write(<<"turn", t>>, <<t, c>>, activate_record("created"))
          /\ turn' = [turn EXCEPT ![t].todo = @ \ {c}, ![t].tries = 0]
    /\ UNCHANGED <<session, place, created, row, kind, pass, del, disturbed, missed, crashes>>

\* The flush fails: the session is rolled back, with every candidate flushed
\* before; the candidate is tried once more, then given up.
create_record_fails(t) ==
    /\ turn[t].pc = "persisting"
    /\ \E c \in next_candidate(turn[t].todo) :
          LET giveup == turn[t].tries + 1 >= MaxAttempts
          IN  turn' = [turn EXCEPT ![t].todo = IF giveup THEN @ \ {c} ELSE @,
                                   ![t].tries = IF giveup THEN 0 ELSE @ + 1]
    /\ Rollback(<<"turn", t>>)
    /\ UNCHANGED <<session, place, created, row, kind, pass, del, disturbed, missed, crashes>>

\* _persist_approved_candidates: the commit, then the lifecycle pass.
_persist_approved_candidates(t) ==
    /\ turn[t].pc = "persisting" /\ turn[t].todo = {}
    /\ Commit(<<"turn", t>>)
    /\ turn' = [turn EXCEPT ![t].pc = "done"]
    /\ pass' = [pass EXCEPT ![t].pc = "scheduled"]
    /\ UNCHANGED <<session, place, created, kind, del, disturbed, missed, crashes>>

\* Any other exception: rolled back and logged, and no pass.
_run_extraction_pipeline_fails(t) ==
    /\ turn[t].pc \in {"filtered", "persisting"}
    /\ Rollback(<<"turn", t>>)
    /\ turn' = [turn EXCEPT ![t].pc = "done"]
    /\ UNCHANGED <<session, place, created, row, kind, pass, del, disturbed, missed, crashes>>

-----------------------------------------------------------------------------
(* The lifecycle pass *)

\* The order of find_consolidation_groups: by scores, then by id.
Better(r, q) == place[r] < place[q]

\* Faulty: the pass prefers what was extracted in its own turn.
redundant_Newest(t) ==
    LET seen == { r \in _load_manageable_records(<<"pass", t>>, session[t]) :
                     Seen(<<"pass", t>>, r) \in {"created", "active"} }
    IN  { r \in seen : \E q \in seen : q[2] = r[2] /\ q[1] = t /\ r[1] # t }

\* The members of a cluster that are not its winner.
redundant(t) ==
    LET seen == { r \in _load_manageable_records(<<"pass", t>>, session[t]) :
                     Seen(<<"pass", t>>, r) \in {"created", "active"} }
    IN  { r \in seen : \E q \in seen : q[2] = r[2] /\ Better(q, r) }

\* process_owner_memories starts with the duplicates.
_run_consolidation(t) ==
    /\ pass[t].pc = "scheduled"
    /\ pass' = [pass EXCEPT ![t].pc = "consolidated", ![t].todo = redundant(t)]
    /\ missed' = missed \cup BeyondLimit(<<"pass", t>>, session[t])
    /\ UNCHANGED <<session, place, created, row, kind, pend, turn, del, disturbed, crashes>>

Idle(t) == pass[t].todo = {} /\ pass[t].at = {}

\* The records are read again; what is consolidated is archived.
_run_archival(t) ==
    /\ pass[t].pc = "consolidated" /\ Idle(t)
    /\ pass' = [pass EXCEPT ![t].pc = "archived",
          ![t].todo = { r \in _load_manageable_records(<<"pass", t>>, session[t]) :
                           Seen(<<"pass", t>>, r) = "consolidated" }]
    /\ UNCHANGED <<session, place, created, row, kind, pend, turn, del, disturbed, missed, crashes>>

\* Archived records whose retention has passed, which none of this pass's has.
_run_retention_deletion(t) ==
    /\ pass[t].pc = "archived" /\ Idle(t)
    /\ \E expired \in SUBSET { r \in _load_archived_records(<<"pass", t>>, session[t]) :
                                  row[r] = "archived" } :
          pass' = [pass EXCEPT ![t].pc = "deleted", ![t].todo = expired]
    /\ UNCHANGED <<session, place, created, row, kind, pend, turn, del, disturbed, missed, crashes>>

\* update_lifecycle_state, in the order of the records, reads the row and
\* validates; an illegal transition is skipped.
validate_transition(t) ==
    /\ pass[t].at = {}
    /\ \E r \in { r \in pass[t].todo : \A q \in pass[t].todo : r[2] <= q[2] } :
          pass' = [pass EXCEPT ![t].todo = @ \ {r},
                    ![t].at = IF pass[t].pc \in VALID_TRANSITIONS[Seen(<<"pass", t>>, r)]
                              THEN {r} ELSE {}]
    /\ UNCHANGED <<session, place, created, row, kind, pend, turn, del, disturbed, missed, crashes>>

\* The flush waits for the row and writes the new state, whatever it holds now.
update_lifecycle_state(t) ==
    /\ \E r \in pass[t].at : Free(<<"pass", t>>, r) /\ Write(<<"pass", t>>, r, pass[t].pc)
    /\ pass' = [pass EXCEPT ![t].at = {}]
    /\ UNCHANGED <<session, place, created, row, kind, turn, del, disturbed, missed, crashes>>

commit_pass(t) ==
    /\ pass[t].pc = "deleted" /\ Idle(t)
    /\ Commit(<<"pass", t>>)
    /\ pass' = [pass EXCEPT ![t] = [NoPass EXCEPT !.pc = "done"]]
    /\ UNCHANGED <<session, place, created, kind, turn, del, disturbed, missed, crashes>>

\* An exception ends the pass.  process_owner_memories swallows it, so that what
\* was flushed is committed, unless it has broken the transaction.
pass_fails(t) ==
    /\ pass[t].pc \in {"consolidated", "archived", "deleted"}
    /\ Commit(<<"pass", t>>) \/ (Rollback(<<"pass", t>>) /\ UNCHANGED row)
    /\ pass' = [pass EXCEPT ![t] = [NoPass EXCEPT !.pc = "done"]]
    /\ disturbed' = TRUE
    /\ UNCHANGED <<session, place, created, kind, turn, del, missed, crashes>>

-----------------------------------------------------------------------------
(* Requests of the user *)

\* delete_record: not found, and already deleted, end here.
delete_record ==
    /\ del.pc = "idle"
    /\ \E r \in Records : /\ row[r] \notin {"absent", "deleted"}
                          /\ del' = [pc |-> "read", rec |-> {r}]
    /\ UNCHANGED <<session, place, created, row, kind, pend, turn, pass, disturbed, missed, crashes>>

transition_record ==
    /\ del.pc = "read"
    /\ \E r \in del.rec : Free(Deleter, r) /\ Write(Deleter, r, "deleted")
    /\ del' = [del EXCEPT !.pc = "written"]
    /\ UNCHANGED <<session, place, created, row, kind, turn, pass, disturbed, missed, crashes>>

commit_delete ==
    /\ del.pc = "written"
    /\ Commit(Deleter)
    /\ del' = [del EXCEPT !.pc = "done"]
    /\ UNCHANGED <<session, place, created, kind, turn, pass, disturbed, missed, crashes>>

-----------------------------------------------------------------------------
(* Retrieval *)

\* search_records: what is neither deleted nor archived.
search_records(s, type) ==
    { r \in Records : /\ row[r] \notin {"absent", "deleted", "archived"}
                      /\ kind[r] = type /\ InScope(r, s) }

\* A search that fails finds nothing.
_search_domain(s, type) == {search_records(s, type), {}}

\* _score_and_filter: what may be shown; scores were high enough when stored.
_score_and_filter(found) == { r \in found : row[r] \in {"created", "active", "consolidated"} }

\* _deduplicate: the best of each content, within one kind.
_deduplicate(found) == { r \in found : ~ \E q \in found : q[2] = r[2] /\ Better(q, r) }

\* What may be retrieved: the user's own memories, and the project's in a session
\* the user owns; nothing when the query has no embedding.
retrieve(s, owned) ==
    LET shown(found) == _deduplicate(_score_and_filter(found))
    IN  { shown(u) \cup shown(p) : u \in _search_domain(s, "user"),
                                   p \in IF owned THEN _search_domain(s, "project") ELSE {{}} }

\* The session is the one the turn was resolved to, so the user owns it.
retrieve_context(s) == retrieve(s, TRUE)

\* What a turn of the session puts before its messages: a retrieval or a
\* rendering that fails leaves them as they are.
_apply_memory_context(s) == retrieve_context(s) \cup {{}}

-----------------------------------------------------------------------------
\* The process dies: its tasks and open transactions are gone.
crash ==
    /\ crashes < MaxCrashes
    /\ crashes' = crashes + 1 /\ disturbed' = TRUE
    /\ pend' = [a \in Actors |-> NoWrites]
    /\ turn' = [t \in Turns |-> IF turn[t].pc = "idle" THEN turn[t]
                                ELSE [pc |-> "done", todo |-> {}, tries |-> 0]]
    /\ pass' = [t \in Turns |-> IF pass[t].pc = "none" THEN NoPass
                                ELSE [NoPass EXCEPT !.pc = "done"]]
    /\ del' = IF del.pc \in {"read", "written"} THEN [del EXCEPT !.pc = "done"] ELSE del
    /\ UNCHANGED <<session, place, created, row, kind, missed>>

Extraction(t) ==
    \/ dedupe_by_embedding(t) \/ _persist_candidate(t) \/ create_record_fails(t)
    \/ _persist_approved_candidates(t) \/ _run_extraction_pipeline_fails(t)

process_owner_memories(t) ==
    \/ _run_consolidation(t) \/ _run_archival(t) \/ _run_retention_deletion(t)
    \/ validate_transition(t) \/ update_lifecycle_state(t) \/ commit_pass(t)

Delete == delete_record \/ transition_record \/ commit_delete

MemoryNext ==
    \/ \E t \in Turns : extract_candidates(t) \/ Extraction(t)
                           \/ process_owner_memories(t) \/ pass_fails(t)
    \/ Delete
    \/ crash

MemorySpec == MemoryInit /\ [][MemoryNext]_memoryVars

\* A task once scheduled runs on; a transaction that has written is ended.
MemoryFairness ==
    /\ \A t \in Turns : WF_memoryVars(process_owner_memories(t)) /\ WF_memoryVars(Extraction(t))
    /\ WF_memoryVars(transition_record \/ commit_delete)

MemoryFairSpec == MemorySpec /\ MemoryFairness

-----------------------------------------------------------------------------
(* Properties *)

\* Every write is of a record that has a state to write, and to a state.
MemoryTypeOK ==
    /\ row \in [Records -> LifecycleState \cup {"absent"}]
    /\ kind \in [Records -> {"none", "user", "project"}]
    /\ pend \in [Actors -> [Records -> LifecycleState \cup {"none"}]]
    /\ \A t \in Turns : pass[t].todo \subseteq Records /\ pass[t].at \subseteq Records

\* States keep their types, and what was once learned is not forgotten by housekeeping: overlapping passes,
\* failed ones and crashes leave every content that was stored, and of which the
\* user has deleted nothing, in the context of some session.
KeepsOne ==
    /\ MemoryTypeOK
    /\ \A c \in Contents :
        /\ \E r \in Records : r[2] = c /\ row[r] # "absent"
        /\ ~ \E r \in del.rec : r[2] = c
        => \E s \in Sessions : \E r \in UNION _apply_memory_context(s) : r[2] = c

\* Two records of one scope that say the same, neither of which the limit has kept
\* from a pass.
Duplicates ==
    \E r, q \in Records \ missed :
        /\ r # q /\ r[2] = q[2] /\ row[r] = "active" /\ row[q] = "active"
        /\ kind[r] = kind[q] /\ (kind[r] = "project" => session[r[1]] = session[q[1]])

\* Duplicates stored by turns that raced, or that deduplication does not see,
\* are consolidated by the pass of the turn that committed last, unless a pass
\* fails, the process dies, or one of the two is older than the newest records a
\* pass is shown.
DuplicatesSettle == (Duplicates /\ ~disturbed) ~> (~Duplicates \/ disturbed)

====
