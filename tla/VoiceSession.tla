---------------------------- MODULE VoiceSession ----------------------------
(***************************************************************************)
(* One voice connection: the receive loop of VoiceWebSocketHandler, its    *)
(* expiry task, and for every utterance four asyncio tasks that wait for   *)
(* and cancel one another: _process_utterance, _run_stt, run_turn of       *)
(* VoiceChatBridge and its emit_tts. VoiceSessionManager is built per      *)
(* request (ai/deps.py), so connections of one user share nothing here.    *)
(*                                                                         *)
(* Task.cancel() of a task that awaits another task cancels that one; its  *)
(* CancelledError is delivered when the event loop next runs the task.     *)
(* Audio and text are counted in words.                                    *)
(***************************************************************************)
EXTENDS Naturals

CONSTANTS
    MaxTurns,   \* bound: utterances the client commits
    MaxWords,   \* bound: words of one reply
    HbMiss,     \* three heartbeat intervals, in ticks
    IdleLimit   \* voice_session_timeout_seconds, in ticks

ASSUME VoiceAssumption == MaxTurns \in Nat /\ MaxWords \in Nat /\ HbMiss \in Nat /\ IdleLimit \in Nat

Turns == 1 .. MaxTurns

VARIABLES
    recv,        \* where the receive loop is
    msg,         \* the client message it is handling
    utterance,   \* audio is buffered in _UtteranceState
    turns,       \* utterances started so far; the last one is _turn_task
    task,        \* the tasks of every turn, by kind
    hit,         \* tasks whose CancelledError is not delivered yet
    handle,      \* SessionInterruptState: the registered tasks
    turn_active, \* SessionInterruptState.turn_active
    text,        \* words of the reply put into text_queue
    said,        \* words sent as audio_out
    sess,        \* ManagedVoiceSession and the socket
    age,         \* ticks since the last heartbeat and the last activity
    expiry,      \* the task of _expire_loop
    silenced     \* history: turns cut off by an acknowledged barge-in

voiceVars == <<recv, msg, utterance, turns, task, hit, handle, turn_active, text, said, sess, age, expiry,
          silenced>>
turnVars == <<utterance, turns, task, hit, handle, turn_active, text, said, silenced>>

Kinds == {"process", "stt", "llm", "tts"}
NoHandles == [stt |-> 0, llm |-> 0, tts |-> 0]

\* task.done(), or the task was never created.
Done(k, t) == task[k][t] \in {"none", "done", "text", "failed"}
Live(t) == \E k \in Kinds : ~Done(k, t)

\* The task that k of turn t awaits, if it awaits one.
Awaits(k, t) ==
    CASE k = "process" /\ task[k][t] = "stt" /\ ~Done("stt", t) -> {"stt"}
      [] k = "process" /\ task[k][t] = "chat" /\ ~Done("llm", t) -> {"llm"}
      [] k = "llm" /\ task[k][t] = "drain" /\ ~Done("tts", t) -> {"tts"}
      [] OTHER -> {}

\* Task.cancel: handed down to the awaited task, and from there on.
Target(k, t) ==
    LET a == Awaits(k, t) IN
    IF a = {} THEN k
    ELSE IF a = {"llm"} /\ Awaits("llm", t) # {} THEN "tts" ELSE CHOOSE j \in a : TRUE
Cancelled(ks, t) ==
    IF t = 0 THEN {} ELSE {<<Target(k, t), t>> : k \in {j \in ks : ~Done(j, t)}}

\* A task takes its next step only while no cancellation is waiting for it.
Runs(k, t, st) == task[k][t] = st /\ <<k, t>> \notin hit
-----------------------------------------------------------------------------
(* The receive loop. *)

\* voice_websocket: a connection without a valid token, or with voice disabled, is closed.
voice_websocket ==
    /\ recv = "connect"
    /\ recv' \in {"accept", "done"}
    /\ UNCHANGED <<msg, turnVars, sess, age, expiry>>

\* VoiceSessionManager.create succeeded and session_started was sent. A guest, a foreign chat
\* session or an active voice session of the same manager is refused before anything starts.
create ==
    /\ recv = "accept"
    /\ \/ recv' = "receive" /\ sess' = [sess EXCEPT !.is_active = TRUE] /\ expiry' = "sleep"
       \/ recv' = "done" /\ UNCHANGED <<sess, expiry>>
    /\ UNCHANGED <<msg, turnVars, age>>

\* is_barge_in_trigger: an interrupt always, audio while a reply is being produced.
is_barge_in_trigger(m) == m = "interrupt" \/ (m \in {"audio", "final"} /\ turn_active)

\* receive_text and decode_and_handle_barge_in. A frame that does not decode is answered by an error.
\* cancel_all cancels the registered tasks and then waits for them.
receive(m) ==
    /\ recv = "receive" /\ sess.connected
    /\ m = "final" => turns < MaxTurns
    /\ msg' = m
    /\ IF is_barge_in_trigger(m)
       THEN /\ recv' = "bargeIn"
            /\ hit' = hit \cup UNION {Cancelled({k \in {"tts", "llm", "stt"} : handle[k] = t}, t) : t \in Turns}
       ELSE recv' = "handle" /\ UNCHANGED hit
    /\ UNCHANGED <<utterance, turns, task, handle, turn_active, text, said, sess, age, expiry, silenced>>

\* Faulty: cancel_all does not wait for the tasks it cancelled.
cancel_all_done_AtOnce == TRUE

\* gather in cancel_all: the cancelled tasks have ended.
cancel_all_done == \A k \in {"stt", "llm", "tts"} : handle[k] # 0 => Done(k, handle[k])

\* The rest of cancel_all and of the barge-in: handles dropped, interrupted sent, buffered audio
\* thrown away.
interrupted ==
    /\ recv = "bargeIn" /\ cancel_all_done
    /\ handle' = NoHandles /\ turn_active' = FALSE /\ utterance' = FALSE
    /\ silenced' = silenced \cup {t \in Turns : handle.tts = t}
    /\ recv' = "handle"
    /\ UNCHANGED <<msg, turns, task, hit, text, said, sess, age, expiry>>

\* The loop goes on while the session is active and no send has failed.
Continue == recv' = IF sess.running /\ sess.is_active THEN "receive" ELSE "finally"

\* HeartbeatMessage, InterruptMessage, or an error frame. record_heartbeat raises in a session that
\* has expired, which ends the loop.
handle_control ==
    /\ recv = "handle" /\ msg' = "none" /\ msg \in {"heartbeat", "interrupt", "invalid"}
    /\ IF msg = "heartbeat" /\ sess.is_active THEN age' = [hb |-> 0, idle |-> 0] ELSE UNCHANGED age
    /\ Continue
    /\ UNCHANGED <<turnVars, sess, expiry>>

\* SessionEndMessage: teardown is idempotent and cancels the expiry task; session_closed is sent.
session_end ==
    /\ recv = "handle" /\ msg' = "none" /\ msg = "end"
    /\ sess' = [sess EXCEPT !.is_active = FALSE]
    /\ expiry' = "done" /\ recv' = "finally"
    /\ UNCHANGED <<turnVars, age>>

\* _handle_audio_in: record_activity raises in an expired session; a final chunk first cancels the
\* pending turn.
handle_audio_in ==
    /\ recv = "handle" /\ msg' = "none" /\ msg \in {"audio", "final"}
    /\ IF ~sess.is_active THEN recv' = "finally" /\ UNCHANGED <<age, utterance, hit>>
       ELSE /\ age' = [age EXCEPT !.idle = 0]
            /\ utterance' = (msg = "audio")
            /\ IF msg = "audio" THEN Continue /\ UNCHANGED hit
               ELSE /\ recv' = "supersede"
                    /\ hit' = hit \cup Cancelled({"process"}, turns)
    /\ UNCHANGED <<turns, task, handle, turn_active, text, said, sess, expiry, silenced>>

\* Faulty: the pending turn is cancelled but not awaited.
pending_turn_done_AtOnce == TRUE

\* gather in _cancel_pending_turn.
pending_turn_done == turns # 0 => Done("process", turns)

\* create_task(_process_utterance), which registers the STT task as it starts.
start_turn ==
    /\ recv = "supersede" /\ pending_turn_done
    /\ turns' = turns + 1
    /\ task' = [task EXCEPT !["process"][turns + 1] = "start"]
    /\ Continue
    /\ UNCHANGED <<msg, utterance, hit, handle, turn_active, text, said, sess, age, expiry, silenced>>

\* The peer closes the socket, or a send fails because it has. receive_text raises.
disconnect ==
    /\ sess.connected /\ recv \notin {"connect", "accept"}
    /\ sess' = [sess EXCEPT !.connected = FALSE, !.running = FALSE]
    /\ UNCHANGED <<recv, msg, turnVars, age, expiry>>
receive_disconnect ==
    /\ recv = "receive" /\ ~sess.connected
    /\ recv' = "finally"
    /\ UNCHANGED <<msg, turnVars, sess, age, expiry>>

\* The finally clause: cancel the turn, wait for it, cancel the expiry task, tear down, clear_session.
begin_finally ==
    /\ recv = "finally"
    /\ hit' = hit \cup Cancelled({"process"}, turns)
    /\ recv' = "closing"
    /\ UNCHANGED <<msg, utterance, turns, task, handle, turn_active, text, said, sess, age, expiry, silenced>>
end_finally ==
    /\ recv = "closing" /\ pending_turn_done
    /\ expiry' = "done" /\ sess' = [sess EXCEPT !.is_active = FALSE]
    /\ handle' = NoHandles /\ turn_active' = FALSE
    /\ recv' = "done"
    /\ UNCHANGED <<msg, utterance, turns, task, hit, text, said, age, silenced>>
-----------------------------------------------------------------------------
(* Expiry. *)

tick ==
    /\ recv \notin {"connect", "accept", "done"} /\ age.hb <= HbMiss
    /\ age' = [hb |-> age.hb + 1, idle |-> IF age.idle > IdleLimit THEN age.idle ELSE age.idle + 1]
    /\ UNCHANGED <<recv, msg, turnVars, sess, expiry>>

\* _expire_loop. teardown cancels the registered tasks, and the only one is this task itself: the
\* CancelledError comes at its next suspension, in sending session_closed or in closing the socket,
\* or too late to matter. Without the close the receive loop goes on waiting.
expire_stale_sessions ==
    /\ expiry = "sleep" /\ sess.is_active
    /\ age.hb > HbMiss \/ age.idle > IdleLimit
    /\ expiry' = "done"
    /\ \E shut \in BOOLEAN :
         sess' = [is_active |-> FALSE, running |-> sess.running /\ ~shut, connected |-> sess.connected /\ ~shut]
    /\ UNCHANGED <<recv, msg, turnVars, age>>
-----------------------------------------------------------------------------
(* One turn. *)

Moved(k, t, st) == task' = [task EXCEPT ![k][t] = st]

\* The head of _process_utterance.
process_utterance(t) ==
    /\ Runs("process", t, "start")
    /\ task' = [task EXCEPT !["process"][t] = "stt", !["stt"][t] = "run"]
    /\ handle' = [handle EXCEPT !.stt = t]
    /\ UNCHANGED <<recv, msg, utterance, turns, hit, turn_active, text, said, sess, age, expiry, silenced>>

\* The speech service: a transcript, or SttError for no text or a failure after its retries.
transcribe_stream == {"text", "SttError"}

\* The pipeline ends without an event when it is cancelled; an utterance too short or
\* too long is an SttError too.
process_audio == transcribe_stream \cup {"nothing", "SttError"}

\* _run_stt: the final transcript, if there is one.
run_stt(t) ==
    /\ Runs("stt", t, "run")
    /\ \E event \in process_audio : Moved("stt", t, IF event = "text" THEN "text" ELSE "done")
    /\ UNCHANGED <<recv, msg, utterance, turns, hit, handle, turn_active, text, said, sess, age, expiry, silenced>>

\* _process_utterance goes on: transcript_final is sent and _run_chat_turn prepares the turn.
transcribed(t) ==
    /\ Runs("process", t, "stt") /\ Done("stt", t)
    /\ Moved("process", t, IF task["stt"][t] = "text" THEN "prepare" ELSE "done")
    /\ UNCHANGED <<recv, msg, utterance, turns, hit, handle, turn_active, text, said, sess, age, expiry, silenced>>

\* _run_chat_turn after prepare_stream: refused, or run_turn is created and registered.
run_chat_turn(t) ==
    /\ Runs("process", t, "prepare")
    /\ \/ /\ task' = [task EXCEPT !["process"][t] = "chat", !["llm"][t] = "start"]
          /\ handle' = [handle EXCEPT !.llm = t]
       \/ Moved("process", t, "done") /\ UNCHANGED handle
    /\ UNCHANGED <<recv, msg, utterance, turns, hit, turn_active, text, said, sess, age, expiry, silenced>>

\* The head of run_turn: emit_tts is created and registered, the turn becomes active.
run_turn(t) ==
    /\ Runs("llm", t, "start")
    /\ task' = [task EXCEPT !["llm"][t] = "stream", !["tts"][t] = "run"]
    /\ handle' = [handle EXCEPT !.tts = t] /\ turn_active' = TRUE
    /\ UNCHANGED <<recv, msg, utterance, turns, hit, text, said, sess, age, expiry, silenced>>

\* A delta frame: the text is sent and queued for speech.
delta(t) ==
    /\ Runs("llm", t, "stream") /\ text[t] < MaxWords
    /\ text' = [text EXCEPT ![t] = @ + 1]
    /\ UNCHANGED <<recv, msg, utterance, turns, task, hit, handle, turn_active, said, sess, age, expiry, silenced>>

\* Faulty: the turn counts as over when the text is.
stream_ends_Inactive(t) ==
    /\ Runs("llm", t, "stream")
    /\ Moved("llm", t, "drain") /\ turn_active' = FALSE
    /\ UNCHANGED <<recv, msg, utterance, turns, hit, handle, text, said, sess, age, expiry, silenced>>

\* The stream ends: end, error, approval_required, an exception, or stream_execute sees the
\* disconnect. The finally clause closes the text queue and waits for emit_tts.
stream_ends(t) ==
    /\ Runs("llm", t, "stream")
    /\ Moved("llm", t, "drain")
    /\ UNCHANGED <<recv, msg, utterance, turns, hit, handle, turn_active, text, said, sess, age, expiry, silenced>>

\* set_turn_active(False) once emit_tts has ended; a synthesis error is reported and no more.
turn_ends(t) ==
    /\ Runs("llm", t, "drain") /\ Done("tts", t)
    /\ Moved("llm", t, "done") /\ turn_active' = FALSE
    /\ UNCHANGED <<recv, msg, utterance, turns, hit, handle, text, said, sess, age, expiry, silenced>>

\* _run_chat_turn returns, whatever became of the turn.
chat_turn_ends(t) ==
    /\ Runs("process", t, "chat") /\ Done("llm", t)
    /\ Moved("process", t, "done")
    /\ UNCHANGED <<recv, msg, utterance, turns, hit, handle, turn_active, text, said, sess, age, expiry, silenced>>

\* try_flushes: text up to the last sentence, an early prefix, or what has waited too long is
\* synthesised and sent.
try_flushes(t) ==
    /\ Runs("tts", t, "run")
    /\ \E upto \in said[t] + 1 .. text[t] : said' = [said EXCEPT ![t] = upto]
    /\ UNCHANGED <<recv, msg, utterance, turns, task, hit, handle, turn_active, text, sess, age, expiry, silenced>>

\* The end of process: what is left in the buffer is spoken too.
flush_rest(t) == [said EXCEPT ![t] = text[t]]

\* Faulty: run_turn leaves the queue open when it is cancelled.
queue_closed_OnEnd(t) == Runs("llm", t, "drain") /\ sess.connected

\* text_queue.put(None) in run_turn's finally clause.
queue_closed(t) == task["llm"][t] = "drain"

\* process reads None and ends.
emit_tts_ends(t) ==
    /\ Runs("tts", t, "run") /\ queue_closed(t)
    /\ said' = flush_rest(t) /\ Moved("tts", t, "done")
    /\ UNCHANGED <<recv, msg, utterance, turns, hit, handle, turn_active, text, sess, age, expiry, silenced>>

\* synthesize_stream fails (TtsError).
synthesize_fails(t) ==
    /\ Runs("tts", t, "run") /\ said[t] < text[t]
    /\ Moved("tts", t, "failed")
    /\ UNCHANGED <<recv, msg, utterance, turns, hit, handle, turn_active, text, said, sess, age, expiry, silenced>>

\* A CancelledError arrives. run_turn goes into its finally clause, which swallows one that comes
\* while it waits for emit_tts and clears the flag; everything else ends.
cancelled(k, t) ==
    /\ <<k, t>> \in hit
    /\ hit' = hit \ {<<k, t>>}
    /\ IF Done(k, t) THEN UNCHANGED task
       ELSE Moved(k, t, IF k = "llm" /\ task[k][t] = "stream" THEN "drain" ELSE "done")
    /\ turn_active' = (turn_active /\ ~ (k = "llm" /\ task[k][t] = "drain"))
    /\ UNCHANGED <<recv, msg, utterance, turns, handle, text, said, sess, age, expiry, silenced>>
-----------------------------------------------------------------------------
VoiceInit ==
    /\ recv = "connect" /\ msg = "none" /\ utterance = FALSE /\ turns = 0
    /\ task = [k \in Kinds |-> [t \in Turns |-> "none"]] /\ hit = {} /\ handle = NoHandles
    /\ turn_active = FALSE /\ text = [t \in Turns |-> 0] /\ said = [t \in Turns |-> 0]
    /\ sess = [is_active |-> FALSE, connected |-> TRUE, running |-> TRUE]
    /\ age = [hb |-> 0, idle |-> 0] /\ expiry = "none" /\ silenced = {}

Turn(t) ==
    \/ process_utterance(t) \/ run_stt(t) \/ transcribed(t) \/ run_chat_turn(t) \/ run_turn(t)
    \/ delta(t) \/ stream_ends(t) \/ turn_ends(t) \/ chat_turn_ends(t) \/ try_flushes(t)
    \/ emit_tts_ends(t) \/ \E k \in Kinds : cancelled(k, t)
Loop ==
    \/ interrupted \/ handle_control \/ session_end \/ handle_audio_in \/ start_turn
    \/ receive_disconnect \/ begin_finally \/ end_finally
Client ==
    \/ voice_websocket \/ create \/ disconnect \/ tick
    \/ \E m \in {"audio", "final", "interrupt", "heartbeat", "end", "invalid"} : receive(m)

VoiceNext == Client \/ Loop \/ expire_stale_sessions \/ \E t \in Turns : Turn(t) \/ synthesize_fails(t)
VoiceSpec == VoiceInit /\ [][VoiceNext]_voiceVars

\* The event loop runs what can run, and the speech services and the chat stream answer or time out.
VoiceFairSpec == VoiceSpec /\ WF_voiceVars(Loop) /\ \A t \in Turns : WF_voiceVars(Turn(t))
-----------------------------------------------------------------------------
(* Properties. *)

VoiceTypeOK ==
    /\ task \in [Kinds -> [Turns -> {"none", "start", "run", "stt", "text", "prepare", "chat", "stream",
                                    "drain", "done", "failed"}]]
    /\ hit \subseteq Kinds \X Turns /\ silenced \subseteq Turns
    /\ handle \in [stt : 0 .. MaxTurns, llm : 0 .. MaxTurns, tts : 0 .. MaxTurns]
    /\ turns \in 0 .. MaxTurns
    /\ text \in [Turns -> 0 .. MaxWords] /\ said \in [Turns -> 0 .. MaxWords]
    /\ sess \in [is_active : BOOLEAN, connected : BOOLEAN, running : BOOLEAN]
    /\ turn_active \in BOOLEAN
    /\ expiry \in {"none", "sleep", "done"}

\* After the interrupted frame no more audio of the reply it cut off is sent: cancel_all waits until
\* the synthesis task has ended before the barge-in is acknowledged.
BargeInSilences == [][\A t \in silenced : said'[t] = said[t]]_voiceVars

\* Tasks and handles keep their types, and two turns never run side by side, however fast the client commits utterances and interrupts:
\* else two replies would be spoken over each other.
OneTurnAtATime == VoiceTypeOK /\ \A t, u \in Turns : Live(t) /\ Live(u) => t = u

\* As long as speech is being produced, new audio counts as a barge-in and finds the task to cancel:
\* the flag and the registered task outlast the text stream, which ends long before the speech.
SpeakingIsInterruptible == \A t \in Turns : ~Done("tts", t) => turn_active /\ handle.tts = t

\* Once the client is gone, the handler returns and leaves no task of the connection behind.
ConnectionReleased == [](~sess.connected => <>(recv = "done" /\ \A t \in Turns : ~Live(t)))
=============================================================================
