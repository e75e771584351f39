---- MODULE Integrations ----
(***************************************************************************)
(* How tools get into the one ToolRegistry of the process, and how they    *)
(* leave it: the plugin loader with its registration threads, the MCP      *)
(* servers behind their stdio pipes, the tool calls that share a pipe, and *)
(* the shutdown that must leave no subprocess behind.                      *)
(*                                                                         *)
(* The lifespan function is one process: plugins first, then the built-in  *)
(* tools, then the MCP servers one after the other, then it serves, then   *)
(* it disconnects.  A plugin's register() runs in a daemon thread that the *)
(* loader stops waiting for after a timeout and that goes on regardless.   *)
(* An MCP server reads requests from one pipe and writes answers, errors   *)
(* and notifications to another, in any order, as late as it likes, or     *)
(* never; it may crash at any moment.  Nothing serialises the requests of  *)
(* two callers on one transport.                                           *)
(***************************************************************************)
EXTENDS Integers, Sequences, FiniteSets, SequencesExt

CONSTANTS
    Candidates,      \* sequence of plugin directories, in load order
    PluginId,        \* the plugin_id of each candidate's manifest
    Allowlist,       \* settings.plugin_allowlist; empty allows every plugin
    Offers,          \* what register() of a candidate may stage: [kind, name]
    CoreTools,       \* the names register_production_tools registers
    Servers,         \* the names of all MCP servers
    EnvServers,      \* settings.mcp_servers, a sequence of names
    AllowedServers,  \* allowed_servers of the permission policy; empty allows all
    AllowedTools,    \* the tools the policy allows, as <<server, tool>>
    Tools,           \* the unprefixed names an MCP server may list
    Prefixed,        \* Prefixed[<<s, t>>]: the name "s.t" in the registry
    Callers,         \* concurrent tool executions
    MaxStaged,       \* bound: contributions each plugin stages
    MaxMessages      \* bound: after so many requests, notifications and repeated answers no call starts

\* The lifespan function as a caller of MCP requests.
Boot == "boot"

\* The loader lists a directory once; what owns a registration is told apart.
ASSUME IntegrationsAssumption ==
    /\ Candidates \in Seq(Range(Candidates))
    /\ \A i, j \in DOMAIN Candidates : Candidates[i] = Candidates[j] => i = j
    /\ Range(Candidates) \cap Servers = {} /\ "core" \notin Range(Candidates) \cup Servers
    /\ Boot \notin Callers

VARIABLES
    phase,      \* where the lifespan function stands
    queue,      \* plugin directories not loaded yet
    plugin,     \* the loader's record of each directory
    thread,     \* the registration thread of each directory
    registrar,  \* the PluginRegistrar of each directory
    registry,   \* the registrations of the process: [kind, name, owner]
    extra,      \* the plugin registry's MCP server names, a sequence
    todo,       \* MCP servers not connected yet
    clients,    \* the servers in McpServerRegistry._clients
    status,     \* McpServerRegistry._statuses
    connected,  \* StdioMcpClient._connected of each server
    proc,       \* StdioTransport.process of each server
    ids,        \* StdioTransport._request_id_counter of each server
    inbox,      \* requests the subprocess has not answered yet
    pipe,       \* lines of its stdout nobody has read yet
    call,       \* what each caller is doing
    sent,       \* messages counted so far; numbers the requests for the properties
    stray       \* servers whose handshake failed in a way connect does not catch

pluginVars == <<queue, plugin, thread, registrar, extra>>
serverVars == <<clients, status, connected, proc, todo, stray>>
wireVars   == <<ids, inbox, pipe, call, sent>>
lifespanVars == <<phase, pluginVars, registry, serverVars, wireVars>>

Kinds == <<"tool", "prompt", "workflow_node", "mcp_server">>
Dirs  == Range(Candidates)

NoCall == [pc |-> "idle", server |-> "none", method |-> "none", tool |-> "none",
           id |-> 0, number |-> 0, line |-> [id |-> 0, of |-> 0, kind |-> "none"]]

NoLine == NoCall.line

LifespanInit ==
    /\ phase = "plugins"
    /\ queue = Candidates
    /\ plugin = [d \in Dirs |-> "new"]
    /\ thread = [d \in Dirs |-> "none"]
    /\ registrar = [d \in Dirs |-> [closed |-> FALSE, done |-> FALSE,
                                      staging |-> <<>>, committed |-> {}]]
    /\ registry = {}
    /\ extra = <<>>
    /\ todo = <<>>
    /\ clients = {}
    /\ status = [s \in Servers |-> "NONE"]
    /\ connected = [s \in Servers |-> FALSE]
    /\ proc = [s \in Servers |-> "none"]
    /\ ids = [s \in Servers |-> 0]
    /\ inbox = [s \in Servers |-> {}]
    /\ pipe = [s \in Servers |-> <<>>]
    /\ call = [c \in Callers \cup {Boot} |-> NoCall]
    /\ sent = 0
    /\ stray = {}

-----------------------------------------------------------------------------
(* Registries *)

\* The entry of a registry that holds this name, of whatever owner.  Prompts
\* and workflow nodes are keyed by the plugin id as well as the name.
Taken(r, item) ==
    \E e \in r :
        /\ e.kind = item.kind
        /\ e.name = item.name
        /\ item.kind \in {"prompt", "workflow_node"} => PluginId[e.owner] = PluginId[item.owner]

\* ToolRegistry.unregister, unregister_plugin_template and
\* WorkflowPluginRegistry.unregister: remove by key.
Without(r, items) == { e \in r : \A i \in items : ~Taken({e}, i) }

-----------------------------------------------------------------------------
(* The plugin loader *)

Loading(d) == phase = "plugins" /\ queue # <<>> /\ d = Head(queue)

\* mark_failed or mark_loaded, and on to the next candidate.
Recorded(d, outcome) ==
    /\ plugin' = [plugin EXCEPT ![d] = outcome]
    /\ queue' = Tail(queue)

\* The plugin ids this load has passed to an entrypoint already.
Seen == { PluginId[d] : d \in { e \in Dirs : thread[e] # "none" \/ plugin[e] = "import_failed" } }

\* A manifest that is missing, invalid, of another API version, not allowed, or
\* a duplicate.
reject(d) ==
    /\ Loading(d) /\ thread[d] = "none"
    /\ Recorded(d, "failed")
    /\ UNCHANGED <<phase, thread, registrar, registry, extra, serverVars, wireVars>>

Admitted(d) ==
    /\ Allowlist # {} => PluginId[d] \in Allowlist
    /\ PluginId[d] \notin Seen

\* The entrypoint's module raises when it is imported.
import_fails(d) ==
    /\ Loading(d) /\ thread[d] = "none" /\ Admitted(d)
    /\ Recorded(d, "import_failed")
    /\ UNCHANGED <<phase, thread, registrar, registry, extra, serverVars, wireVars>>

\* The registrar of a valid candidate, with the servers its manifest declares
\* already staged, and the thread that calls register().
start_registration(d) ==
    /\ Loading(d) /\ thread[d] = "none" /\ Admitted(d)
    /\ thread' = [thread EXCEPT ![d] = "running"]
    /\ \E declared \in SUBSET { o \in Offers[d] : o.kind = "mcp_server" } :
          registrar' = [registrar EXCEPT ![d].staging = SetToSeq(declared)]
    /\ UNCHANGED <<phase, queue, plugin, registry, extra, serverVars, wireVars>>

\* _ensure_open_unlocked
Open(d) == ~registrar[d].closed /\ ~registrar[d].done

\* register_tool, register_prompt_template, register_workflow_node_type and
\* register_mcp_server: stage while open, raise into the plugin otherwise.
stage(d, item) ==
    /\ thread[d] = "running"
    /\ IF Open(d)
       THEN /\ Len(registrar[d].staging) < MaxStaged[d]
            /\ registrar' = [registrar EXCEPT ![d].staging = Append(@, item)]
            /\ UNCHANGED thread
       ELSE /\ thread' = [thread EXCEPT ![d] = "raised"]
            /\ UNCHANGED registrar
    /\ UNCHANGED <<phase, queue, plugin, registry, extra, serverVars, wireVars>>

\* register() returns or raises; the thread sets registration_complete.
register_ends(d) ==
    /\ thread[d] = "running"
    /\ \E how \in {"returned", "raised"} : thread' = [thread EXCEPT ![d] = how]
    /\ UNCHANGED <<phase, queue, plugin, registrar, registry, extra, serverVars, wireVars>>

close(r) == [r EXCEPT !.closed = TRUE, !.staging = <<>>]

\* The loader stops waiting: the thread is left running on a closed registrar.
registration_timeout(d) ==
    /\ Loading(d) /\ thread[d] = "running"
    /\ registrar' = [registrar EXCEPT ![d] = close(@)]
    /\ Recorded(d, "failed")
    /\ UNCHANGED <<phase, thread, registry, extra, serverVars, wireVars>>

rollback(d) ==
    /\ Loading(d) /\ thread[d] = "raised"
    /\ registrar' = [registrar EXCEPT ![d].staging = <<>>]
    /\ Recorded(d, "failed")
    /\ UNCHANGED <<phase, thread, registry, extra, serverVars, wireVars>>

\* The staged contributions in the order commit registers them: tools, then
\* prompts, then workflow nodes.
InOrder(d) ==
    LET of(k) == SelectSeq(registrar[d].staging, LAMBDA i : i.kind = k)
        own(s) == [i \in DOMAIN s |-> [kind |-> s[i].kind, name |-> s[i].name, owner |-> d]]
    IN  own(of("tool") \o of("prompt") \o of("workflow_node"))

\* The first n of them go in: none is there already.
Registered(items, n) ==
    \A i \in 1..n :
        /\ ~Taken(registry, items[i])
        /\ \A j \in 1..(i - 1) : ~Taken({items[j]}, items[i])

\* Faulty: the rollback removes everything that was staged.
_rollback_registrations_Staged(d, n) ==
    Without(registry \cup { InOrder(d)[i] : i \in 1..n }, Range(InOrder(d)))

\* commit registers the first n of them and then fails: _rollback_registrations
\* removes by key what this commit itself put in.
_rollback_registrations(d, n) ==
    LET done == { InOrder(d)[i] : i \in 1..n }
    IN  Without(registry \cup done, done)

\* add_mcp_servers: a name another plugin brought already is skipped.
add_mcp_servers(names) == extra \o SetToSeq(names \ Range(extra))

\* commit: every staged contribution or none.  A template file that cannot be
\* read fails it as well, at any prompt.
commit(d) ==
    /\ Loading(d) /\ thread[d] = "returned"
    /\ LET items == InOrder(d)
           names == { i.name : i \in { o \in Range(registrar[d].staging) : o.kind = "mcp_server" } }
       IN  \E n \in 0..Len(items) :
              /\ Registered(items, n)
              /\ n < Len(items) => items[n + 1].kind = "prompt" \/ ~Registered(items, n + 1)
              /\ IF n = Len(items)
                 THEN /\ registry' = registry \cup Range(items)
                      /\ extra' = add_mcp_servers(names)
                      /\ registrar' = [registrar EXCEPT ![d].done = TRUE, ![d].staging = <<>>,
                                                           ![d].committed = Range(items)]
                      /\ Recorded(d, "loaded")
                 ELSE /\ registry' = _rollback_registrations(d, n)
                      /\ registrar' = [registrar EXCEPT ![d].staging = <<>>]
                      /\ Recorded(d, "failed")
                      /\ UNCHANGED extra
    /\ UNCHANGED <<phase, thread, serverVars, wireVars>>

\* _merge_mcp_server_configs: the environment's servers first, and they win.
_merge_mcp_server_configs ==
    EnvServers \o SelectSeq(extra, LAMBDA n : n \notin Range(EnvServers))

\* load_all returns; register_production_tools; the merged list of servers.
plugins_loaded ==
    /\ phase = "plugins" /\ queue = <<>>
    /\ phase' = "mcp"
    /\ registry' = registry \cup { [kind |-> "tool", name |-> t, owner |-> "core"] : t \in CoreTools }
    /\ todo' = _merge_mcp_server_configs
    /\ UNCHANGED <<pluginVars, clients, status, connected, proc, stray, wireVars>>

-----------------------------------------------------------------------------
(* The stdio transport: requests and answers *)

\* send_request up to the drain: a fresh id, one line into stdin.
Request(c, s, method, tool) ==
    /\ ids' = [ids EXCEPT ![s] = @ + 1]
    /\ sent' = sent + 1
    /\ inbox' = [inbox EXCEPT ![s] = IF proc[s] = "dead" THEN @
                                     ELSE @ \cup {[id |-> ids'[s], of |-> sent']}]
    /\ call' = [call EXCEPT ![c] = [NoCall EXCEPT !.pc = "wrote", !.server = s, !.method = method,
                                                  !.tool = tool, !.id = ids'[s], !.number = sent']]

\* A line another coroutine waits for wakes it; it reads when it runs again.
Woken(s) ==
    [c \in DOMAIN call |-> IF call[c].pc = "waiting" /\ call[c].server = s
                           THEN [call[c] EXCEPT !.pc = "wrote"] ELSE call[c]]

\* The subprocess answers one of its requests, with a result, a JSON-RPC error
\* or a result of an odd shape.
answer(s) ==
    /\ proc[s] \in {"alive", "terminating"}
    /\ \E i \in inbox[s], kind \in {"result", "error", "odd"} :
          /\ pipe' = [pipe EXCEPT ![s] = Append(@, [id |-> i.id, of |-> i.of, kind |-> kind])]
          /\ inbox' = [inbox EXCEPT ![s] = @ \ {i}]
    /\ call' = Woken(s)
    /\ UNCHANGED <<phase, pluginVars, registry, serverVars, ids, sent>>

\* It answers a request with a result and goes on to answer it again.
answer_again(s) ==
    /\ proc[s] = "alive" /\ sent < MaxMessages
    /\ sent' = sent + 1
    /\ \E i \in inbox[s] :
          pipe' = [pipe EXCEPT ![s] = Append(@, [id |-> i.id, of |-> i.of, kind |-> "result"])]
    /\ call' = Woken(s)
    /\ UNCHANGED <<phase, pluginVars, registry, serverVars, ids, inbox>>

\* A notification has no id.
notify(s) ==
    /\ proc[s] = "alive" /\ sent < MaxMessages
    /\ sent' = sent + 1
    /\ pipe' = [pipe EXCEPT ![s] = Append(@, [id |-> 0, of |-> 0, kind |-> "result"])]
    /\ call' = Woken(s)
    /\ UNCHANGED <<phase, pluginVars, registry, serverVars, ids, inbox>>

\* The subprocess ends: by itself, or because it was asked to.
exit(s) ==
    /\ proc[s] \in {"alive", "terminating"}
    /\ proc' = [proc EXCEPT ![s] = "dead"]
    /\ inbox' = [inbox EXCEPT ![s] = {}]
    /\ call' = Woken(s)
    /\ UNCHANGED <<phase, pluginVars, registry, clients, status, connected, todo, stray,
                   ids, pipe, sent>>
\* Faulty: the id of the response is not compared.
verdict_AnyId(c, line) == IF line.kind = "error" THEN "mcp_error" ELSE line.kind

\* What send_request makes of a line: the answer to another request is an
\* error, and so is a JSON-RPC error.
verdict(c, line) ==
    IF line.id # call[c].id \/ line.kind = "error" THEN "mcp_error" ELSE line.kind

Ended(c, pc, line) == call' = [call EXCEPT ![c].pc = pc, ![c].line = line]

\* readline: a line that is there is taken, whoever it was meant for; the end
\* of the stream is an error; a second coroutine that would have to wait is
\* refused; after disconnect there is no stream at all.
readline(c) ==
    LET s == call[c].server IN
    /\ call[c].pc = "wrote"
    /\ IF proc[s] = "none"
       THEN Ended(c, "unknown_error", NoLine) /\ UNCHANGED pipe
       ELSE \/ /\ pipe[s] # <<>>
               /\ pipe' = [pipe EXCEPT ![s] = Tail(@)]
               /\ Ended(c, verdict(c, Head(pipe[s])), Head(pipe[s]))
            \/ /\ pipe[s] = <<>> /\ proc[s] = "dead"
               /\ Ended(c, "mcp_connection_error", NoLine) /\ UNCHANGED pipe
            \/ /\ pipe[s] = <<>> /\ proc[s] # "dead"
               /\ Ended(c, IF \E d \in DOMAIN call : call[d].pc = "waiting" /\ call[d].server = s
                           THEN "unknown_error" ELSE "waiting", NoLine)
               /\ UNCHANGED pipe
    /\ UNCHANGED <<phase, pluginVars, registry, serverVars, ids, inbox, sent>>

\* The request's own timeout, or the tool executor's around it: the answer, if
\* it still comes, stays in the pipe.
request_timeout(c) ==
    /\ call[c].pc \in {"wrote", "waiting"}
    /\ Ended(c, "mcp_connection_error", NoLine)
    /\ UNCHANGED <<phase, pluginVars, registry, serverVars, ids, inbox, pipe, sent>>

-----------------------------------------------------------------------------
(* Startup: one server after the other *)

Next1(s) == phase = "mcp" /\ todo # <<>> /\ s = Head(todo)

authorize_server(s) == AllowedServers = {} \/ s \in AllowedServers

authorize_tool(s, t) ==
    /\ authorize_server(s)
    /\ <<s, t>> \in AllowedTools

\* Denied by policy, or already registered.
skip_server(s) ==
    /\ Next1(s) /\ call[Boot].pc = "idle"
    /\ ~authorize_server(s) \/ s \in clients
    /\ todo' = Tail(todo)
    /\ UNCHANGED <<phase, pluginVars, registry, clients, status, connected, proc, stray, wireVars>>

\* A secret that does not resolve, or a subprocess that cannot be started.
spawn_fails(s) ==
    /\ Next1(s) /\ call[Boot].pc = "idle" /\ authorize_server(s) /\ s \notin clients
    /\ status' = [status EXCEPT ![s] = "FAILED"]
    /\ todo' = Tail(todo)
    /\ UNCHANGED <<phase, pluginVars, registry, clients, connected, proc, stray, wireVars>>

\* The subprocess runs; the handshake goes out.
spawn(s) ==
    /\ Next1(s) /\ call[Boot].pc = "idle" /\ authorize_server(s) /\ s \notin clients
    /\ status' = [status EXCEPT ![s] = "CONNECTING"]
    /\ proc' = [proc EXCEPT ![s] = "alive"]
    /\ Request(Boot, s, "initialize", "none")
    /\ UNCHANGED <<phase, pluginVars, registry, clients, connected, todo, stray, pipe>>

\* A missing or malformed list is an odd result.
list_tools(s) == Request(Boot, s, "tools/list", "none")

\* The handshake is answered: the client is connected and registered, and
\* discovery asks for the tools.
connect(s) ==
    /\ call[Boot].pc = "result" /\ call[Boot].method = "initialize" /\ call[Boot].server = s
    /\ connected' = [connected EXCEPT ![s] = TRUE]
    /\ clients' = clients \cup {s}
    /\ status' = [status EXCEPT ![s] = "CONNECTED"]
    /\ list_tools(s)
    /\ UNCHANGED <<phase, pluginVars, registry, proc, todo, stray, pipe>>

\* Faulty: a failed handshake is recorded and the transport is left connected.
handshake_failed_Connected(s) ==
    /\ call[Boot].pc \in {"mcp_error", "mcp_connection_error"}
    /\ call[Boot].method = "initialize" /\ call[Boot].server = s
    /\ status' = [status EXCEPT ![s] = "FAILED"]
    /\ todo' = Tail(todo)
    /\ call' = [call EXCEPT ![Boot] = NoCall]
    /\ UNCHANGED <<phase, pluginVars, registry, clients, connected, proc, stray,
                   ids, inbox, pipe, sent>>

\* A failed handshake disconnects the transport and so ends the subprocess.
handshake_failed(s) ==
    /\ call[Boot].pc \in {"mcp_error", "mcp_connection_error"}
    /\ call[Boot].method = "initialize" /\ call[Boot].server = s
    /\ proc' = [proc EXCEPT ![s] = IF @ = "alive" THEN "terminating" ELSE "none"]
    /\ call' = [call EXCEPT ![Boot].pc = "closing"]
    /\ UNCHANGED <<phase, pluginVars, registry, clients, status, connected, todo, stray,
                   ids, inbox, pipe, sent>>

\* Any other exception in the handshake, a result that is no object among them,
\* is not caught there: the registry records a failure and forgets the client.
handshake_raises(s) ==
    /\ call[Boot].pc = "odd"
    /\ call[Boot].method = "initialize" /\ call[Boot].server = s
    /\ status' = [status EXCEPT ![s] = "FAILED"]
    /\ stray' = stray \cup {s}
    /\ todo' = Tail(todo)
    /\ call' = [call EXCEPT ![Boot] = NoCall]
    /\ UNCHANGED <<phase, pluginVars, registry, clients, connected, proc,
                   ids, inbox, pipe, sent>>

\* _map_tool: the name of the server goes before the tool's own.
_map_tool(s, t) == [kind |-> "tool", name |-> Prefixed[<<s, t>>], owner |-> s]

\* Discovery: the tools that map are registered when the policy allows them and
\* their name is free.
discover(s) ==
    /\ call[Boot].pc = "result" /\ call[Boot].method = "tools/list" /\ call[Boot].server = s
    /\ \E listed \in SUBSET Tools :
          registry' = registry \cup
              { _map_tool(s, t) :
                    t \in { u \in listed : /\ authorize_tool(s, u)
                                          /\ ~Taken(registry, _map_tool(s, u)) } }
    /\ todo' = Tail(todo)
    /\ call' = [call EXCEPT ![Boot] = NoCall]
    /\ UNCHANGED <<phase, pluginVars, clients, status, connected, proc, stray,
                   ids, inbox, pipe, sent>>

\* Discovery fails: the server is unregistered, which terminates it.
discovery_failed(s) ==
    /\ call[Boot].pc \in {"mcp_error", "mcp_connection_error", "odd", "unknown_error"}
    /\ call[Boot].method = "tools/list" /\ call[Boot].server = s
    /\ clients' = clients \ {s}
    /\ connected' = [connected EXCEPT ![s] = FALSE]
    /\ proc' = [proc EXCEPT ![s] = IF @ = "alive" THEN "terminating" ELSE "none"]
    /\ call' = [call EXCEPT ![Boot].pc = "closing"]
    /\ UNCHANGED <<phase, pluginVars, registry, status, todo, stray,
                   ids, inbox, pipe, sent>>

\* disconnect returns: the subprocess has ended, or the wait timed out and it
\* was killed.
closed(s) ==
    /\ call[Boot].pc = "closing" /\ call[Boot].server = s
    /\ proc' = [proc EXCEPT ![s] = "none"]
    /\ inbox' = [inbox EXCEPT ![s] = {}]
    /\ status' = [status EXCEPT ![s] =
                     IF call[Boot].method = "initialize" THEN "FAILED" ELSE "DISCONNECTED"]
    /\ todo' = Tail(todo)
    /\ call' = [call EXCEPT ![Boot] = NoCall]
    /\ UNCHANGED <<phase, pluginVars, registry, clients, connected, stray, ids, pipe, sent>>

serve ==
    /\ phase = "mcp" /\ todo = <<>>
    /\ phase' = "serving"
    /\ UNCHANGED <<pluginVars, registry, serverVars, wireVars>>

-----------------------------------------------------------------------------
(* Tool calls *)

\* McpToolExecutionAdapter.execute of a registered tool: refused by a quota or
\* a disconnected client, or a tools/call on the wire.
execute(c) ==
    /\ phase \in {"serving", "stopping"}
    /\ call[c].pc = "idle" /\ sent < MaxMessages
    /\ \E s \in Servers, t \in Tools :
          /\ _map_tool(s, t) \in registry
          /\ connected[s] /\ proc[s] # "none"
          /\ Request(c, s, "tools/call", t)
    /\ UNCHANGED <<phase, pluginVars, registry, serverVars, pipe>>

\* The ToolResult is returned.
return(c) ==
    /\ c \in Callers
    /\ call[c].pc \in {"result", "odd", "mcp_error", "mcp_connection_error", "unknown_error"}
    /\ call' = [call EXCEPT ![c] = NoCall]
    /\ UNCHANGED <<phase, pluginVars, registry, serverVars, ids, inbox, pipe, sent>>

-----------------------------------------------------------------------------
(* Shutdown *)

\* disconnect_all: every client at once.
disconnect_all ==
    /\ phase = "serving"
    /\ phase' = "stopping"
    /\ connected' = [s \in Servers |-> FALSE]
    /\ proc' = [s \in Servers |-> IF s \in clients
                                  THEN IF proc[s] = "alive" THEN "terminating" ELSE "none"
                                  ELSE proc[s]]
    /\ UNCHANGED <<pluginVars, registry, clients, status, todo, stray, wireVars>>
\* Faulty: disconnect waits for the subprocess and never kills it.
_disconnect_one_Graceful(s) ==
    /\ phase = "stopping" /\ s \in clients /\ proc[s] = "dead"
    /\ proc' = [proc EXCEPT ![s] = "none"]
    /\ inbox' = [inbox EXCEPT ![s] = {}]
    /\ call' = Woken(s)
    /\ UNCHANGED <<phase, pluginVars, registry, clients, status, connected, todo, stray,
                   ids, pipe, sent>>

_disconnect_one(s) ==
    /\ phase = "stopping" /\ s \in clients /\ proc[s] # "none"
    /\ proc' = [proc EXCEPT ![s] = "none"]
    /\ inbox' = [inbox EXCEPT ![s] = {}]
    /\ call' = Woken(s)
    /\ UNCHANGED <<phase, pluginVars, registry, clients, status, connected, todo, stray,
                   ids, pipe, sent>>

\* The gather has returned: the clients are cleared, the statuses updated.
stopped ==
    /\ phase = "stopping" /\ \A s \in clients : proc[s] = "none"
    /\ phase' = "stopped"
    /\ clients' = {}
    /\ status' = [s \in Servers |-> IF status[s] \in {"CONNECTED", "CONNECTING"}
                                    THEN "DISCONNECTED" ELSE status[s]]
    /\ UNCHANGED <<pluginVars, registry, connected, proc, todo, stray, wireVars>>

-----------------------------------------------------------------------------
Loader(d) ==
    \/ reject(d) \/ import_fails(d) \/ start_registration(d)
    \/ registration_timeout(d) \/ rollback(d) \/ commit(d)

Startup(s) ==
    \/ skip_server(s) \/ spawn_fails(s) \/ spawn(s) \/ connect(s)
    \/ handshake_failed(s) \/ handshake_raises(s)
    \/ discover(s) \/ discovery_failed(s) \/ closed(s)

Thread(d) == register_ends(d) \/ \E o \in Offers[d] : stage(d, o)

Subprocess(s) == answer(s) \/ answer_again(s) \/ notify(s) \/ exit(s)

LifespanNext ==
    \/ \E d \in Dirs : Loader(d) \/ Thread(d)
    \/ plugins_loaded
    \/ \E s \in Servers : Startup(s) \/ Subprocess(s) \/ _disconnect_one(s)
    \/ serve \/ disconnect_all \/ stopped
    \/ \E c \in DOMAIN call : readline(c) \/ request_timeout(c)
    \/ \E c \in Callers : execute(c) \/ return(c)

LifespanSpec == LifespanInit /\ [][LifespanNext]_lifespanVars

(***************************************************************************)
(* Fairness: the loader's wait and every request have timeouts, and the    *)
(* loop runs what is ready.  Nothing is assumed of a plugin's thread or of *)
(* a subprocess.                                                           *)
(***************************************************************************)
LifespanFairSpec ==
    /\ LifespanSpec
    /\ \A d \in Dirs : WF_lifespanVars(Loader(d))
    /\ \A s \in Servers : WF_lifespanVars(Startup(s)) /\ WF_lifespanVars(_disconnect_one(s))
    /\ WF_lifespanVars(plugins_loaded) /\ WF_lifespanVars(serve) /\ WF_lifespanVars(stopped)
    /\ \A c \in Callers \cup {Boot} : WF_lifespanVars(request_timeout(c) \/ readline(c))
    /\ \A c \in Callers : WF_lifespanVars(return(c))

-----------------------------------------------------------------------------
(* Properties *)

LifespanTypeOK ==
    /\ phase \in {"plugins", "mcp", "serving", "stopping", "stopped"}
    /\ plugin \in [Dirs -> {"new", "failed", "import_failed", "loaded"}]
    /\ thread \in [Dirs -> {"none", "running", "returned", "raised"}]
    /\ \A e \in registry : e.owner \in Dirs \cup Servers \cup {"core"}
    /\ clients \subseteq Servers /\ stray \subseteq Servers
    /\ proc \in [Servers -> {"none", "alive", "terminating", "dead"}]

\* The registries hold entries of known owners and kinds of state only, and
\* what a plugin contributed is in the registries if and only if the plugin is
\* recorded as loaded: a load that fails half way through commit, or whose
\* thread goes on after the timeout, leaves nothing behind, and its rollback
\* takes nothing from a plugin that was loaded before it.
PluginsAllOrNothing ==
    /\ LifespanTypeOK
    /\ \A d \in Dirs :
        { e \in registry : e.owner = d } =
            IF plugin[d] = "loaded" THEN registrar[d].committed ELSE {}

\* A result a caller accepts is the answer to that very request, whatever late
\* answers, notifications and other callers' lines the pipe holds.
AnswerIsOwn ==
    \A c \in DOMAIN call :
        call[c].pc \in {"result", "odd"} => call[c].line.of = call[c].number

\* A registered MCP tool belongs to a server that is connected, until shutdown;
\* and after shutdown no subprocess runs, but for those whose handshake raised
\* what StdioMcpClient.connect does not catch.
NoStrayServer ==
    /\ phase = "serving" =>
          \A e \in registry : e.owner \in Servers => e.owner \in clients /\ connected[e.owner]
    /\ phase = "stopped" =>
          \A s \in Servers \ stray : proc[s] = "none"

\* Startup ends although a plugin's register() never returns and a server never
\* answers, and a shutdown ends although a server ignores SIGTERM.
StartsAndStops ==
    /\ <>(phase = "serving")
    /\ phase = "stopping" ~> phase = "stopped"

====
