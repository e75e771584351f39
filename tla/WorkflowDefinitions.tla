------------------------- MODULE WorkflowDefinitions -------------------------
(***************************************************************************)
(* The definitions a workflow run executes: the graph validator, creation,  *)
(* update and archiving of definitions, and the launch of runs by the API   *)
(* and by the workflow tool of an agent.                                    *)
(*                                                                         *)
(* One owner and one workflow name, so that a definition is known by its    *)
(* version (owner, name and version are unique).  An edge is the pair of    *)
(* its nodes, which is also its id.                                         *)
(***************************************************************************)
EXTENDS Integers, FiniteSets

CONSTANTS
    Graphs,         \* the graphs that requests submit, acceptable or not
    Clients,        \* requests in progress
    Keys,           \* idempotency keys
    MaxNodes,       \* settings.workflow_max_nodes_per_definition
    MaxBranches,    \* settings.workflow_max_parallel_branches
    PluginTypes,    \* node types of the plugins that are loaded
    MaxVersion, MaxOps, MaxCrashes, \* bounds
    None

ASSUME DefinitionsAssumption ==
    /\ MaxNodes \in Nat /\ MaxBranches \in Nat
    /\ MaxVersion \in Nat \ {0} /\ MaxOps \in Nat /\ MaxCrashes \in Nat

\* A graph is submitted as a list of nodes and a list of edges.
ASSUME GraphsAssumption == \A g \in Graphs : IsFiniteSet(g.edges)

Versions == 1..MaxVersion
NodeType == {"task", "llm", "agent", "router", "fork", "join", "approval", "plugin", "terminal"}
DefinitionStatus == {"draft", "active", "archived"}

\* A row of workflow_definitions, which the absence of a row is none of.
Definition == [graph : Graphs, status : DefinitionStatus]

ASSUME NoneAssumption == None \notin Definition

(***************************************************************************)
(* GraphValidator.  A graph has nodes, edges, entry, kind, the pair of each *)
(* fork and join, the conditional edges, approved and rejected edge of each *)
(* approval (or None), the plugin type of plugin nodes, the wrong fields of *)
(* each configuration, the edges with a malformed condition, and the nodes  *)
(* that name a tool for which the approval policy requires an approval.     *)
(***************************************************************************)
Out(g, n) == {e \in g.edges : e[1] = n}
_build_adjacency(g, n) == {e[2] : e \in Out(g, n)}
_build_reverse_adjacency(g, n) == {e[1] : e \in {d \in g.edges : d[2] = n}}

\* The nodes a work list starting at S reaches.
Reached(g, S) ==
    LET Closed(T) == S \subseteq T /\ \A n \in T : _build_adjacency(g, n) \subseteq T
    IN {n \in g.nodes : \A T \in SUBSET g.nodes : Closed(T) => n \in T}

_validate_node_count(g) == Cardinality(g.nodes) <= MaxNodes

_validate_entry_node(g) == g.entry \in g.nodes

_validate_node_types(g) == \A n \in g.nodes : g.kind[n] \in NodeType

_validate_plugin_nodes(g) ==
    \A n \in g.nodes : g.kind[n] = "plugin" => g.plugin[n] \in PluginTypes

\* A node's configuration, as the set of its fields with a wrong shape; a
\* template reference "@..." is wrong in an agent's fields and must have
\* three parts in an LLM node's.
_validate_llm_node_config(wrong) ==
    wrong \cap {"prompt_template", "model_override", "template_parts"} = {}

_validate_agent_node_config(wrong) ==
    wrong \cap {"goal", "goal_template", "instructions", "instructions_template",
               "tool_names", "max_iterations", "model_override"} = {}

_validate_approval_node_config(wrong) == wrong \cap {"approved_edge_id", "rejected_edge_id"} = {}

\* "schema" is the configuration schema the plugin declares, if any.
_validate_plugin_node_config(wrong) == wrong \cap {"plugin_id", "plugin_node_type", "schema"} = {}

validate_node_configs(g) ==
    \A n \in g.nodes :
        /\ g.kind[n] = "llm" => _validate_llm_node_config(g.wrong[n])
        /\ g.kind[n] = "agent" => _validate_agent_node_config(g.wrong[n])
        /\ g.kind[n] = "approval" => _validate_approval_node_config(g.wrong[n])
        /\ g.kind[n] = "plugin" => _validate_plugin_node_config(g.wrong[n])

\* Conditions are well-formed expressions of the condition language.
validate_condition_shape(g) == g.malformed = {}

_validate_dangling_edges(g) == g.edges \subseteq g.nodes \X g.nodes

_validate_cycles(g) == \A n \in g.nodes : n \notin Reached(g, _build_adjacency(g, n))

_validate_reachability(g) == g.nodes \subseteq Reached(g, {g.entry})

_validate_fork_join_pairing(g) ==
    \A n \in g.nodes :
        /\ g.kind[n] \in {"fork", "join"} =>
             /\ g.pair[n] \in g.nodes
             /\ {g.kind[n], g.kind[g.pair[n]]} = {"fork", "join"}
             /\ g.pair[g.pair[n]] = n
        /\ g.kind[n] = "fork" => Cardinality(Out(g, n)) <= MaxBranches

\* Faulty: an approval may have only conditional edges.
_validate_approval_nodes_Lax(g) ==
    \A n \in g.nodes : g.kind[n] = "approval" =>
        LET open == Out(g, n) \ g.conditional IN
        /\ Out(g, n) # {}
        /\ {g.approved[n], g.rejected[n]} \subseteq Out(g, n) \cup {None}
        /\ g.approved[n] # None => g.approved[n] # g.rejected[n]
        /\ Cardinality(open) > 1 => g.approved[n] # None

_validate_approval_nodes(g) ==
    \A n \in g.nodes : g.kind[n] = "approval" =>
        LET open == Out(g, n) \ g.conditional IN
        /\ Out(g, n) # {}
        /\ {g.approved[n], g.rejected[n]} \subseteq Out(g, n) \cup {None}
        /\ g.approved[n] # None => g.approved[n] # g.rejected[n]
        /\ Cardinality(open) # 1 => g.approved[n] # None

\* Faulty: one protected way into a node is enough.
_compute_approval_protected_nodes_Any(g) ==
    CHOOSE p \in [g.nodes -> BOOLEAN] :
        \A n \in g.nodes :
            LET before == _build_reverse_adjacency(g, n) IN
            p[n] <=> IF n = g.entry THEN g.kind[n] = "approval"
                     ELSE \E m \in before : g.kind[m] = "approval" \/ p[m]

\* In topological order, so that each node follows its predecessors: on a
\* graph without cycles the equations have one solution.
_compute_approval_protected_nodes(g) ==
    CHOOSE p \in [g.nodes -> BOOLEAN] :
        \A n \in g.nodes :
            LET before == _build_reverse_adjacency(g, n) IN
            p[n] <=> IF n = g.entry THEN g.kind[n] = "approval"
                     ELSE before # {} /\ \A m \in before : g.kind[m] = "approval" \/ p[m]

_referenced_tool_names(g, n) == g.kind[n] \in {"task", "agent"} /\ n \in g.flagged

_validate_approval_required_tool_reachability(g) ==
    \A n \in g.nodes :
        _referenced_tool_names(g, n) => _compute_approval_protected_nodes(g)[n]

\* Each check runs only on a graph that passed the ones before it.
validate(g) ==
    /\ _validate_node_count(g) /\ _validate_entry_node(g) /\ _validate_node_types(g)
    /\ validate_node_configs(g) /\ _validate_plugin_nodes(g)
    /\ _validate_dangling_edges(g) /\ validate_condition_shape(g)
    /\ _validate_cycles(g) /\ _validate_reachability(g)
    /\ _validate_fork_join_pairing(g) /\ _validate_approval_nodes(g)
    /\ _validate_approval_required_tool_reachability(g)

\* nodes/approval_node.py: the edges a decision activates, {} for an error
\* or, after a rejection, for the failure of the run.
resolve_approval_selected_edge_ids(g, n, decision) ==
    LET open == Out(g, n) \ g.conditional IN
    CASE decision = "approved" /\ g.approved[n] # None -> {g.approved[n]}
      [] decision = "approved" /\ g.approved[n] = None /\ Cardinality(open) = 1 -> open
      [] decision = "rejected" /\ g.rejected[n] # None -> {g.rejected[n]}
      [] OTHER -> {}

(***************************************************************************)
(* Definitions and runs.                                                   *)
(***************************************************************************)
VARIABLES
    defs,      \* workflow_definitions, by version
    runs,      \* workflow_runs: version and key
    executed,  \* history: the graphs each run was executed with
    launched,  \* history: how often each run was scheduled by its launch
    active,    \* _ACTIVE_RUN_IDS
    client,    \* the requests in progress
    ops, crashes

vars == <<defs, runs, executed, launched, active, client, ops, crashes>>

AllRuns == Versions \X Keys
Idle == [pc |-> "idle"]
Accepted == {g \in Graphs : validate(g)}

Init ==
    /\ defs = [v \in Versions |-> None]
    /\ runs = {}
    /\ executed = [r \in AllRuns |-> {}]
    /\ launched = [r \in AllRuns |-> 0]
    /\ active = {}
    /\ client = [c \in Clients |-> Idle]
    /\ ops = 0 /\ crashes = 0

Begin(c, q) ==
    /\ client[c] = Idle /\ ops < MaxOps
    /\ ops' = ops + 1
    /\ client' = [client EXCEPT ![c] = q]
    /\ UNCHANGED <<defs, runs, executed, launched, active, crashes>>

Proceed(c, pc) == client' = [client EXCEPT ![c].pc = pc]
Answer(c) == client' = [client EXCEPT ![c] = Idle]

\* Another transaction holds the row of this version.
Locked(c, v) == \E d \in Clients \ {c} : client[d].pc = "commit" /\ client[d].row = v

\* POST /api/workflows: version 1, which must not exist.
create_definition(c, g, status) ==
    /\ g \in Accepted
    /\ Begin(c, [pc |-> "insert", row |-> 1, graph |-> g, status |-> status])

\* PUT: the definition is read and the new graph validated ...
update_definition(c, v, g, status) ==
    /\ defs[v] # None /\ g \in Accepted
    /\ Begin(c, [pc |-> "list_runs", row |-> v, graph |-> g, status |-> status])

\* ... with runs it becomes another version, otherwise it is replaced.
list_runs(c) ==
    LET q == client[c] IN
    /\ q.pc = "list_runs"
    /\ IF \E k \in Keys : <<q.row, k>> \in runs
       THEN IF q.row = MaxVersion THEN Answer(c)
            ELSE client' = [client EXCEPT ![c].pc = "insert", ![c].row = q.row + 1]
       ELSE Proceed(c, "count_runs")
    /\ UNCHANGED <<defs, runs, executed, launched, active, ops, crashes>>

\* The store counts again before it replaces the row (require_no_runs).
count_runs(c) ==
    LET q == client[c] IN
    /\ q.pc = "count_runs"
    /\ IF \E k \in Keys : <<q.row, k>> \in runs THEN Answer(c) ELSE Proceed(c, "update")
    /\ UNCHANGED <<defs, runs, executed, launched, active, ops, crashes>>

\* DELETE: the row as read, with another status.
archive_definition(c, v) ==
    /\ defs[v] # None
    /\ Begin(c, [pc |-> "update", row |-> v, graph |-> defs[v].graph,
                 status |-> "archived"])

\* INSERT: a second definition of the version violates the unique key.
insert(c) ==
    LET q == client[c] IN
    /\ q.pc = "insert"
    /\ ~Locked(c, q.row)
    /\ IF defs[q.row] = None THEN Proceed(c, "commit") ELSE Answer(c)
    /\ UNCHANGED <<defs, runs, executed, launched, active, ops, crashes>>

\* UPDATE ... WHERE version = expected_version: no update changes it.
update(c) ==
    /\ client[c].pc = "update"
    /\ ~Locked(c, client[c].row)
    /\ Proceed(c, "commit")
    /\ UNCHANGED <<defs, runs, executed, launched, active, ops, crashes>>

Commit(c) ==
    LET q == client[c] IN
    /\ q.pc = "commit"
    /\ defs' = [defs EXCEPT ![q.row] = [graph |-> q.graph, status |-> q.status]]
    /\ Answer(c)
    /\ UNCHANGED <<runs, executed, launched, active, ops, crashes>>

\* start_run: the definition must be active when it is read.
start_run(c, v, k) ==
    /\ defs[v] # None
    /\ defs[v].status = "active"
    /\ Begin(c, [pc |-> "get_or_create_run", row |-> v, key |-> k])

\* Faulty: a run found under the key is scheduled as well.
get_or_create_run_Always(c) ==
    LET q == client[c] IN
    /\ q.pc = "get_or_create_run"
    /\ runs' = runs \cup {<<q.row, q.key>>}
    /\ Proceed(c, "schedule")
    /\ UNCHANGED <<defs, executed, launched, active, ops, crashes>>

\* _persist_run_idempotently inserts and commits; only the request whose
\* row it was schedules the run.
get_or_create_run(c) ==
    LET q == client[c] IN
    /\ q.pc = "get_or_create_run"
    /\ runs' = runs \cup {<<q.row, q.key>>}
    /\ IF <<q.row, q.key>> \in runs THEN Answer(c) ELSE Proceed(c, "schedule")
    /\ UNCHANGED <<defs, executed, launched, active, ops, crashes>>

\* _schedule_run at once, or flush_deferred_run_schedules after the commit
\* of the tool's own session.
schedule(c) ==
    LET r == <<client[c].row, client[c].key>> IN
    /\ client[c].pc = "schedule"
    /\ launched' = [launched EXCEPT ![r] = @ + 1]
    /\ active' = active \cup {r}
    /\ Answer(c)
    /\ UNCHANGED <<defs, runs, executed, ops, crashes>>

\* The request fails: a rollback, discard_deferred_run_schedules.  The run
\* row, committed before, stays without an executor.
Fail(c) ==
    /\ client[c] # Idle
    /\ Answer(c)
    /\ UNCHANGED <<defs, runs, executed, launched, active, ops, crashes>>

\* execute_run loads the definition, at the launch and at each resumption.
execute_run(r) ==
    /\ r \in active
    /\ executed' = [executed EXCEPT ![r] = @ \cup {defs[r[1]].graph}]
    /\ active' = active \ {r}
    /\ UNCHANGED <<defs, runs, launched, client, ops, crashes>>

\* The process dies; the next one takes up every run that is not finished.
Restart ==
    /\ crashes < MaxCrashes
    /\ crashes' = crashes + 1
    /\ client' = [c \in Clients |-> Idle]
    /\ active' = runs
    /\ UNCHANGED <<defs, runs, executed, launched, ops>>

\* The runs that are finished and older than the retention: the executor has left
\* them, and no request of that age is under way.
_delete_workflow_runs_batch(r) ==
    /\ r \in runs \ active
    /\ executed[r] # {}

\* The retention job deletes such a run, and with it the use of its key.
workflow_run_retention_cleanup(r) ==
    /\ _delete_workflow_runs_batch(r)
    /\ runs' = runs \ {r}
    /\ launched' = [launched EXCEPT ![r] = 0]
    /\ executed' = [executed EXCEPT ![r] = {}]
    /\ UNCHANGED <<defs, active, client, ops, crashes>>

Next ==
    \/ \E c \in Clients :
         \/ \E g \in Accepted, status \in DefinitionStatus :
              \/ create_definition(c, g, status)
              \/ \E v \in Versions : update_definition(c, v, g, status)
         \/ \E v \in Versions : archive_definition(c, v)
         \/ \E v \in Versions, k \in Keys : start_run(c, v, k)
         \/ list_runs(c) \/ count_runs(c) \/ insert(c) \/ update(c) \/ Commit(c)
         \/ get_or_create_run(c) \/ schedule(c) \/ Fail(c)
    \/ \E r \in AllRuns : execute_run(r) \/ workflow_run_retention_cleanup(r)
    \/ Restart

Spec == Init /\ [][Next]_vars

(***************************************************************************)
(* Properties.                                                             *)
(***************************************************************************)
TypeOK ==
    /\ \A v \in Versions : defs[v] # None =>
          defs[v].graph \in Accepted /\ defs[v].status \in DefinitionStatus
    /\ runs \subseteq AllRuns /\ active \subseteq runs
    /\ \A r \in runs : defs[r[1]] # None
    /\ executed \in [AllRuns -> SUBSET Accepted]

\* The nodes a run can come to without leaving an approval node.
Unapproved(g) ==
    LET Closed(T) == g.entry \in T /\ \A e \in g.edges :
            e[1] \in T /\ g.kind[e[1]] # "approval" => e[2] \in T
    IN {n \in g.nodes : \A T \in SUBSET g.nodes : Closed(T) => n \in T}

\* No run executes a graph in which some path reaches a tool that requires
\* an approval without passing an approval node, whatever the sequence of
\* definitions and updates (the reachability check of GraphValidator).
ApprovalPrecedes ==
    \A r \in AllRuns : \A g \in executed[r] :
        \A n \in Unapproved(g) : ~_referenced_tool_names(g, n)

\* What the validator accepts the engine can continue: when an approval node
\* of an executed graph is approved there is exactly one of its edges to
\* take; a rejection takes one of its edges or fails the run; and the two
\* decisions take the same edge only where the node names no approved edge and
\* names its only edge without a condition as the rejected one, which the
\* validator accepts.
DecisionHasEdge ==
    \A r \in AllRuns : \A g \in executed[r] : \A n \in g.nodes :
        g.kind[n] = "approval" =>
            LET yes == resolve_approval_selected_edge_ids(g, n, "approved")
                no == resolve_approval_selected_edge_ids(g, n, "rejected")
            IN /\ Cardinality(yes) = 1 /\ yes \subseteq Out(g, n)
               /\ no \in {{}, {g.rejected[n]}} /\ no \subseteq Out(g, n)
               /\ yes \cap no # {} =>
                    /\ g.approved[n] = None
                    /\ Out(g, n) \ g.conditional = {g.rejected[n]}

\* Rows keep their types, a run has its definition, and however many requests
\* name the same idempotency key at once, the run is
\* scheduled by one of them only (get_or_create_run, start_run).
LaunchedOnce == TypeOK /\ \A r \in AllRuns : launched[r] <= 1
===============================================================================
