---------------------- MODULE WorkflowDefinitionsProofs ----------------------
(***************************************************************************)
(* Proofs about WorkflowDefinitions for any graphs, any number of clients, *)
(* keys, versions, requests and crashes.                                   *)
(***************************************************************************)
EXTENDS WorkflowDefinitions, FiniteSetTheorems, Integrations, TLAPS

(* The validator *)

\* What _compute_approval_protected_nodes asks of each node.
Protects(g, p) ==
    \A n \in g.nodes :
        p[n] <=> IF n = g.entry THEN g.kind[n] = "approval"
                 ELSE /\ _build_reverse_adjacency(g, n) # {}
                      /\ \A m \in _build_reverse_adjacency(g, n) : g.kind[m] = "approval" \/ p[m]

\* The nodes that are unprotected when those of T are.
Exposed(g, T) ==
    {n \in g.nodes :
        IF n = g.entry THEN g.kind[n] # "approval"
        ELSE \/ _build_reverse_adjacency(g, n) = {}
             \/ \E m \in _build_reverse_adjacency(g, n) : g.kind[m] # "approval" /\ m \in T}

\* Every predecessor of a node is a node when no edge dangles.
LEMMA PredecessorsAreNodes ==
    ASSUME NEW g, _validate_dangling_edges(g), NEW n
    PROVE  _build_reverse_adjacency(g, n) \subseteq g.nodes
BY DEF _validate_dangling_edges, _build_reverse_adjacency

\* The equations of the topological pass have a solution on every graph: the
\* least set of exposed nodes is a fixed point.
LEMMA ProtectionExists ==
    ASSUME NEW g, _validate_dangling_edges(g)
    PROVE  \E p \in [g.nodes -> BOOLEAN] : Protects(g, p)
<1> DEFINE F(T) == Exposed(g, T)
           U == {n \in g.nodes : \A T \in SUBSET g.nodes : F(T) \subseteq T => n \in T}
<1>1. ASSUME NEW S, NEW T, S \subseteq T PROVE F(S) \subseteq F(T)
  BY <1>1 DEF Exposed
<1>2. \A T : F(T) \in SUBSET g.nodes
  BY DEF Exposed
<1>3. F(U) \subseteq U
  <2> SUFFICES ASSUME NEW n \in F(U), NEW T \in SUBSET g.nodes, F(T) \subseteq T
               PROVE  n \in T
    BY <1>2
  <2>1. U \subseteq T
    OBVIOUS
  <2> QED
    BY <2>1, <1>1
<1>4. U \subseteq F(U)
  <2>1. F(F(U)) \subseteq F(U)
    BY <1>1, <1>3
  <2> QED
    BY <1>2, <2>1
<1>5. \A n \in g.nodes : n \in U <=> n \in F(U)
  BY <1>3, <1>4
<1> HIDE DEF U
<1>6. Protects(g, [n \in g.nodes |-> n \notin U])
  BY <1>5, PredecessorsAreNodes DEF Protects, Exposed
<1> QED
  BY <1>6

\* ... and _compute_approval_protected_nodes is one.
LEMMA ProtectionHolds ==
    ASSUME NEW g, _validate_dangling_edges(g)
    PROVE  Protects(g, _compute_approval_protected_nodes(g))
BY ProtectionExists DEF Protects, _compute_approval_protected_nodes

\* In an accepted graph every way to a tool that requires an approval passes an
\* approval node.
LEMMA AcceptedIsGuarded ==
    ASSUME NEW g, validate(g), NEW n \in Unapproved(g)
    PROVE  ~_referenced_tool_names(g, n)
<1> DEFINE p == _compute_approval_protected_nodes(g)
           T == {m \in g.nodes : ~p[m]} \cup {g.entry}
<1>1. _validate_dangling_edges(g) /\ g.entry \in g.nodes /\ n \in g.nodes
  BY DEF validate, _validate_entry_node, Unapproved
<1>2. Protects(g, p)
  BY <1>1, ProtectionHolds
<1> HIDE DEF p
<1>3. ASSUME NEW e \in g.edges, e[1] \in T, g.kind[e[1]] # "approval"
      PROVE  e[2] \in T
  <2>1. e[1] \in g.nodes /\ e[2] \in g.nodes
    BY <1>1 DEF _validate_dangling_edges
  <2>2. e[1] \in _build_reverse_adjacency(g, e[2])
    BY DEF _build_reverse_adjacency
  <2>3. ~p[e[1]]
    BY <1>2, <1>3, <2>1 DEF Protects
  <2> QED
    BY <1>2, <1>3, <2>1, <2>2, <2>3 DEF Protects
<1>4. n \in T
  BY <1>1, <1>3 DEF Unapproved
<1>5. _referenced_tool_names(g, n) => p[n]
  BY <1>1 DEF validate, _validate_approval_required_tool_reachability, p
<1> QED
  BY <1>1, <1>2, <1>4, <1>5 DEF Protects, _referenced_tool_names

\* In an accepted graph an approval leads to one edge of its node and a rejection
\* to one of its edges or to none; they share an edge only where it is the node's
\* only edge without a condition, and the node names no approved edge.
LEMMA AcceptedDecides ==
    ASSUME NEW g \in Accepted, NEW n \in g.nodes, g.kind[n] = "approval"
    PROVE  LET yes == resolve_approval_selected_edge_ids(g, n, "approved")
               no == resolve_approval_selected_edge_ids(g, n, "rejected")
           IN /\ Cardinality(yes) = 1 /\ yes \subseteq Out(g, n)
              /\ no \in {{}, {g.rejected[n]}} /\ no \subseteq Out(g, n)
              /\ yes \cap no # {} =>
                   /\ g.approved[n] = None
                   /\ Out(g, n) \ g.conditional = {g.rejected[n]}
<1> DEFINE open == Out(g, n) \ g.conditional
           yes == resolve_approval_selected_edge_ids(g, n, "approved")
           no == resolve_approval_selected_edge_ids(g, n, "rejected")
<1>1. /\ {g.approved[n], g.rejected[n]} \subseteq Out(g, n) \cup {None}
      /\ g.approved[n] # None => g.approved[n] # g.rejected[n]
      /\ Cardinality(open) # 1 => g.approved[n] # None
  BY DEF Accepted, validate, _validate_approval_nodes
<1>2. no \in {{}, {g.rejected[n]}} /\ no \subseteq Out(g, n)
  BY <1>1 DEF resolve_approval_selected_edge_ids
<1>3. CASE g.approved[n] # None
  <2>1. yes = {g.approved[n]}
    BY <1>3 DEF resolve_approval_selected_edge_ids
  <2>2. Cardinality({g.approved[n]}) = 1
    BY FS_Singleton
  <2>3. yes \cap no = {}
    <3> HIDE DEF yes, no
    <3> QED
      BY <1>1, <1>2, <1>3, <2>1
  <2>4. g.approved[n] \in Out(g, n)
    BY <1>1, <1>3
  <2> QED
    BY <1>2, <2>1, <2>2, <2>3, <2>4
<1>4. CASE g.approved[n] = None
  <2>1. Cardinality(open) = 1 /\ yes = open
    BY <1>1, <1>4 DEF resolve_approval_selected_edge_ids
  <2>2. IsFiniteSet(open)
    BY GraphsAssumption, FS_Subset DEF Accepted, Out
  <2>3. PICK d : open = {d}
    BY <2>1, <2>2, FS_Singleton
  <2> HIDE DEF yes, no, open
  <2>4. yes \cap no # {} => open = {g.rejected[n]}
    BY <1>2, <2>1, <2>3
  <2>5. yes \subseteq Out(g, n)
    BY <2>1 DEF open
  <2> QED
    BY <1>2, <1>4, <2>1, <2>4, <2>5 DEF open, yes, no
<1> QED
  BY <1>3, <1>4

(* Definitions and runs *)

DefinitionRequest ==
    [pc : {"insert", "list_runs", "count_runs", "update", "commit"},
     row : Versions, graph : Accepted, status : DefinitionStatus]

RunRequest == [pc : {"get_or_create_run", "schedule"}, row : Versions, key : Keys]

\* The request of c has inserted the run r and not scheduled it yet.
AboutToSchedule(c, r) == client[c].pc = "schedule" /\ <<client[c].row, client[c].key>> = r

ValidRows ==
    /\ defs \in [Versions -> {None} \cup [graph : Accepted, status : DefinitionStatus]]
    /\ client \in [Clients -> {Idle} \cup DefinitionRequest \cup RunRequest]
    /\ \A c \in Clients : client[c] \in RunRequest => defs[client[c].row] # None

ValidRuns ==
    /\ runs \subseteq AllRuns /\ active \subseteq runs
    /\ \A r \in runs : defs[r[1]] # None
    /\ executed \in [AllRuns -> SUBSET Accepted]
    /\ launched \in [AllRuns -> {0, 1}]

\* Nothing is known of a run without a row, nor of one about to be scheduled,
\* and a run is about to be scheduled by one request only.
FreshRuns ==
    /\ \A r \in AllRuns \ runs : executed[r] = {} /\ launched[r] = 0
    /\ \A c \in Clients, r \in AllRuns : AboutToSchedule(c, r) =>
          /\ r \in runs \ active /\ executed[r] = {} /\ launched[r] = 0
          /\ \A d \in Clients : AboutToSchedule(d, r) => d = c

IInv == ValidRows /\ ValidRuns /\ FreshRuns

\* A row is never mistaken for the absence of one.
LEMMA RowIsNotNone ==
    ASSUME NEW g \in Accepted, NEW s \in DefinitionStatus
    PROVE  [graph |-> g, status |-> s] # None
BY NoneAssumption DEF Definition, Accepted

\* No definition, run or request exists at first.
LEMMA InitInv == Init => IInv
BY DEF Init, IInv, ValidRows, ValidRuns, FreshRuns, AboutToSchedule, Idle, RunRequest

\* A step that gives c another request, not one about to schedule, and nothing
\* else keeps the invariant.
LEMMA RequestInv ==
    ASSUME IInv, NEW c \in Clients,
           NEW q \in {Idle} \cup DefinitionRequest \cup RunRequest,
           q.pc # "schedule", q \in RunRequest => defs[q.row] # None,
           client' = [client EXCEPT ![c] = q],
           UNCHANGED <<defs, runs, executed, launched, active>>
    PROVE  IInv'
<1> USE DEF IInv
<1>1. ValidRows'
  BY DEF ValidRows
<1>2. ValidRuns'
  BY DEF ValidRuns
<1>3. FreshRuns'
  BY DEF FreshRuns, AboutToSchedule, ValidRows
<1> QED
  BY <1>1, <1>2, <1>3

\* A definition request that moves on or is answered keeps the invariant.
LEMMA ProceedInv ==
    ASSUME IInv, NEW c \in Clients, client[c] \in DefinitionRequest,
           NEW pc \in {"insert", "list_runs", "count_runs", "update", "commit"},
           NEW v \in Versions,
           \/ client' = [client EXCEPT ![c].pc = pc]
           \/ client' = [client EXCEPT ![c].pc = pc, ![c].row = v]
           \/ client' = [client EXCEPT ![c] = Idle],
           UNCHANGED <<defs, runs, executed, launched, active>>
    PROVE  IInv'
<1>1. CASE client' = [client EXCEPT ![c] = Idle]
  BY <1>1, RequestInv DEF Idle, RunRequest
<1>2. CASE client' = [client EXCEPT ![c].pc = pc]
  <2> DEFINE q == [client[c] EXCEPT !.pc = pc]
  <2>1. q \in DefinitionRequest /\ q.pc = pc
    BY DEF DefinitionRequest
  <2>2. client' = [client EXCEPT ![c] = q]
    BY <1>2
  <2> HIDE DEF q
  <2> QED
    BY <2>1, <2>2, RequestInv DEF RunRequest
<1>3. CASE client' = [client EXCEPT ![c].pc = pc, ![c].row = v]
  <2> DEFINE q == [client[c] EXCEPT !.pc = pc, !.row = v]
  <2>1. q \in DefinitionRequest /\ q.pc = pc
    BY DEF DefinitionRequest
  <2>2. client' = [client EXCEPT ![c] = q]
    BY <1>3 DEF IInv, ValidRows
  <2> HIDE DEF q
  <2> QED
    BY <2>1, <2>2, RequestInv DEF RunRequest
<1> QED
  BY <1>1, <1>2, <1>3

\* The actor and the program counter tell which request it is.
LEMMA RequestOfPc ==
    ASSUME IInv, NEW c \in Clients
    PROVE  /\ client[c].pc \in {"insert", "list_runs", "count_runs", "update", "commit"}
                => client[c] \in DefinitionRequest
           /\ client[c].pc \in {"get_or_create_run", "schedule"} => client[c] \in RunRequest
BY DEF IInv, ValidRows, Idle, DefinitionRequest, RunRequest

\* Commit gives a version a row and takes none away.
LEMMA CommitInv ==
    ASSUME IInv, NEW c \in Clients, Commit(c)
    PROVE  IInv'
<1> DEFINE q == client[c]
           row == [graph |-> q.graph, status |-> q.status]
<1>1. q \in DefinitionRequest
  BY RequestOfPc DEF Commit
<1>2. /\ q.row \in Versions /\ q.graph \in Accepted /\ q.status \in DefinitionStatus
      /\ row \in [graph : Accepted, status : DefinitionStatus]
      /\ row # None
  BY <1>1, RowIsNotNone DEF DefinitionRequest
<1>3. /\ defs' = [defs EXCEPT ![q.row] = row]
      /\ client' = [client EXCEPT ![c] = Idle]
      /\ UNCHANGED <<runs, executed, launched, active>>
  BY DEF Commit, Answer
<1> HIDE DEF row
<1>4. \A v \in Versions : defs[v] # None => defs'[v] # None
  BY <1>2, <1>3 DEF IInv, ValidRows
<1>5. Idle \notin RunRequest /\ Idle.pc # "schedule"
  BY DEF Idle, RunRequest
<1>6. \A d \in Clients : client[d] \in RunRequest => client[d].row \in Versions
  BY DEF RunRequest
<1>7. ValidRows'
  BY <1>2, <1>3, <1>4, <1>5, <1>6 DEF IInv, ValidRows
<1>8. ValidRuns'
  BY <1>3, <1>4 DEF IInv, ValidRuns, AllRuns
<1>9. FreshRuns'
  BY <1>3, <1>5 DEF IInv, FreshRuns, AboutToSchedule, ValidRows
<1> QED
  BY <1>7, <1>8, <1>9 DEF IInv

\* Only the request that finds no row under the key goes on to schedule.
LEMMA CreateRunInv ==
    ASSUME IInv, NEW c \in Clients, get_or_create_run(c)
    PROVE  IInv'
<1> DEFINE r == <<client[c].row, client[c].key>>
<1>1. client[c] \in RunRequest
  BY RequestOfPc DEF get_or_create_run
<1>2. r \in AllRuns /\ defs[client[c].row] # None
  BY <1>1 DEF RunRequest, AllRuns, IInv, ValidRows
<1>3. runs' = runs \cup {r} /\ UNCHANGED <<defs, executed, launched, active>>
  BY DEF get_or_create_run
<1>4. CASE r \in runs
  <2>1. runs' = runs /\ client' = [client EXCEPT ![c] = Idle]
    BY <1>3, <1>4 DEF get_or_create_run, Answer
  <2> QED
    BY <1>3, <2>1, RequestInv DEF Idle, RunRequest
<1>5. CASE r \notin runs
  <2> DEFINE q == [client[c] EXCEPT !.pc = "schedule"]
  <2>1. /\ q \in RunRequest /\ q.pc = "schedule"
        /\ q.row = client[c].row /\ q.key = client[c].key
    BY <1>1 DEF RunRequest
  <2>2. client' = [client EXCEPT ![c] = q]
    BY <1>5 DEF get_or_create_run, Proceed
  <2>3. r[1] = client[c].row
    OBVIOUS
  <2> HIDE DEF q
  <2>4. ValidRows'
    BY <1>2, <1>3, <2>1, <2>2 DEF IInv, ValidRows
  <2>5. ValidRuns'
    BY <1>2, <1>3, <2>3 DEF IInv, ValidRuns
  <2>6. /\ \A s : AboutToSchedule(c, s)' <=> s = r
        /\ \A d \in Clients \ {c} : \A s : AboutToSchedule(d, s)' <=> AboutToSchedule(d, s)
    BY <2>1, <2>2 DEF AboutToSchedule, IInv, ValidRows
  <2>7. r \notin active /\ \A d \in Clients : ~AboutToSchedule(d, r)
    BY <1>2, <1>5 DEF IInv, ValidRuns, FreshRuns
  <2>8. FreshRuns'
    <3> HIDE DEF r
    <3>1. \A s \in AllRuns \ runs' : executed'[s] = {} /\ launched'[s] = 0
      BY <1>3 DEF IInv, FreshRuns
    <3>2. ASSUME NEW d \in Clients, NEW s \in AllRuns, AboutToSchedule(d, s)'
          PROVE  /\ s \in runs' \ active' /\ executed'[s] = {} /\ launched'[s] = 0
                 /\ \A b \in Clients : AboutToSchedule(b, s)' => b = d
      <4>1. CASE d = c
        BY <4>1, <3>2, <1>2, <1>3, <1>5, <2>6, <2>7 DEF IInv, FreshRuns
      <4>2. CASE d # c
        BY <4>2, <3>2, <1>3, <2>6, <2>7 DEF IInv, FreshRuns
      <4> QED
        BY <4>1, <4>2
    <3> QED
      BY <3>1, <3>2 DEF FreshRuns
  <2> QED
    BY <2>4, <2>5, <2>8 DEF IInv
<1> QED
  BY <1>4, <1>5

\* The launch of a run that nobody has launched.
LEMMA ScheduleInv ==
    ASSUME IInv, NEW c \in Clients, schedule(c)
    PROVE  IInv'
<1> DEFINE r == <<client[c].row, client[c].key>>
<1>1. client[c] \in RunRequest
  BY RequestOfPc DEF schedule
<1>2. r \in AllRuns /\ AboutToSchedule(c, r)
  BY <1>1 DEF RunRequest, AllRuns, AboutToSchedule, schedule
<1>3. /\ launched' = [launched EXCEPT ![r] = @ + 1]
      /\ active' = active \cup {r}
      /\ client' = [client EXCEPT ![c] = Idle]
      /\ UNCHANGED <<defs, runs, executed>>
  BY DEF schedule, Answer
<1> HIDE DEF r
<1>4. r \in runs /\ launched[r] = 0 /\ \A d \in Clients : AboutToSchedule(d, r) => d = c
  BY <1>2 DEF IInv, FreshRuns
<1>5. ValidRows'
  BY <1>3 DEF IInv, ValidRows, Idle, RunRequest
<1>6. ValidRuns'
  BY <1>2, <1>3, <1>4 DEF IInv, ValidRuns
<1>7. \A d \in Clients : \A s : AboutToSchedule(d, s)' => d # c /\ AboutToSchedule(d, s)
  BY <1>3 DEF AboutToSchedule, IInv, ValidRows, Idle
<1>8. FreshRuns'
  BY <1>2, <1>3, <1>4, <1>7 DEF IInv, FreshRuns, ValidRuns
<1> QED
  BY <1>5, <1>6, <1>8 DEF IInv

\* An execution, at the launch or at a resumption, is of the version's graph.
LEMMA ExecuteInv ==
    ASSUME IInv, NEW r \in AllRuns, execute_run(r)
    PROVE  IInv'
<1>1. r \in runs /\ r[1] \in Versions /\ defs[r[1]].graph \in Accepted
  <2>1. r \in runs /\ r[1] \in Versions /\ defs[r[1]] # None
    BY DEF execute_run, IInv, ValidRuns, AllRuns
  <2> QED
    BY <2>1 DEF IInv, ValidRows
<1>2. /\ executed' = [executed EXCEPT ![r] = @ \cup {defs[r[1]].graph}]
      /\ active' = active \ {r}
      /\ UNCHANGED <<defs, runs, launched, client>>
  BY DEF execute_run
<1>3. ValidRows'
  BY <1>2 DEF IInv, ValidRows
<1>4. ValidRuns'
  BY <1>1, <1>2 DEF IInv, ValidRuns
<1>5. \A c \in Clients : ~AboutToSchedule(c, r)
  BY DEF IInv, FreshRuns, execute_run
<1>6. FreshRuns'
  BY <1>1, <1>2, <1>5 DEF IInv, FreshRuns, AboutToSchedule, ValidRuns
<1> QED
  BY <1>3, <1>4, <1>6 DEF IInv

\* A new process knows no request and takes up every run.
LEMMA RestartInv ==
    ASSUME IInv, Restart
    PROVE  IInv'
BY DEF Restart, IInv, ValidRows, ValidRuns, FreshRuns, AboutToSchedule, Idle, RunRequest

\* The retention deletes a run that has been executed, so none that a request is
\* about to schedule.
LEMMA RetentionInv ==
    ASSUME IInv, NEW r \in AllRuns, workflow_run_retention_cleanup(r)
    PROVE  IInv'
<1>1. /\ runs' = runs \ {r} /\ r \notin active /\ executed[r] # {}
      /\ launched' = [launched EXCEPT ![r] = 0]
      /\ executed' = [executed EXCEPT ![r] = {}]
      /\ UNCHANGED <<defs, active, client>>
  BY DEF workflow_run_retention_cleanup, _delete_workflow_runs_batch
<1>2. ValidRows'
  BY <1>1 DEF IInv, ValidRows
<1>3. ValidRuns'
  BY <1>1 DEF IInv, ValidRuns
<1>4. FreshRuns'
  BY <1>1 DEF IInv, FreshRuns, AboutToSchedule, ValidRuns
<1> QED
  BY <1>2, <1>3, <1>4 DEF IInv

\* Every step keeps the invariant.
LEMMA NextInv == IInv /\ [Next]_vars => IInv'
<1> SUFFICES ASSUME IInv, [Next]_vars PROVE IInv'
  OBVIOUS
<1>1. ASSUME NEW c \in Clients, NEW g \in Accepted, NEW st \in DefinitionStatus,
             \/ create_definition(c, g, st)
             \/ \E v \in Versions : update_definition(c, v, g, st)
      PROVE  IInv'
  <2>1. 1 \in Versions
    BY DefinitionsAssumption DEF Versions
  <2>2. PICK pc \in {"insert", "list_runs"}, v \in Versions :
          Begin(c, [pc |-> pc, row |-> v, graph |-> g, status |-> st])
    BY <1>1, <2>1 DEF create_definition, update_definition
  <2> DEFINE q == [pc |-> pc, row |-> v, graph |-> g, status |-> st]
  <2>3. q \in DefinitionRequest /\ q.pc # "schedule" /\ q \notin RunRequest
    BY DEF DefinitionRequest, RunRequest
  <2>4. client' = [client EXCEPT ![c] = q] /\ UNCHANGED <<defs, runs, executed, launched, active>>
    BY <2>2 DEF Begin
  <2> HIDE DEF q
  <2> QED
    BY <2>3, <2>4, RequestInv
<1>2. ASSUME NEW c \in Clients, NEW v \in Versions, archive_definition(c, v)
      PROVE  IInv'
  <2> DEFINE q == [pc |-> "update", row |-> v, graph |-> defs[v].graph, status |-> "archived"]
  <2>1. defs[v].graph \in Accepted
    BY <1>2 DEF archive_definition, IInv, ValidRows
  <2>2. q \in DefinitionRequest /\ q.pc # "schedule" /\ q \notin RunRequest
    BY <2>1 DEF DefinitionRequest, RunRequest, DefinitionStatus
  <2>3. client' = [client EXCEPT ![c] = q] /\ UNCHANGED <<defs, runs, executed, launched, active>>
    BY <1>2 DEF archive_definition, Begin
  <2> HIDE DEF q
  <2> QED
    BY <2>2, <2>3, RequestInv
<1>3. ASSUME NEW c \in Clients, NEW v \in Versions, NEW k \in Keys, start_run(c, v, k)
      PROVE  IInv'
  <2> DEFINE q == [pc |-> "get_or_create_run", row |-> v, key |-> k]
  <2>1. q \in RunRequest /\ q.pc # "schedule" /\ defs[q.row] # None
    BY <1>3 DEF start_run, RunRequest
  <2>2. client' = [client EXCEPT ![c] = q] /\ UNCHANGED <<defs, runs, executed, launched, active>>
    BY <1>3 DEF start_run, Begin
  <2> HIDE DEF q
  <2> QED
    BY <2>1, <2>2, RequestInv
<1>4. ASSUME NEW c \in Clients, list_runs(c) \/ count_runs(c) \/ insert(c) \/ update(c)
      PROVE  IInv'
  <2>1. client[c] \in DefinitionRequest /\ client[c].row \in Versions
    BY <1>4, RequestOfPc DEF list_runs, count_runs, insert, update, DefinitionRequest
  <2>2. client[c].row # MaxVersion => client[c].row + 1 \in Versions
    BY <2>1, DefinitionsAssumption DEF Versions
  <2>3. UNCHANGED <<defs, runs, executed, launched, active>>
    BY <1>4 DEF list_runs, count_runs, insert, update
  <2>4. \E pc \in {"insert", "list_runs", "count_runs", "update", "commit"}, v \in Versions :
           \/ client' = [client EXCEPT ![c].pc = pc]
           \/ client' = [client EXCEPT ![c].pc = pc, ![c].row = v]
           \/ client' = [client EXCEPT ![c] = Idle]
    BY <1>4, <2>1, <2>2 DEF list_runs, count_runs, insert, update, Proceed, Answer
  <2> QED
    BY <2>1, <2>3, <2>4, ProceedInv
<1>5. ASSUME NEW c \in Clients, Fail(c) PROVE IInv'
  BY <1>5, RequestInv DEF Fail, Answer, Idle, RunRequest
<1>6. CASE UNCHANGED vars
  BY <1>6 DEF vars, IInv, ValidRows, ValidRuns, FreshRuns, AboutToSchedule
<1> QED
  BY <1>1, <1>2, <1>3, <1>4, <1>5, <1>6, CommitInv, CreateRunInv, ScheduleInv, ExecuteInv,
     RetentionInv, RestartInv DEF Next

\* The inductive invariant holds of every behaviour.
LEMMA DefinitionsInv == Spec => []IInv
BY InitInv, NextInv, PTL DEF Spec

\* Rows keep their types, every run has its definition, and however many
\* requests name one idempotency key at once, one of them at most schedules the
\* run (get_or_create_run, start_run).
THEOREM RunLaunchedOnce == Spec => []LaunchedOnce
<1>1. IInv => LaunchedOnce
  BY DEF IInv, ValidRows, ValidRuns, LaunchedOnce, TypeOK
<1> QED
  BY <1>1, DefinitionsInv, PTL

\* Whatever definitions are created, replaced and archived while runs start and
\* resume, no executed graph has a path that reaches a tool requiring an approval
\* and passes no approval node.
THEOREM ApprovalAlwaysPrecedes == Spec => []ApprovalPrecedes
<1>1. IInv => ApprovalPrecedes
  BY AcceptedIsGuarded DEF IInv, ValidRuns, Accepted, ApprovalPrecedes
<1> QED
  BY <1>1, DefinitionsInv, PTL

\* Every approval node of every executed graph can be decided: an approval takes
\* exactly one edge of the node, a rejection one or none, and never the same one
\* but where the node has no other to name.
THEOREM DecisionsHaveEdges == Spec => []DecisionHasEdge
<1>1. IInv => DecisionHasEdge
  BY AcceptedDecides DEF IInv, ValidRuns, DecisionHasEdge
<1> QED
  BY <1>1, DefinitionsInv, PTL

(***************************************************************************)
(* The proofs of Integrations. They use nothing of the ones above: the two *)
(* components share no variable. The invariant says that an id on a wire   *)
(* stands for one request, that every subprocess has somebody who will end *)
(* it, that a tool's server stays registered, and that a directory is      *)
(* queued once and owns what its plugin committed.                         *)
(***************************************************************************)

-----------------------------------------------------------------------------
(* The inductive invariant *)

CallStates == {"idle", "wrote", "waiting", "result", "odd", "mcp_error", "mcp_connection_error",
               "unknown_error", "closing"}

Answers == [id : Nat, of : Nat, kind : {"result", "error", "odd"}]

Calls == [pc : CallStates, server : Servers \cup {"none"},
          method : {"none", "initialize", "tools/list", "tools/call"}, tool : Tools \cup {"none"},
          id : Nat, number : Nat, line : Answers \cup {NoLine}]

Requesters == Callers \cup {Boot}

WireTypes ==
    /\ ids \in [Servers -> Nat] /\ sent \in Nat
    /\ inbox \in [Servers -> SUBSET [id : Nat, of : Nat]]
    /\ pipe \in [Servers -> Seq(Answers)]
    /\ call \in [Requesters -> Calls]
    /\ \A c \in Requesters : call[c].pc # "idle" => call[c].server \in Servers

\* The requests, lines and calls of a server in which id i stands for request n.
Stands(s, i, n) ==
    \/ [id |-> i, of |-> n] \in inbox[s]
    \/ \E k \in 1 .. Len(pipe[s]) : pipe[s][k].id = i /\ i # 0 /\ pipe[s][k].of = n
    \/ \E c \in Requesters : call[c].pc # "idle" /\ call[c].server = s /\ call[c].id = i /\ call[c].number = n

\* An id has been issued, and for one request only.
IdsAreOwn ==
    \A s \in Servers, i, n, m \in Nat :
        Stands(s, i, n) => i \in 1 .. ids[s] /\ (Stands(s, i, m) => n = m)

\* The connection setup is between two of its requests, or waits for one.
Busy == call[Boot].pc # "idle"

ServerTypes ==
    /\ phase \in {"plugins", "mcp", "serving", "stopping", "stopped"}
    /\ clients \subseteq Servers /\ stray \subseteq Servers
    /\ connected \in [Servers -> BOOLEAN]
    /\ proc \in [Servers -> {"none", "alive", "terminating", "dead"}]

\* Only register_all makes the requests of the startup; a discovery is of a registered server.
BusyInTime ==
    Busy => /\ phase = "mcp" /\ todo # <<>>
            /\ call[Boot].method = "tools/list" /\ call[Boot].pc # "closing"
                 => call[Boot].server \in clients /\ connected[call[Boot].server]

\* A server's tools are there once its discovery is over, and it is not connected again.
ToolsHaveServer ==
    phase \in {"plugins", "mcp", "serving"} =>
        \A e \in registry : e.owner \in Servers =>
            e.owner \in clients /\ connected[e.owner] /\ ~(Busy /\ call[Boot].server = e.owner)

\* Somebody will end every subprocess, but for the strays.
ProcsHaveKeeper ==
    /\ \A s \in Servers \ stray :
          proc[s] # "none" => s \in clients \/ (Busy /\ call[Boot].server = s)
    /\ phase = "stopped" => clients = {}

LoaderTypes ==
    /\ plugin \in [Dirs -> {"new", "failed", "import_failed", "loaded"}]
    /\ thread \in [Dirs -> {"none", "running", "returned", "raised"}]
    /\ registrar = [d \in Dirs |-> registrar[d]]
    /\ \A d \in Dirs : "committed" \in DOMAIN registrar[d]
    /\ \A e \in registry : e.owner \in Dirs \cup Servers \cup {"core"}

\* What is queued has not been loaded, and is queued once.
QueuedOnce ==
    /\ queue \in Seq(Dirs)
    /\ \A i, j \in 1 .. Len(queue) : queue[i] = queue[j] => i = j
    /\ \A i \in 1 .. Len(queue) : plugin[queue[i]] = "new"

Contributed ==
    \A d \in Dirs :
        { e \in registry : e.owner = d } =
            IF plugin[d] = "loaded" THEN registrar[d].committed ELSE {}

WireInv   == WireTypes /\ IdsAreOwn /\ AnswerIsOwn
ServerInv == ServerTypes /\ BusyInTime /\ ToolsHaveServer /\ ProcsHaveKeeper
PluginInv == LoaderTypes /\ QueuedOnce /\ Contributed
LifespanInv == WireInv /\ ServerInv /\ PluginInv

LEMMA LifespanInitInv == LifespanInit => LifespanInv
<1> SUFFICES ASSUME LifespanInit PROVE LifespanInv
  OBVIOUS
<1>1. NoCall \in Calls /\ NoCall.pc = "idle"
  BY DEF NoCall, NoLine, Calls, CallStates
<1>2. call \in [Requesters -> Calls] /\ \A c \in Requesters : call[c].pc = "idle"
  BY <1>1 DEF LifespanInit, Requesters
<1>3. WireTypes
  BY <1>2 DEF LifespanInit, WireTypes
<1>4. IdsAreOwn
  BY <1>2 DEF LifespanInit, IdsAreOwn, Stands
<1>5. AnswerIsOwn
  BY <1>2 DEF AnswerIsOwn
<1>6. ServerInv
  BY <1>2 DEF LifespanInit, ServerInv, ServerTypes, BusyInTime, ToolsHaveServer, ProcsHaveKeeper, Busy, Requesters
<1>7. LoaderTypes
  BY DEF LifespanInit, LoaderTypes
<1>8. QueuedOnce
  <2>1. Candidates \in Seq(Dirs) /\ DOMAIN Candidates = 1 .. Len(Candidates)
    BY IntegrationsAssumption DEF IntegrationsAssumption, Dirs
  <2>2. \A i \in 1 .. Len(Candidates) : Candidates[i] \in Dirs
    BY <2>1
  <2> QED
    BY <2>1, <2>2, IntegrationsAssumption DEF LifespanInit, QueuedOnce, IntegrationsAssumption
<1>9. Contributed
  BY DEF LifespanInit, Contributed
<1> QED
  BY <1>3, <1>4, <1>5, <1>6, <1>7, <1>8, <1>9 DEF LifespanInv, WireInv, PluginInv

-----------------------------------------------------------------------------
(* The wire *)

\* Ids that are not issued anew keep their meaning.
LEMMA OldIdsOwn ==
  ASSUME IdsAreOwn, ids' = ids,
         \A s \in Servers, i, n \in Nat : Stands(s, i, n)' => Stands(s, i, n)
  PROVE  IdsAreOwn'
BY DEF IdsAreOwn

\* Being woken changes where a coroutine stands, and nothing else of its call.
LEMMA WokenCalls ==
  ASSUME WireTypes, NEW s, call' = Woken(s)
  PROVE  /\ call' \in [Requesters -> Calls]
         /\ \A c \in Requesters :
               /\ call'[c].server = call[c].server /\ call'[c].id = call[c].id
               /\ call'[c].number = call[c].number /\ call'[c].line = call[c].line
               /\ call'[c].method = call[c].method
               /\ call'[c].pc = call[c].pc \/ (call[c].pc = "waiting" /\ call'[c].pc = "wrote")
<1> SUFFICES ASSUME NEW c \in Requesters
             PROVE  /\ call'[c] \in Calls
                    /\ call'[c].server = call[c].server /\ call'[c].id = call[c].id
                    /\ call'[c].number = call[c].number /\ call'[c].line = call[c].line
                    /\ call'[c].method = call[c].method
                    /\ call'[c].pc = call[c].pc \/ (call[c].pc = "waiting" /\ call'[c].pc = "wrote")
  <2>1. DOMAIN call = Requesters /\ call' = [c \in Requesters |-> call'[c]]
    BY DEF WireTypes, Woken
  <2> QED
    BY <2>1
<1>1. call[c] \in Calls /\ DOMAIN call = Requesters
  BY DEF WireTypes
<1>2. CASE call[c].pc = "waiting" /\ call[c].server = s
  <2>1. call'[c] = [call[c] EXCEPT !.pc = "wrote"]
    BY <1>1, <1>2 DEF Woken
  <2> QED
    BY <1>1, <1>2, <2>1 DEF Calls, CallStates
<1>3. CASE ~(call[c].pc = "waiting" /\ call[c].server = s)
  BY <1>1, <1>3 DEF Woken
<1> QED
  BY <1>2, <1>3

LEMMA WokenAccepts ==
  ASSUME WireInv, NEW s, call' = Woken(s)
  PROVE  AnswerIsOwn'
<1>1. DOMAIN call = Requesters /\ DOMAIN call' = Requesters
  BY WokenCalls DEF WireInv, WireTypes
<1> QED
  BY <1>1, WokenCalls DEF WireInv, AnswerIsOwn

\* A request carries an id no other request of its server has.
LEMMA RequestWire ==
  ASSUME WireInv, NEW c \in Requesters, NEW s \in Servers,
         NEW m \in {"initialize", "tools/list", "tools/call"}, NEW t \in Tools \cup {"none"},
         Request(c, s, m, t), pipe' = pipe
  PROVE  /\ WireInv'
         /\ call'[c].pc = "wrote" /\ call'[c].server = s /\ call'[c].method = m
         /\ \A d \in Requesters \ {c} : call'[d] = call[d]
<1> DEFINE new == [NoCall EXCEPT !.pc = "wrote", !.server = s, !.method = m,
                                !.tool = t, !.id = ids'[s], !.number = sent']
<1>1. /\ ids' \in [Servers -> Nat] /\ ids'[s] = ids[s] + 1 /\ sent' \in Nat
      /\ \A u \in Servers : ids[u] \in Nat /\ ids'[u] >= ids[u]
  BY DEF Request, WireInv, WireTypes
<1>2. /\ new \in Calls /\ new.pc = "wrote" /\ new.server = s /\ new.method = m
      /\ new.id = ids'[s] /\ new.number = sent'
  BY <1>1 DEF NoCall, NoLine, Calls, CallStates
<1>3. /\ call' \in [Requesters -> Calls] /\ call'[c] = new
      /\ \A d \in Requesters \ {c} : call'[d] = call[d]
  BY <1>2 DEF Request, WireInv, WireTypes
<1>4. /\ inbox' \in [Servers -> SUBSET [id : Nat, of : Nat]]
      /\ \A u \in Servers \ {s} : inbox'[u] = inbox[u]
      /\ inbox'[s] \subseteq inbox[s] \cup {[id |-> ids'[s], of |-> sent']}
  <2>1. [id |-> ids'[s], of |-> sent'] \in [id : Nat, of : Nat]
    BY <1>1
  <2> QED
    BY <2>1 DEF Request, WireInv, WireTypes
<1>5. WireTypes'
  BY <1>1, <1>2, <1>3, <1>4 DEF WireInv, WireTypes
<1>6. ASSUME NEW u \in Servers, NEW i \in Nat, NEW n \in Nat, Stands(u, i, n)'
      PROVE  Stands(u, i, n) \/ (u = s /\ i = ids'[s] /\ n = sent')
  <2>1. CASE [id |-> i, of |-> n] \in inbox'[u]
    BY <1>4, <2>1 DEF Stands
  <2>2. CASE \E k \in 1 .. Len(pipe'[u]) : pipe'[u][k].id = i /\ i # 0 /\ pipe'[u][k].of = n
    BY <2>2 DEF Stands
  <2>3. CASE \E d \in Requesters :
               call'[d].pc # "idle" /\ call'[d].server = u /\ call'[d].id = i /\ call'[d].number = n
    BY <1>2, <1>3, <2>3 DEF Stands
  <2> QED
    BY <1>6, <2>1, <2>2, <2>3 DEF Stands
<1>7. IdsAreOwn'
  <2> SUFFICES ASSUME NEW u \in Servers, NEW i \in Nat, NEW n \in Nat, NEW k \in Nat, Stands(u, i, n)'
               PROVE  i \in 1 .. ids'[u] /\ (Stands(u, i, k)' => n = k)
    BY DEF IdsAreOwn
  <2>1. \A x \in Nat : Stands(u, i, x) => i \in 1 .. ids[u] /\ \A y \in Nat : Stands(u, i, y) => x = y
    BY DEF WireInv, IdsAreOwn
  <2>2. Stands(u, i, n) \/ (u = s /\ i = ids'[s] /\ n = sent')
    BY <1>6
  <2>3. Stands(u, i, k)' => Stands(u, i, k) \/ (u = s /\ i = ids'[s] /\ k = sent')
    BY <1>6
  <2>4. i \in 1 .. ids'[u]
    BY <1>1, <2>1, <2>2
  <2>5. Stands(u, i, n) => ~(u = s /\ i = ids'[s])
    BY <1>1, <2>1
  <2>6. Stands(u, i, k) => ~(u = s /\ i = ids'[s])
    BY <1>1, <2>1
  <2> QED
    BY <2>1, <2>2, <2>3, <2>4, <2>5, <2>6
<1>8. AnswerIsOwn'
  <2>1. DOMAIN call = Requesters /\ DOMAIN call' = Requesters
    BY <1>3 DEF WireInv, WireTypes
  <2> QED
    BY <2>1, <1>2, <1>3 DEF WireInv, AnswerIsOwn
<1> QED
  BY <1>2, <1>3, <1>5, <1>7, <1>8 DEF WireInv

\* The answer to a request carries its id, and so does a second one.
LEMMA AnswerWire ==
  ASSUME WireInv, NEW s \in Servers, answer(s) \/ answer_again(s)
  PROVE  WireInv'
<1> PICK i \in inbox[s], kind \in {"result", "error", "odd"} :
         /\ pipe' = [pipe EXCEPT ![s] = Append(@, [id |-> i.id, of |-> i.of, kind |-> kind])]
         /\ \/ inbox' = [inbox EXCEPT ![s] = @ \ {i}] /\ UNCHANGED sent
            \/ sent' = sent + 1 /\ UNCHANGED inbox
  BY DEF answer, answer_again
<1> DEFINE line == [id |-> i.id, of |-> i.of, kind |-> kind]
<1>0. call' = Woken(s) /\ ids' = ids /\ sent' \in Nat
  BY DEF answer, answer_again, WireInv, WireTypes
<1>1. i \in [id : Nat, of : Nat] /\ pipe[s] \in Seq(Answers)
  BY DEF WireInv, WireTypes
<1>2. line \in Answers /\ i = [id |-> line.id, of |-> line.of]
  BY <1>1 DEF Answers
<1>3. /\ pipe' \in [Servers -> Seq(Answers)] /\ pipe'[s] = Append(pipe[s], line)
      /\ \A u \in Servers \ {s} : pipe'[u] = pipe[u]
  BY <1>1, <1>2 DEF WireInv, WireTypes
<1>4. /\ inbox' \in [Servers -> SUBSET [id : Nat, of : Nat]]
      /\ \A u \in Servers : inbox'[u] \subseteq inbox[u]
  BY DEF WireInv, WireTypes
<1>5. WireTypes'
  BY <1>0, <1>3, <1>4, WokenCalls DEF WireInv, WireTypes
<1>6. ASSUME NEW u \in Servers, NEW j \in Nat, NEW n \in Nat, Stands(u, j, n)'
      PROVE  Stands(u, j, n)
  <2>1. CASE [id |-> j, of |-> n] \in inbox'[u]
    BY <1>4, <2>1 DEF Stands
  <2>2. CASE \E k \in 1 .. Len(pipe'[u]) : pipe'[u][k].id = j /\ j # 0 /\ pipe'[u][k].of = n
    <3> PICK k \in 1 .. Len(pipe'[u]) : pipe'[u][k].id = j /\ j # 0 /\ pipe'[u][k].of = n
      BY <2>2
    <3>1. CASE u # s
      BY <1>3, <3>1 DEF Stands
    <3>2. CASE u = s /\ k \in 1 .. Len(pipe[s])
      BY <1>1, <1>2, <1>3, <3>2 DEF Stands
    <3>3. CASE u = s /\ k \notin 1 .. Len(pipe[s])
      <4>1. pipe'[u][k] = line
        BY <1>1, <1>2, <1>3, <3>3
      <4> QED
        BY <4>1, <1>2, <3>3 DEF Stands
    <3> QED
      BY <3>1, <3>2, <3>3
  <2>3. CASE \E d \in Requesters :
               call'[d].pc # "idle" /\ call'[d].server = u /\ call'[d].id = j /\ call'[d].number = n
    BY <1>0, <2>3, WokenCalls DEF Stands, WireInv
  <2> QED
    BY <1>6, <2>1, <2>2, <2>3 DEF Stands
<1>7. IdsAreOwn'
  BY <1>0, <1>6, OldIdsOwn DEF WireInv
<1> QED
  BY <1>0, <1>5, <1>7, WokenAccepts DEF WireInv

\* A notification carries no id at all.
LEMMA NotifyWire ==
  ASSUME WireInv, NEW s \in Servers, notify(s)
  PROVE  WireInv'
<1> DEFINE line == [id |-> 0, of |-> 0, kind |-> "result"]
<1>0. call' = Woken(s) /\ ids' = ids /\ sent' = sent + 1 /\ inbox' = inbox
  BY DEF notify
<1>1. line \in Answers /\ line.id = 0 /\ pipe[s] \in Seq(Answers)
  BY DEF WireInv, WireTypes, Answers
<1>2. /\ pipe' \in [Servers -> Seq(Answers)] /\ pipe'[s] = Append(pipe[s], line)
      /\ \A u \in Servers \ {s} : pipe'[u] = pipe[u]
  BY <1>1 DEF notify, WireInv, WireTypes
<1>3. WireTypes'
  <2>1. /\ call' \in [Requesters -> Calls]
        /\ \A c \in Requesters : call'[c].pc # "idle" => call'[c].server \in Servers
    BY <1>0, WokenCalls DEF WireInv, WireTypes
  <2>2. sent' \in Nat
    BY <1>0 DEF WireInv, WireTypes
  <2> QED
    BY <1>0, <1>2, <2>1, <2>2 DEF WireInv, WireTypes
<1>4. ASSUME NEW u \in Servers, NEW j \in Nat, NEW n \in Nat, Stands(u, j, n)'
      PROVE  Stands(u, j, n)
  <2>1. CASE [id |-> j, of |-> n] \in inbox'[u]
    BY <1>0, <2>1 DEF Stands
  <2>2. CASE \E k \in 1 .. Len(pipe'[u]) : pipe'[u][k].id = j /\ j # 0 /\ pipe'[u][k].of = n
    <3> PICK k \in 1 .. Len(pipe'[u]) : pipe'[u][k].id = j /\ j # 0 /\ pipe'[u][k].of = n
      BY <2>2
    <3>1. CASE u # s
      BY <1>2, <3>1 DEF Stands
    <3>2. CASE u = s
      <4>1. k \in 1 .. Len(pipe[s]) /\ pipe'[u][k] = pipe[u][k]
        BY <1>1, <1>2, <3>2
      <4> QED
        BY <4>1, <3>2 DEF Stands
    <3> QED
      BY <3>1, <3>2
  <2>3. CASE \E d \in Requesters :
               call'[d].pc # "idle" /\ call'[d].server = u /\ call'[d].id = j /\ call'[d].number = n
    BY <1>0, <2>3, WokenCalls DEF Stands, WireInv
  <2> QED
    BY <1>4, <2>1, <2>2, <2>3 DEF Stands
<1>5. IdsAreOwn'
  BY <1>0, <1>4, OldIdsOwn DEF WireInv
<1> QED
  BY <1>0, <1>3, <1>5, WokenAccepts DEF WireInv

\* A subprocess that ends forgets its requests.
LEMMA ExitWire ==
  ASSUME WireInv, NEW s \in Servers, inbox' = [inbox EXCEPT ![s] = {}], call' = Woken(s),
         UNCHANGED <<ids, pipe, sent>>
  PROVE  WireInv'
<1>1. /\ inbox' \in [Servers -> SUBSET [id : Nat, of : Nat]]
      /\ \A u \in Servers : inbox'[u] \subseteq inbox[u]
  BY DEF WireInv, WireTypes
<1>2. WireTypes'
  BY <1>1, WokenCalls DEF WireInv, WireTypes
<1>3. ASSUME NEW u \in Servers, NEW j \in Nat, NEW n \in Nat, Stands(u, j, n)'
      PROVE  Stands(u, j, n)
  BY <1>1, <1>3, WokenCalls DEF Stands, WireInv
<1>4. IdsAreOwn'
  BY <1>3, OldIdsOwn DEF WireInv
<1> QED
  BY <1>2, <1>4, WokenAccepts DEF WireInv

\* A step of a caller that reads nothing and accepts nothing.
LEMMA CallStep ==
  ASSUME WireInv, NEW c \in Requesters, NEW q \in Calls, call' = [call EXCEPT ![c] = q],
         q.pc # "idle" => /\ call[c].pc # "idle" /\ q.server = call[c].server
                          /\ q.id = call[c].id /\ q.number = call[c].number,
         q.pc \in {"result", "odd"} => q.line.of = q.number,
         NEW t \in Servers \cup {"none"},
         \A s \in Servers : s # t => inbox'[s] = inbox[s],
         t \in Servers => inbox'[t] = {} \/ inbox'[t] = inbox[t],
         inbox' \in [Servers -> SUBSET [id : Nat, of : Nat]],
         pipe' \in [Servers -> Seq(Answers)],
         \A s \in Servers : pipe'[s] = pipe[s] \/ (pipe[s] # <<>> /\ pipe'[s] = Tail(pipe[s])),
         UNCHANGED <<ids, sent>>
  PROVE  WireInv'
<1>1. /\ call' \in [Requesters -> Calls] /\ call'[c] = q
      /\ \A d \in Requesters \ {c} : call'[d] = call[d]
  BY DEF WireInv, WireTypes
<1>2. WireTypes'
  BY <1>1 DEF WireInv, WireTypes
<1>3. ASSUME NEW u \in Servers, NEW j \in Nat, NEW n \in Nat, Stands(u, j, n)'
      PROVE  Stands(u, j, n)
  <2>1. CASE [id |-> j, of |-> n] \in inbox'[u]
    <3>1. [id |-> j, of |-> n] \in inbox[u]
      BY <2>1
    <3> QED
      BY <3>1 DEF Stands
  <2>2. CASE \E k \in 1 .. Len(pipe'[u]) : pipe'[u][k].id = j /\ j # 0 /\ pipe'[u][k].of = n
    <3> PICK k \in 1 .. Len(pipe'[u]) : pipe'[u][k].id = j /\ j # 0 /\ pipe'[u][k].of = n
      BY <2>2
    <3>1. CASE pipe'[u] = pipe[u]
      BY <3>1 DEF Stands
    <3>2. CASE pipe[u] # <<>> /\ pipe'[u] = Tail(pipe[u])
      <4>1. pipe[u] \in Seq(Answers)
        BY DEF WireInv, WireTypes
      <4>2. k + 1 \in 1 .. Len(pipe[u]) /\ pipe'[u][k] = pipe[u][k + 1]
        BY <3>2, <4>1
      <4> QED
        BY <4>2 DEF Stands
    <3> QED
      BY <3>1, <3>2
  <2>3. CASE \E d \in Requesters :
               call'[d].pc # "idle" /\ call'[d].server = u /\ call'[d].id = j /\ call'[d].number = n
    BY <1>1, <2>3 DEF Stands
  <2> QED
    BY <1>3, <2>1, <2>2, <2>3 DEF Stands
<1>4. IdsAreOwn'
  BY <1>3, OldIdsOwn DEF WireInv
<1>5. AnswerIsOwn'
  <2>1. DOMAIN call = Requesters /\ DOMAIN call' = Requesters
    BY <1>1 DEF WireInv, WireTypes
  <2> QED
    BY <1>1, <2>1 DEF WireInv, AnswerIsOwn
<1> QED
  BY <1>2, <1>4, <1>5 DEF WireInv

\* How a wait ends: the call keeps what it is about.
LEMMA EndedCall ==
  ASSUME WireInv, NEW c \in Requesters, NEW pc \in CallStates, NEW line \in Answers \cup {NoLine},
         Ended(c, pc, line)
  PROVE  \E q \in Calls :
            /\ call' = [call EXCEPT ![c] = q]
            /\ q.pc = pc /\ q.line = line /\ q.server = call[c].server /\ q.id = call[c].id
            /\ q.number = call[c].number /\ q.method = call[c].method
<1> DEFINE q == [call[c] EXCEPT !.pc = pc, !.line = line]
<1>1. call[c] \in Calls
  BY DEF WireInv, WireTypes
<1>2. /\ q \in Calls /\ q.pc = pc /\ q.line = line /\ q.server = call[c].server /\ q.id = call[c].id
      /\ q.number = call[c].number /\ q.method = call[c].method
  BY <1>1 DEF Calls
<1>3. call' = [call EXCEPT ![c] = q]
  BY DEF Ended
<1> QED
  BY <1>2, <1>3

\* The wait is over, and nothing was accepted.
LEMMA RefusedWire ==
  ASSUME WireInv, NEW c \in Requesters,
         NEW pc \in {"waiting", "mcp_error", "mcp_connection_error", "unknown_error"},
         NEW line \in Answers \cup {NoLine}, call[c].pc # "idle",
         Ended(c, pc, line),
         pipe' \in [Servers -> Seq(Answers)],
         \A s \in Servers : pipe'[s] = pipe[s] \/ (pipe[s] # <<>> /\ pipe'[s] = Tail(pipe[s])),
         UNCHANGED <<ids, inbox, sent>>
  PROVE  WireInv'
<1>1. pc \in CallStates
  BY DEF CallStates
<1>2. PICK q \in Calls :
         /\ call' = [call EXCEPT ![c] = q]
         /\ q.pc = pc /\ q.line = line /\ q.server = call[c].server /\ q.id = call[c].id
         /\ q.number = call[c].number /\ q.method = call[c].method
  BY <1>1, EndedCall
<1>3. inbox' \in [Servers -> SUBSET [id : Nat, of : Nat]]
  BY DEF WireInv, WireTypes
<1>4. "none" \in Servers \cup {"none"}
  OBVIOUS
<1> QED
  BY <1>2, <1>3, <1>4, CallStep

\* The line read is accepted only with the id of the request.
LEMMA ReadWire ==
  ASSUME WireInv, NEW c \in Requesters, readline(c)
  PROVE  WireInv'
<1> DEFINE s == call[c].server
<1>1. call[c].pc = "wrote" /\ call[c] \in Calls /\ s \in Servers /\ UNCHANGED <<ids, inbox, sent>>
  BY DEF readline, WireInv, WireTypes
<1>2. pipe \in [Servers -> Seq(Answers)] /\ NoLine \in Answers \cup {NoLine}
  BY DEF WireInv, WireTypes
<1>3. \/ pipe' = pipe /\ \E pc \in {"waiting", "mcp_connection_error", "unknown_error"} : Ended(c, pc, NoLine)
      \/ /\ pipe[s] # <<>> /\ pipe' = [pipe EXCEPT ![s] = Tail(@)]
         /\ Ended(c, verdict(c, Head(pipe[s])), Head(pipe[s]))
  BY DEF readline
<1>4. CASE pipe' = pipe /\ \E pc \in {"waiting", "mcp_connection_error", "unknown_error"} : Ended(c, pc, NoLine)
  <2> PICK pc \in {"waiting", "mcp_connection_error", "unknown_error"} : Ended(c, pc, NoLine)
    BY <1>4
  <2> QED
    BY <1>1, <1>2, <1>4, RefusedWire
<1>5. CASE /\ pipe[s] # <<>> /\ pipe' = [pipe EXCEPT ![s] = Tail(@)]
           /\ Ended(c, verdict(c, Head(pipe[s])), Head(pipe[s]))
  <2> DEFINE line == Head(pipe[s])
  <2>1. line \in Answers /\ line = pipe[s][1] /\ 1 \in 1 .. Len(pipe[s]) /\ Tail(pipe[s]) \in Seq(Answers)
    BY <1>1, <1>2, <1>5
  <2>2. /\ pipe' \in [Servers -> Seq(Answers)]
        /\ \A u \in Servers : pipe'[u] = pipe[u] \/ (pipe[u] # <<>> /\ pipe'[u] = Tail(pipe[u]))
    BY <1>1, <1>2, <1>5, <2>1
  <2>3. CASE line.id # call[c].id \/ line.kind = "error"
    BY <1>1, <1>5, <2>1, <2>2, <2>3, RefusedWire DEF verdict
  <2>4. CASE line.id = call[c].id /\ line.kind # "error"
    <3>1. verdict(c, line) \in CallStates \ {"idle"}
      BY <2>1, <2>4 DEF verdict, Answers, CallStates
    <3>2. PICK q \in Calls :
             /\ call' = [call EXCEPT ![c] = q]
             /\ q.pc = verdict(c, line) /\ q.line = line /\ q.server = call[c].server /\ q.id = call[c].id
             /\ q.number = call[c].number /\ q.method = call[c].method
      BY <1>5, <2>1, <3>1, EndedCall
    <3>3. call[c].id \in Nat /\ call[c].number \in Nat /\ line.of \in Nat
      BY <1>1, <2>1 DEF Calls, Answers
    <3>4. Stands(s, call[c].id, call[c].number)
      BY <1>1 DEF Stands
    <3>5. call[c].id # 0
      BY <1>1, <3>3, <3>4 DEF WireInv, IdsAreOwn, WireTypes
    <3>6. Stands(s, call[c].id, line.of)
      BY <2>1, <2>4, <3>5 DEF Stands
    <3>7. line.of = call[c].number
      BY <1>1, <3>3, <3>4, <3>6 DEF WireInv, IdsAreOwn
    <3>8. inbox' \in [Servers -> SUBSET [id : Nat, of : Nat]] /\ "none" \in Servers \cup {"none"}
      BY <1>1 DEF WireInv, WireTypes
    <3> QED
      BY <1>1, <2>2, <3>2, <3>7, <3>8, CallStep
  <2> QED
    BY <2>3, <2>4
<1> QED
  BY <1>3, <1>4, <1>5

LEMMA TimeoutWire ==
  ASSUME WireInv, NEW c \in Requesters, request_timeout(c)
  PROVE  WireInv'
<1>1. pipe' \in [Servers -> Seq(Answers)] /\ NoLine \in Answers \cup {NoLine}
  BY DEF request_timeout, WireInv, WireTypes
<1> QED
  BY <1>1, RefusedWire DEF request_timeout

\* A caller that is done with its request.
LEMMA DoneWire ==
  ASSUME WireInv, NEW c \in Requesters, call' = [call EXCEPT ![c] = NoCall], UNCHANGED <<ids, pipe, sent>>,
         inbox' = inbox \/ \E s \in Servers : inbox' = [inbox EXCEPT ![s] = {}]
  PROVE  WireInv'
<1>1. NoCall \in Calls /\ NoCall.pc = "idle"
  BY DEF NoCall, NoLine, Calls, CallStates
<1>2. PICK t \in Servers \cup {"none"} :
         /\ \A s \in Servers : s # t => inbox'[s] = inbox[s]
         /\ t \in Servers => inbox'[t] = {} \/ inbox'[t] = inbox[t]
         /\ inbox' \in [Servers -> SUBSET [id : Nat, of : Nat]]
  <2>1. inbox \in [Servers -> SUBSET [id : Nat, of : Nat]]
    BY DEF WireInv, WireTypes
  <2>2. CASE inbox' = inbox
    BY <2>1, <2>2
  <2>3. CASE \E s \in Servers : inbox' = [inbox EXCEPT ![s] = {}]
    BY <2>1, <2>3
  <2> QED
    BY <2>2, <2>3
<1>3. pipe' \in [Servers -> Seq(Answers)] /\ \A s \in Servers : pipe'[s] = pipe[s]
  BY DEF WireInv, WireTypes
<1> QED
  BY <1>1, <1>2, <1>3, CallStep

\* disconnect has been called and waits for the subprocess.
LEMMA ClosingWire ==
  ASSUME WireInv, call[Boot].pc # "idle", call' = [call EXCEPT ![Boot].pc = "closing"],
         UNCHANGED <<ids, inbox, pipe, sent>>
  PROVE  WireInv'
<1> DEFINE q == [call[Boot] EXCEPT !.pc = "closing"]
<1>1. Boot \in Requesters /\ call[Boot] \in Calls
  BY DEF Requesters, WireInv, WireTypes
<1>2. /\ q \in Calls /\ q.pc = "closing" /\ q.server = call[Boot].server /\ q.id = call[Boot].id
      /\ q.number = call[Boot].number
  BY <1>1 DEF Calls, CallStates
<1>3. call' = [call EXCEPT ![Boot] = q]
  OBVIOUS
<1>4. /\ inbox' \in [Servers -> SUBSET [id : Nat, of : Nat]] /\ "none" \in Servers \cup {"none"}
      /\ pipe' \in [Servers -> Seq(Answers)]
  BY DEF WireInv, WireTypes
<1> HIDE DEF q
<1> QED
  BY <1>1, <1>2, <1>3, <1>4, CallStep

LEMMA QuietWire == ASSUME WireInv, UNCHANGED wireVars PROVE WireInv'
<1>1. UNCHANGED <<ids, inbox, pipe, call, sent>>
  BY DEF wireVars
<1>2. WireTypes' /\ AnswerIsOwn'
  BY <1>1 DEF WireInv, WireTypes, AnswerIsOwn
<1>3. \A s \in Servers, i, n \in Nat : Stands(s, i, n)' <=> Stands(s, i, n)
  BY <1>1 DEF Stands
<1> QED
  BY <1>1, <1>2, <1>3, OldIdsOwn DEF WireInv

-----------------------------------------------------------------------------
(* Startup and shutdown *)

\* What the startup's own request is about, and whether there is one.
SameBoot ==
    /\ Busy' = Busy
    /\ call'[Boot].server = call[Boot].server /\ call'[Boot].method = call[Boot].method
    /\ call'[Boot].pc = "closing" <=> call[Boot].pc = "closing"

LEMMA BootIsClient == Boot \in Requesters /\ \A c \in Callers : c \in Requesters /\ c # Boot
BY IntegrationsAssumption DEF IntegrationsAssumption, Requesters

\* A step that starts and ends no connection.
LEMMA QuietServer ==
  ASSUME ServerInv, SameBoot, UNCHANGED <<phase, clients, stray, connected, todo, registry>>,
         proc' \in [Servers -> {"none", "alive", "terminating", "dead"}],
         \A s \in Servers : proc'[s] # "none" => proc[s] # "none"
  PROVE  ServerInv'
BY DEF ServerInv, ServerTypes, BusyInTime, ToolsHaveServer, ProcsHaveKeeper, SameBoot, Busy

LEMMA WokenBoot ==
  ASSUME WireInv, NEW s, call' = Woken(s)
  PROVE  SameBoot
BY WokenCalls, BootIsClient DEF SameBoot, Busy, WireInv

LEMMA EndedBoot ==
  ASSUME WireInv, NEW c \in Requesters, NEW pc \in CallStates \ {"idle", "closing"},
         NEW line \in Answers \cup {NoLine}, Ended(c, pc, line), call[c].pc \notin {"idle", "closing"}
  PROVE  SameBoot
<1>1. PICK q \in Calls :
         /\ call' = [call EXCEPT ![c] = q]
         /\ q.pc = pc /\ q.line = line /\ q.server = call[c].server /\ q.id = call[c].id
         /\ q.number = call[c].number /\ q.method = call[c].method
  BY EndedCall
<1> QED
  BY <1>1, BootIsClient DEF SameBoot, Busy, WireInv, WireTypes

LEMMA SubprocessInv ==
  ASSUME LifespanInv, NEW s \in Servers, Subprocess(s)
  PROVE  WireInv' /\ ServerInv' /\ UNCHANGED <<pluginVars, registry>>
<1>1. WireInv /\ ServerInv /\ proc \in [Servers -> {"none", "alive", "terminating", "dead"}]
  BY DEF LifespanInv, ServerInv, ServerTypes
<1>2. CASE answer(s) \/ answer_again(s)
  BY <1>1, <1>2, AnswerWire, WokenBoot, QuietServer DEF answer, answer_again, serverVars
<1>3. CASE notify(s)
  BY <1>1, <1>3, NotifyWire, WokenBoot, QuietServer DEF notify, serverVars
<1>4. CASE exit(s)
  BY <1>1, <1>4, ExitWire, WokenBoot, QuietServer DEF exit, serverVars
<1> QED
  BY <1>2, <1>3, <1>4 DEF Subprocess

LEMMA DisconnectInv ==
  ASSUME LifespanInv, NEW s \in Servers, _disconnect_one(s)
  PROVE  WireInv' /\ ServerInv' /\ UNCHANGED <<pluginVars, registry>>
<1>1. WireInv /\ ServerInv /\ proc \in [Servers -> {"none", "alive", "terminating", "dead"}]
  BY DEF LifespanInv, ServerInv, ServerTypes
<1> QED
  BY <1>1, ExitWire, WokenBoot, QuietServer DEF _disconnect_one, serverVars

LEMMA ReadInv ==
  ASSUME LifespanInv, NEW c \in Requesters, readline(c) \/ request_timeout(c)
  PROVE  WireInv' /\ ServerInv' /\ UNCHANGED <<pluginVars, registry>>
<1>1. WireInv /\ ServerInv /\ proc \in [Servers -> {"none", "alive", "terminating", "dead"}]
  BY DEF LifespanInv, ServerInv, ServerTypes
<1>2. WireInv'
  BY <1>1, ReadWire, TimeoutWire
<1>3. UNCHANGED <<phase, clients, stray, connected, todo, registry, proc, pluginVars>>
  BY DEF readline, request_timeout, serverVars
<1>4. \E pc \in CallStates \ {"idle", "closing"}, line \in Answers \cup {NoLine} : Ended(c, pc, line)
  <2> DEFINE s == call[c].server
  <2>1. CASE \E pc \in {"waiting", "mcp_connection_error", "unknown_error"} : Ended(c, pc, NoLine)
    BY <2>1 DEF CallStates
  <2>2. CASE readline(c) /\ pipe[s] # <<>> /\ Ended(c, verdict(c, Head(pipe[s])), Head(pipe[s]))
    <3>1. s \in Servers /\ pipe[s] \in Seq(Answers)
      BY <1>1, <2>2 DEF readline, WireInv, WireTypes
    <3>2. Head(pipe[s]) \in Answers
      BY <2>2, <3>1
    <3>3. verdict(c, Head(pipe[s])) \in CallStates \ {"idle", "closing"}
      BY <3>2 DEF verdict, Answers, CallStates
    <3> QED
      BY <2>2, <3>2, <3>3
  <2> QED
    BY <2>1, <2>2 DEF readline, request_timeout
<1>5. SameBoot
  BY <1>1, <1>4, EndedBoot DEF readline, request_timeout
<1> QED
  BY <1>1, <1>2, <1>3, <1>5, QuietServer

LEMMA CallersInv ==
  ASSUME LifespanInv, NEW c \in Callers, execute(c) \/ return(c)
  PROVE  WireInv' /\ ServerInv' /\ UNCHANGED <<pluginVars, registry>>
<1>1. /\ WireInv /\ ServerInv /\ proc \in [Servers -> {"none", "alive", "terminating", "dead"}]
      /\ c \in Requesters /\ c # Boot /\ Boot \in Requesters
  BY BootIsClient DEF LifespanInv, ServerInv, ServerTypes
<1>2. UNCHANGED <<phase, clients, stray, connected, todo, registry, proc, pluginVars>>
  BY DEF execute, return, serverVars
<1>3. CASE execute(c)
  <2> PICK s \in Servers, t \in Tools : Request(c, s, "tools/call", t)
    BY <1>3 DEF execute
  <2>1. WireInv' /\ call'[Boot] = call[Boot]
    BY <1>1, <1>3, RequestWire DEF execute
  <2> QED
    BY <1>1, <1>2, <2>1, QuietServer DEF SameBoot, Busy
<1>4. CASE return(c)
  <2>1. WireInv'
    BY <1>1, <1>4, DoneWire DEF return
  <2>2. call'[Boot] = call[Boot]
    BY <1>1, <1>4 DEF return, WireInv, WireTypes
  <2> QED
    BY <1>1, <1>2, <2>1, <2>2, QuietServer DEF SameBoot, Busy
<1> QED
  BY <1>3, <1>4

\* A call of the startup that is under way is about its server.
LEMMA BootTypes ==
  LifespanInv =>
      /\ Boot \in Requesters /\ call[Boot] \in Calls
      /\ Busy => call[Boot].server \in Servers
      /\ connected \in [Servers -> BOOLEAN]
      /\ proc \in [Servers -> {"none", "alive", "terminating", "dead"}]
      /\ clients \subseteq Servers /\ stray \subseteq Servers
BY BootIsClient DEF LifespanInv, WireInv, WireTypes, ServerInv, ServerTypes, Busy

LEMMA Freed ==
  ASSUME LifespanInv, call' = [call EXCEPT ![Boot] = NoCall]
  PROVE  ~Busy'
BY BootTypes DEF LifespanInv, WireInv, WireTypes, Busy, NoCall

LEMMA SkipInv ==
  ASSUME LifespanInv, NEW s \in Servers, skip_server(s) \/ spawn_fails(s)
  PROVE  WireInv' /\ ServerInv'
<1>1. /\ UNCHANGED <<phase, registry, clients, connected, proc, stray, wireVars>>
      /\ ~Busy
  BY DEF skip_server, spawn_fails, Busy
<1>2. UNCHANGED call /\ ~Busy'
  BY <1>1 DEF Busy, wireVars
<1> QED
  BY <1>1, <1>2, QuietWire DEF LifespanInv, ServerInv, ServerTypes, BusyInTime, ToolsHaveServer, ProcsHaveKeeper

LEMMA SpawnInv ==
  ASSUME LifespanInv, NEW s \in Servers, spawn(s)
  PROVE  WireInv' /\ ServerInv'
<1>1. /\ ~Busy /\ phase = "mcp" /\ todo # <<>> /\ s \notin clients
      /\ proc' = [proc EXCEPT ![s] = "alive"]
      /\ Request(Boot, s, "initialize", "none")
      /\ UNCHANGED <<phase, registry, clients, connected, todo, stray, pipe>>
  BY DEF spawn, Next1, Busy
<1>2. /\ WireInv'
      /\ call'[Boot].pc = "wrote" /\ call'[Boot].server = s /\ call'[Boot].method = "initialize"
  BY <1>1, BootTypes, RequestWire DEF LifespanInv
<1>3. ServerTypes' /\ BusyInTime'
  BY <1>1, <1>2, BootTypes DEF LifespanInv, ServerInv, ServerTypes, BusyInTime, Busy
<1>4. ToolsHaveServer'
  BY <1>1, <1>2, BootTypes DEF LifespanInv, ServerInv, ToolsHaveServer, Busy
<1>5. ProcsHaveKeeper'
  BY <1>1, <1>2, BootTypes DEF LifespanInv, ServerInv, ProcsHaveKeeper, Busy
<1> QED
  BY <1>2, <1>3, <1>4, <1>5 DEF ServerInv

LEMMA ConnectInv ==
  ASSUME LifespanInv, NEW s \in Servers, connect(s)
  PROVE  WireInv' /\ ServerInv'
<1>1. /\ Busy /\ call[Boot].server = s
      /\ connected' = [connected EXCEPT ![s] = TRUE] /\ clients' = clients \cup {s}
      /\ Request(Boot, s, "tools/list", "none")
      /\ UNCHANGED <<phase, registry, proc, todo, stray, pipe>>
  BY DEF connect, list_tools, Busy
<1>2. /\ WireInv'
      /\ call'[Boot].pc = "wrote" /\ call'[Boot].server = s /\ call'[Boot].method = "tools/list"
  BY <1>1, BootTypes, RequestWire DEF LifespanInv
<1>3. ServerTypes' /\ BusyInTime'
  BY <1>1, <1>2, BootTypes DEF LifespanInv, ServerInv, ServerTypes, BusyInTime, Busy
<1>4. ToolsHaveServer'
  BY <1>1, <1>2, BootTypes DEF LifespanInv, ServerInv, ToolsHaveServer, Busy
<1>5. ProcsHaveKeeper'
  BY <1>1, <1>2, <1>3, BootTypes DEF LifespanInv, ServerInv, ProcsHaveKeeper, BusyInTime, Busy
<1> QED
  BY <1>2, <1>3, <1>4, <1>5 DEF ServerInv

\* The startup waits for the subprocess it has asked to end.
LEMMA ClosingInv ==
  ASSUME LifespanInv, NEW s \in Servers, handshake_failed(s) \/ discovery_failed(s)
  PROVE  WireInv' /\ ServerInv'
<1>1. /\ Busy /\ call[Boot].server = s
      /\ call' = [call EXCEPT ![Boot].pc = "closing"]
      /\ proc' = [proc EXCEPT ![s] = IF @ = "alive" THEN "terminating" ELSE "none"]
      /\ UNCHANGED <<phase, registry, todo, stray, ids, inbox, pipe, sent>>
  BY DEF handshake_failed, discovery_failed, Busy
<1>2. WireInv'
  BY <1>1, ClosingWire DEF LifespanInv, Busy
<1>3. Busy' /\ call'[Boot].pc = "closing" /\ call'[Boot].server = s
  BY <1>1, BootTypes DEF LifespanInv, WireInv, WireTypes, Calls, Busy
<1>4. /\ clients' \subseteq clients /\ clients \ {s} \subseteq clients'
      /\ connected' \in [Servers -> BOOLEAN] /\ \A u \in Servers \ {s} : connected'[u] = connected[u]
  BY BootTypes DEF handshake_failed, discovery_failed
<1>5. ServerTypes' /\ BusyInTime'
  BY <1>1, <1>3, <1>4, BootTypes DEF LifespanInv, ServerInv, ServerTypes, BusyInTime
<1>6. ToolsHaveServer'
  BY <1>1, <1>3, <1>4 DEF LifespanInv, ServerInv, ToolsHaveServer
<1>7. ProcsHaveKeeper'
  BY <1>1, <1>3, <1>4, <1>5, BootTypes DEF LifespanInv, ServerInv, ProcsHaveKeeper, BusyInTime
<1> QED
  BY <1>2, <1>5, <1>6, <1>7 DEF ServerInv

\* Discovery registers tools of its server only.
LEMMA Discovered ==
  ASSUME NEW s \in Servers, discover(s)
  PROVE  \A e \in registry' : e \in registry \/ e.owner = s
<1>1. \A t : _map_tool(s, t).owner = s
  BY DEF _map_tool
<1>2. PICK T : registry' = registry \cup { _map_tool(s, t) : t \in T }
  BY DEF discover
<1> QED
  BY <1>1, <1>2

\* The startup is done with a server.
LEMMA NextServerInv ==
  ASSUME LifespanInv, NEW s \in Servers, handshake_raises(s) \/ discover(s) \/ closed(s)
  PROVE  WireInv' /\ ServerInv'
<1>1. /\ Busy /\ call[Boot].server = s
      /\ call' = [call EXCEPT ![Boot] = NoCall]
      /\ UNCHANGED <<phase, clients, connected, ids, pipe, sent>>
      /\ inbox' = inbox \/ inbox' = [inbox EXCEPT ![s] = {}]
  BY DEF handshake_raises, discover, closed, Busy
<1>2. WireInv' /\ ~Busy'
  BY <1>1, BootTypes, DoneWire, Freed DEF LifespanInv
<1>3. CASE handshake_raises(s)
  BY <1>1, <1>2, <1>3, BootTypes
     DEF LifespanInv, ServerInv, ServerTypes, BusyInTime, ToolsHaveServer, ProcsHaveKeeper, handshake_raises
<1>4. CASE discover(s)
  <2>1. s \in clients /\ connected[s] /\ UNCHANGED <<proc, stray>>
    BY <1>1, <1>4 DEF discover, LifespanInv, ServerInv, BusyInTime
  <2>2. \A e \in registry' : e \in registry \/ e.owner = s
    BY <1>4, Discovered
  <2>3. ToolsHaveServer'
    BY <1>1, <1>2, <2>1, <2>2 DEF LifespanInv, ServerInv, ToolsHaveServer
  <2> QED
    BY <1>1, <1>2, <2>1, <2>3, BootTypes DEF LifespanInv, ServerInv, ServerTypes, BusyInTime, ProcsHaveKeeper
<1>5. CASE closed(s)
  BY <1>1, <1>2, <1>5, BootTypes
     DEF LifespanInv, ServerInv, ServerTypes, BusyInTime, ToolsHaveServer, ProcsHaveKeeper, closed
<1> QED
  BY <1>1, <1>2, <1>3, <1>4, <1>5

LEMMA StartupInv ==
  ASSUME LifespanInv, NEW s \in Servers, Startup(s)
  PROVE  WireInv' /\ ServerInv'
BY SkipInv, SpawnInv, ConnectInv, ClosingInv, NextServerInv DEF Startup

LEMMA ShutdownInv ==
  ASSUME LifespanInv, serve \/ disconnect_all \/ stopped
  PROVE  WireInv' /\ ServerInv' /\ UNCHANGED <<pluginVars, registry>>
<1>1. WireInv' /\ UNCHANGED <<pluginVars, registry, call, stray, todo>>
  BY QuietWire DEF serve, disconnect_all, stopped, wireVars, serverVars, LifespanInv
<1>2. ~Busy /\ ~Busy'
  BY <1>1 DEF serve, disconnect_all, stopped, LifespanInv, ServerInv, BusyInTime, Busy
<1>3. CASE serve
  BY <1>1, <1>2, <1>3, BootTypes
     DEF LifespanInv, ServerInv, ServerTypes, BusyInTime, ToolsHaveServer, ProcsHaveKeeper, serve, serverVars
<1>4. CASE disconnect_all
  BY <1>1, <1>2, <1>4, BootTypes
     DEF LifespanInv, ServerInv, ServerTypes, BusyInTime, ToolsHaveServer, ProcsHaveKeeper, disconnect_all
<1>5. CASE stopped
  BY <1>1, <1>2, <1>5, BootTypes
     DEF LifespanInv, ServerInv, ServerTypes, BusyInTime, ToolsHaveServer, ProcsHaveKeeper, stopped
<1> QED
  BY <1>1, <1>3, <1>4, <1>5

-----------------------------------------------------------------------------
(* Plugins *)

\* What a step that neither loads nor registers keeps.
LEMMA QuietPlugins == ASSUME PluginInv, UNCHANGED <<pluginVars, registry>> PROVE PluginInv'
BY DEF PluginInv, LoaderTypes, QueuedOnce, Contributed, pluginVars

\* The registry may gain entries of servers and of the core.
LEMMA OthersRegister ==
  ASSUME PluginInv, UNCHANGED pluginVars, registry \subseteq registry',
         \A e \in registry' : e \in registry \/ e.owner \in Servers \cup {"core"}
  PROVE  PluginInv'
<1>1. \A d \in Dirs : d \notin Servers \cup {"core"}
  BY IntegrationsAssumption DEF IntegrationsAssumption, Dirs
<1>2. LoaderTypes' /\ QueuedOnce'
  BY DEF PluginInv, LoaderTypes, QueuedOnce, pluginVars
<1>3. ASSUME NEW d \in Dirs
      PROVE  { e \in registry' : e.owner = d } = { e \in registry : e.owner = d }
  BY <1>1
<1> QED
  BY <1>2, <1>3 DEF PluginInv, Contributed, pluginVars

\* A step of a directory that leaves the registrars' commitments alone.
LEMMA ThreadStep ==
  ASSUME PluginInv, NEW d \in Dirs, NEW t \in {"running", "returned", "raised"},
         thread' = thread \/ thread' = [thread EXCEPT ![d] = t],
         \/ registrar' = registrar
         \/ \E x : registrar' = [registrar EXCEPT ![d].staging = x],
         UNCHANGED <<queue, plugin, registry>>
  PROVE  PluginInv'
<1>1. /\ registrar' = [e \in Dirs |-> registrar'[e]]
      /\ \A e \in Dirs : /\ "committed" \in DOMAIN registrar'[e]
                        /\ registrar'[e].committed = registrar[e].committed
  <2>1. CASE registrar' = registrar
    BY <2>1 DEF PluginInv, LoaderTypes
  <2>2. CASE \E x : registrar' = [registrar EXCEPT ![d].staging = x]
    BY <2>2 DEF PluginInv, LoaderTypes
  <2> QED
    BY <2>1, <2>2
<1>2. LoaderTypes'
  BY <1>1 DEF PluginInv, LoaderTypes
<1> QED
  BY <1>1, <1>2 DEF PluginInv, QueuedOnce, Contributed

\* A directory is recorded once, and with it what it has in the registries.
LEMMA RecordedStep ==
  ASSUME PluginInv, NEW d \in Dirs, Loading(d), NEW o \in {"failed", "import_failed", "loaded"},
         Recorded(d, o), UNCHANGED thread,
         NEW r, NEW new, "committed" \in DOMAIN r,
         registrar' = [registrar EXCEPT ![d] = r],
         registry' = registry \cup new, \A e \in new : e.owner = d,
         new = IF o = "loaded" THEN r.committed ELSE {}
  PROVE  PluginInv'
<1>1. queue \in Seq(Dirs) /\ queue # <<>> /\ d = queue[1] /\ queue' = Tail(queue)
  BY DEF Loading, Recorded, PluginInv, QueuedOnce
<1>2. plugin[d] = "new" /\ plugin' = [plugin EXCEPT ![d] = o]
  BY <1>1 DEF PluginInv, QueuedOnce, Recorded
<1>3. queue' \in Seq(Dirs) /\ Len(queue') = Len(queue) - 1
      /\ \A i \in 1 .. Len(queue') : queue'[i] = queue[i + 1] /\ i + 1 \in 1 .. Len(queue)
  BY <1>1
<1>4. QueuedOnce'
  <2>1. \A i, j \in 1 .. Len(queue') : queue'[i] = queue'[j] => i = j
    <3> SUFFICES ASSUME NEW i \in 1 .. Len(queue'), NEW j \in 1 .. Len(queue'), queue'[i] = queue'[j]
                 PROVE  i = j
      OBVIOUS
    <3>1. i + 1 = j + 1
      BY <1>3 DEF PluginInv, QueuedOnce
    <3> QED
      BY <3>1
  <2>2. ASSUME NEW i \in 1 .. Len(queue') PROVE plugin'[queue'[i]] = "new"
    <3>1. queue'[i] = queue[i + 1] /\ i + 1 \in 1 .. Len(queue) /\ 1 \in 1 .. Len(queue) /\ i + 1 # 1
      BY <1>1, <1>3
    <3>2. queue[i + 1] # d /\ plugin[queue[i + 1]] = "new" /\ queue[i + 1] \in Dirs
      BY <1>1, <3>1 DEF PluginInv, QueuedOnce
    <3> QED
      BY <1>2, <3>1, <3>2 DEF PluginInv, LoaderTypes
  <2> QED
    BY <1>3, <2>1, <2>2 DEF QueuedOnce
<1>5. registrar'[d] = r /\ \A e \in Dirs \ {d} : registrar'[e] = registrar[e]
  BY DEF PluginInv, LoaderTypes
<1>6. LoaderTypes'
  <2>1. registrar' = [e \in Dirs |-> registrar'[e]]
    BY DEF PluginInv, LoaderTypes
  <2> QED
    BY <1>2, <1>5, <2>1 DEF PluginInv, LoaderTypes
<1>7. Contributed'
  <2> SUFFICES ASSUME NEW e \in Dirs
               PROVE  { x \in registry' : x.owner = e } =
                        IF plugin'[e] = "loaded" THEN registrar'[e].committed ELSE {}
    BY DEF Contributed
  <2>1. CASE e = d
    <3>1. { x \in registry : x.owner = d } = {}
      BY <1>2 DEF PluginInv, Contributed
    <3>2. { x \in registry' : x.owner = d } = new
      BY <3>1
    <3> QED
      BY <1>2, <1>5, <2>1, <3>2 DEF PluginInv, LoaderTypes
  <2>2. CASE e # d
    <3>1. { x \in registry' : x.owner = e } = { x \in registry : x.owner = e }
      BY <2>2
    <3> QED
      BY <1>2, <1>5, <2>2, <3>1 DEF PluginInv, LoaderTypes, Contributed
  <2> QED
    BY <2>1, <2>2
<1> QED
  BY <1>4, <1>6, <1>7 DEF PluginInv

\* A load that fails before commit.
LEMMA FailedStep ==
  ASSUME PluginInv, NEW d \in Dirs,
         reject(d) \/ import_fails(d) \/ registration_timeout(d) \/ rollback(d)
  PROVE  PluginInv'
<1>1. Loading(d) /\ UNCHANGED <<thread, registry>>
  BY DEF reject, import_fails, registration_timeout, rollback
<1>2. PICK o \in {"failed", "import_failed"} : Recorded(d, o)
  BY DEF reject, import_fails, registration_timeout, rollback
<1>3. registrar = [e \in Dirs |-> registrar[e]] /\ "committed" \in DOMAIN registrar[d]
  BY DEF PluginInv, LoaderTypes
<1>4. \E r : "committed" \in DOMAIN r /\ registrar' = [registrar EXCEPT ![d] = r]
  <2>1. CASE reject(d) \/ import_fails(d)
    BY <1>3, <2>1 DEF reject, import_fails
  <2>2. CASE registration_timeout(d)
    BY <1>3, <2>2 DEF registration_timeout, close
  <2>3. CASE rollback(d)
    BY <1>3, <2>3 DEF rollback
  <2> QED
    BY <2>1, <2>2, <2>3
<1>5. PICK r : "committed" \in DOMAIN r /\ registrar' = [registrar EXCEPT ![d] = r]
  BY <1>4
<1> DEFINE new == {}
<1>6. registry' = registry \cup new /\ \A e \in new : e.owner = d
  BY <1>1
<1>7. new = IF o = "loaded" THEN r.committed ELSE {}
  OBVIOUS
<1>8. o \in {"failed", "import_failed", "loaded"}
  OBVIOUS
<1> HIDE DEF new
<1> QED
  BY <1>1, <1>2, <1>5, <1>6, <1>7, <1>8, RecordedStep

\* A contribution carries its plugin's directory.
LEMMA InOrderOwner == ASSUME NEW d, NEW i \in DOMAIN InOrder(d) PROVE InOrder(d)[i].owner = d
BY DEF InOrder

\* The rollback takes out exactly what this commit put in: none of it was there before.
LEMMA RollbackRestores ==
  ASSUME NEW d, NEW n, Registered(InOrder(d), n)
  PROVE  _rollback_registrations(d, n) = registry
<1> DEFINE done == { InOrder(d)[i] : i \in 1 .. n }
<1>1. _rollback_registrations(d, n) = { e \in registry \cup done : \A i \in done : ~Taken({e}, i) }
  BY DEF _rollback_registrations, Without
<1>2. ASSUME NEW e \in registry, NEW i \in done PROVE ~Taken({e}, i)
  BY <1>2 DEF Registered, Taken
<1>3. ASSUME NEW e \in done PROVE Taken({e}, e)
  BY DEF Taken
<1> QED
  BY <1>1, <1>2, <1>3

\* Every staged contribution goes in and is recorded, or what went in is taken out again.
LEMMA CommitStep == ASSUME PluginInv, NEW d \in Dirs, commit(d) PROVE PluginInv'
<1> DEFINE items == InOrder(d)
<1>1. Loading(d) /\ UNCHANGED thread
  BY DEF commit
<1>2. registrar = [e \in Dirs |-> registrar[e]] /\ "committed" \in DOMAIN registrar[d]
  BY DEF PluginInv, LoaderTypes
<1>3. \A e \in Range(items) : e.owner = d
  BY InOrderOwner DEF Range
<1>4. \/ /\ registry' = registry \cup Range(items) /\ Recorded(d, "loaded")
         /\ registrar' = [registrar EXCEPT ![d].done = TRUE, ![d].staging = <<>>,
                                             ![d].committed = Range(items)]
      \/ /\ registry' = registry /\ Recorded(d, "failed")
         /\ registrar' = [registrar EXCEPT ![d].staging = <<>>]
  BY RollbackRestores DEF commit
<1>5. CASE /\ registry' = registry \cup Range(items) /\ Recorded(d, "loaded")
           /\ registrar' = [registrar EXCEPT ![d].done = TRUE, ![d].staging = <<>>,
                                               ![d].committed = Range(items)]
  <2> DEFINE new == Range(items)
             r == [registrar[d] EXCEPT !.done = TRUE, !.staging = <<>>, !.committed = new]
             o == "loaded"
  <2>1. "committed" \in DOMAIN r /\ r.committed = new
    BY <1>2
  <2>2. registrar' = [registrar EXCEPT ![d] = r]
    BY <1>2, <1>5
  <2>3. /\ registry' = registry \cup new /\ Recorded(d, o) /\ \A e \in new : e.owner = d
        /\ o \in {"failed", "import_failed", "loaded"}
    BY <1>3, <1>5
  <2>4. new = IF o = "loaded" THEN r.committed ELSE {}
    BY <2>1
  <2> HIDE DEF new, r, o
  <2> QED
    BY <1>1, <2>1, <2>2, <2>3, <2>4, RecordedStep
<1>6. CASE /\ registry' = registry /\ Recorded(d, "failed")
           /\ registrar' = [registrar EXCEPT ![d].staging = <<>>]
  <2> DEFINE new == {}
             r == [registrar[d] EXCEPT !.staging = <<>>]
             o == "failed"
  <2>1. "committed" \in DOMAIN r
    BY <1>2
  <2>2. registrar' = [registrar EXCEPT ![d] = r]
    BY <1>2, <1>6
  <2>3. /\ registry' = registry \cup new /\ Recorded(d, o) /\ \A e \in new : e.owner = d
        /\ o \in {"failed", "import_failed", "loaded"}
    BY <1>6
  <2>4. new = IF o = "loaded" THEN r.committed ELSE {}
    OBVIOUS
  <2> HIDE DEF new, r, o
  <2> QED
    BY <1>1, <2>1, <2>2, <2>3, <2>4, RecordedStep
<1> QED
  BY <1>4, <1>5, <1>6

LEMMA LoaderInv ==
  ASSUME LifespanInv, NEW d \in Dirs, Loader(d) \/ Thread(d)
  PROVE  LifespanInv'
<1>1. UNCHANGED <<phase, serverVars, wireVars>>
  BY DEF Loader, Thread, reject, import_fails, start_registration, registration_timeout, rollback, commit,
         stage, register_ends
<1>2. WireInv'
  BY <1>1, QuietWire DEF LifespanInv
<1>3. PluginInv'
  <2>1. CASE reject(d) \/ import_fails(d) \/ registration_timeout(d) \/ rollback(d)
    BY <2>1, FailedStep DEF LifespanInv
  <2>2. CASE commit(d)
    BY <2>2, CommitStep DEF LifespanInv
  <2>3. CASE start_registration(d) \/ Thread(d)
    <3>1. UNCHANGED <<queue, plugin, registry>>
      BY <2>3 DEF start_registration, Thread, stage, register_ends
    <3>2. \E t \in {"running", "returned", "raised"} :
             thread' = thread \/ thread' = [thread EXCEPT ![d] = t]
      BY <2>3 DEF start_registration, Thread, stage, register_ends
    <3>3. \/ registrar' = registrar
          \/ \E x : registrar' = [registrar EXCEPT ![d].staging = x]
      <4>1. CASE start_registration(d)
        BY <4>1 DEF start_registration
      <4>2. CASE register_ends(d)
        BY <4>2 DEF register_ends
      <4>3. ASSUME NEW i, stage(d, i)
            PROVE  registrar' = registrar \/ \E x : registrar' = [registrar EXCEPT ![d].staging = x]
        <5> DEFINE x == Append(registrar[d].staging, i)
        <5>1. CASE Open(d)
          <6>1. registrar' = [registrar EXCEPT ![d].staging = Append(@, i)]
            BY <4>3, <5>1 DEF stage
          <6>2. registrar' = [registrar EXCEPT ![d].staging = x]
            BY <6>1
          <6> QED
            BY <6>2
        <5>2. CASE ~Open(d)
          BY <4>3, <5>2 DEF stage
        <5> QED
          BY <5>1, <5>2
      <4> QED
        BY <2>3, <4>1, <4>2, <4>3 DEF Thread
    <3> QED
      BY <3>1, <3>2, <3>3, ThreadStep DEF LifespanInv
  <2> QED
    BY <2>1, <2>2, <2>3 DEF Loader
<1>4. \A e \in registry' : e \in registry \/ e.owner \notin Servers
  <2>1. d \notin Servers
    BY IntegrationsAssumption DEF IntegrationsAssumption, Dirs
  <2>2. CASE commit(d)
    <3>1. \A e \in Range(InOrder(d)) : e.owner = d
      BY InOrderOwner DEF Range
    <3>2. registry' = registry \cup Range(InOrder(d)) \/ registry' = registry
      BY <2>2, RollbackRestores DEF commit
    <3> QED
      BY <2>1, <3>1, <3>2
  <2>3. CASE ~commit(d)
    BY <2>3 DEF Loader, Thread, reject, import_fails, start_registration, registration_timeout, rollback,
                stage, register_ends
  <2> QED
    BY <2>2, <2>3
<1>5. ServerInv'
  BY <1>1, <1>4 DEF LifespanInv, ServerInv, ServerTypes, BusyInTime, ToolsHaveServer, ProcsHaveKeeper, Busy,
                    serverVars, wireVars
<1> QED
  BY <1>2, <1>3, <1>5 DEF LifespanInv

LEMMA LoadedInv == ASSUME LifespanInv, plugins_loaded PROVE LifespanInv'
<1>1. /\ phase = "plugins" /\ phase' = "mcp"
      /\ UNCHANGED <<pluginVars, clients, connected, proc, stray, wireVars, call>>
  BY DEF plugins_loaded, wireVars
<1>2. ~Busy /\ ~Busy'
  BY <1>1 DEF LifespanInv, ServerInv, BusyInTime, Busy
<1>3. /\ registry \subseteq registry'
      /\ \A e \in registry' : e \in registry \/ e.owner = "core"
  BY DEF plugins_loaded
<1>4. "core" \notin Servers
  BY IntegrationsAssumption DEF IntegrationsAssumption
<1>5. PluginInv'
  BY <1>1, <1>3, OthersRegister DEF LifespanInv
<1>6. ToolsHaveServer'
  BY <1>1, <1>2, <1>3, <1>4 DEF LifespanInv, ServerInv, ToolsHaveServer
<1>7. ServerInv'
  BY <1>1, <1>2, <1>6 DEF LifespanInv, ServerInv, ServerTypes, BusyInTime, ProcsHaveKeeper
<1> QED
  BY <1>1, <1>5, <1>7, QuietWire DEF LifespanInv

\* Of the startup's steps only discovery registers anything.
LEMMA StartupPlugins ==
  ASSUME LifespanInv, NEW s \in Servers, Startup(s)
  PROVE  PluginInv'
<1>1. UNCHANGED pluginVars
  BY DEF Startup, skip_server, spawn_fails, spawn, connect, handshake_failed, handshake_raises, discover,
         discovery_failed, closed
<1>2. CASE discover(s)
  <2>1. registry \subseteq registry'
    BY <1>2 DEF discover
  <2> QED
    BY <1>1, <1>2, <2>1, Discovered, OthersRegister DEF LifespanInv
<1>3. CASE ~discover(s)
  <2>1. UNCHANGED registry
    BY <1>3 DEF Startup, skip_server, spawn_fails, spawn, connect, handshake_failed, handshake_raises,
                discovery_failed, closed
  <2> QED
    BY <1>1, <2>1, QuietPlugins DEF LifespanInv
<1> QED
  BY <1>2, <1>3

LEMMA LifespanNextInv == ASSUME LifespanInv, [LifespanNext]_lifespanVars PROVE LifespanInv'
<1>1. CASE \E d \in Dirs : Loader(d) \/ Thread(d)
  BY <1>1, LoaderInv
<1>2. CASE plugins_loaded
  BY <1>2, LoadedInv
<1>3. ASSUME NEW s \in Servers, Startup(s) \/ Subprocess(s) \/ _disconnect_one(s)
      PROVE  LifespanInv'
  <2>1. CASE Startup(s)
    BY <2>1, StartupInv, StartupPlugins DEF LifespanInv
  <2>2. CASE Subprocess(s) \/ _disconnect_one(s)
    BY <2>2, SubprocessInv, DisconnectInv, QuietPlugins DEF LifespanInv
  <2> QED
    BY <1>3, <2>1, <2>2
<1>4. CASE serve \/ disconnect_all \/ stopped
  BY <1>4, ShutdownInv, QuietPlugins DEF LifespanInv
<1>5. CASE \E c \in DOMAIN call : readline(c) \/ request_timeout(c)
  <2>1. DOMAIN call = Requesters
    BY DEF LifespanInv, WireInv, WireTypes
  <2> QED
    BY <1>5, <2>1, ReadInv, QuietPlugins DEF LifespanInv
<1>6. CASE \E c \in Callers : execute(c) \/ return(c)
  BY <1>6, CallersInv, QuietPlugins DEF LifespanInv
<1>7. CASE UNCHANGED lifespanVars
  <2>1. UNCHANGED <<phase, pluginVars, registry, serverVars, wireVars, call>>
    BY <1>7 DEF lifespanVars, wireVars
  <2>2. ServerInv'
    BY <2>1 DEF LifespanInv, ServerInv, ServerTypes, BusyInTime, ToolsHaveServer, ProcsHaveKeeper, Busy, serverVars
  <2> QED
    BY <2>1, <2>2, QuietWire, QuietPlugins DEF LifespanInv
<1> QED
  BY <1>1, <1>2, <1>3, <1>4, <1>5, <1>6, <1>7 DEF LifespanNext

LEMMA Invariance == LifespanSpec => []LifespanInv
<1>1. LifespanInit => LifespanInv
  BY LifespanInitInv
<1>2. LifespanInv /\ [LifespanNext]_lifespanVars => LifespanInv'
  BY LifespanNextInv
<1> QED
  BY <1>1, <1>2, PTL DEF LifespanSpec

\* For any plugins, offers and points of failure: a directory is loaded once, commit removes
\* by key only what was not there before, and a thread that goes on finds its registrar closed.
THEOREM PluginsAreAllOrNothing == LifespanSpec => []PluginsAllOrNothing
<1>1. LifespanInv => PluginsAllOrNothing
  BY DEF LifespanInv, ServerInv, ServerTypes, PluginInv, LoaderTypes, Contributed, PluginsAllOrNothing, LifespanTypeOK
<1> QED
  BY <1>1, Invariance, PTL

\* For any number of callers, however late the answers: send_request never issues an id twice
\* on a transport and compares it before it returns a result.
THEOREM AnswersAreOwn == LifespanSpec => []AnswerIsOwn
<1>1. LifespanInv => AnswerIsOwn
  BY DEF LifespanInv, WireInv
<1> QED
  BY <1>1, Invariance, PTL

\* For any servers, policies and failures of handshake and discovery: a tool is registered
\* after its server is, and whatever subprocess runs is in _clients, in the hands of the
\* startup, or one of those whose handshake raised.
THEOREM NoServerStrays == LifespanSpec => []NoStrayServer
<1>1. LifespanInv => NoStrayServer
  BY DEF LifespanInv, ServerInv, BusyInTime, ToolsHaveServer, ProcsHaveKeeper, NoStrayServer
<1> QED
  BY <1>1, Invariance, PTL
=============================================================================
