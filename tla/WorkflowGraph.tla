---------------------------- MODULE WorkflowGraph ----------------------------
(***************************************************************************)
(* graph/traversal.py: what a workflow definition and the persisted run    *)
(* say about which nodes may be started, grouped or skipped.               *)
(*                                                                         *)
(* An edge is the pair of its nodes.  The two work-list loops of the code  *)
(* compute least fixed points: a region is the intersection of the sets    *)
(* closed under the loop's rule, what is skipped follows from the sources, *)
(* of which a valid definition has no cycle.                               *)
(***************************************************************************)
EXTENDS Naturals, FiniteSets

CONSTANTS Nodes, Edges, Entry,
          Kind,            \* node type; "task" stands for task, llm and agent
          JoinOf,          \* a fork's join_node_id
          ForkOf,          \* a join's fork_node_id
          Needs,           \* a join's policy: 0 for all, else how many
          CancelRemaining  \* joins configured with cancel_remaining

Forks == {n \in Nodes : Kind[n] = "fork"}
In(n) == {e \in Edges : e[2] = n}
Out(n) == {e \in Edges : e[1] = n}
Sources == [n \in Nodes |-> {e[1] : e \in In(n)}]
Targets == [n \in Nodes |-> {e[2] : e \in Out(n)}]

\* What the run row says: done are the keys of context.variables, output
\* the edges a router or an approval selected.
RunStatus == {"absent", "running", "waiting_approval", "completed", "failed", "cancelled"}
Run == [status : RunStatus, done : SUBSET Nodes, output : [Nodes -> SUBSET Edges],
        skipped : SUBSET Nodes, current : SUBSET Nodes]

Resolved(r) == r.done \cup r.skipped

Started(r) == Resolved(r) \cup r.current

\* get_fork_join_region_nodes, for the join the fork names
Region ==
  [f \in Nodes |->
    LET Closed(S) == \A n \in S \cup {f} : Targets[n] \ {JoinOf[f]} \subseteq S
    IN {n \in Nodes : Kind[f] = "fork" /\ \A S \in SUBSET Nodes : Closed(S) => n \in S}]

InRegion == UNION {Region[f] : f \in Forks}

\* Regions are disjoint and entered at their fork, so that
\* find_fork_join_region has one answer: nested forks are not covered.
ASSUME GraphAssumption ==
  /\ Edges \subseteq Nodes \X Nodes
  /\ \A S \in (SUBSET Nodes) \ {{}} : \E n \in S : Sources[n] \cap S = {}
  /\ Entry \in Nodes
  /\ Kind \in [Nodes -> {"task", "router", "fork", "join", "approval", "terminal"}]
  /\ JoinOf \in [Nodes -> Nodes] /\ ForkOf \in [Nodes -> Nodes]
  /\ Needs \in [Nodes -> Nat] /\ CancelRemaining \subseteq Nodes
  /\ \A f, g \in Forks : f # g => Region[f] \cap Region[g] = {}
  /\ \A f \in Forks, n \in Nodes : n \in Region[f] => Sources[n] \subseteq Region[f] \cup {f}

group_parallel_ready_nodes(ready) ==
  {g \in {ready \cap Region[f] : f \in Forks} : Cardinality(g) > 1}

\* sequential[0]: nodes outside every region come first
sequential_head(ready) ==
  IF ready \subseteq InRegion THEN ready ELSE ready \ InRegion

is_join_ready(r, j) ==
  LET branches == Sources[j] \ {ForkOf[j]}
  IN /\ branches # {}
     /\ \/ Needs[j] = 0 /\ branches \subseteq Resolved(r)
        \/ Needs[j] > 0 /\ Cardinality(branches \cap r.done) >= Needs[j]

incoming_branch_edges_selected(r, n) ==
  \A s \in Sources[n] : Kind[s] \in {"router", "approval"} =>
                          s \in r.done /\ <<s, n>> \in r.output[s]

resolve_ready_nodes(r) ==
  {n \in Nodes \ Started(r) :
     \/ n = Entry
     \/ Kind[n] = "join" /\ is_join_ready(r, n)
     \/ /\ Kind[n] # "join"
        /\ Sources[n] # {} /\ Sources[n] \subseteq Resolved(r)
        /\ incoming_branch_edges_selected(r, n)}

collect_nodes_to_skip(r, n, selected) ==
  LET direct == {e[2] : e \in Out(n) \ selected} \ {e[2] : e \in selected}
      skip[x \in Nodes] ==
        /\ x \notin Started(r)
        /\ \/ x \in direct
           \/ /\ Sources[x] # {}
              /\ \A s \in Sources[x] : s \notin r.done /\ (s \in r.skipped \/ skip[s])
  IN {x \in Nodes : skip[x]}

collect_incomplete_fork_branch_nodes_to_skip(r, j) == Region[ForkOf[j]] \ Started(r)

\* should_ignore_branch_failure
IgnoredFailure(r, n) ==
  \E f \in Forks : n \in Region[f] /\ Needs[JoinOf[f]] > 0 /\ is_join_ready(r, JoinOf[f])

\* What is skipped once n has succeeded with this output.
SkippedAfter(r, n) ==
  CASE Kind[n] \in {"router", "approval"} -> collect_nodes_to_skip(r, n, r.output[n])
    [] Kind[n] = "join" /\ Needs[n] > 0 /\ n \in CancelRemaining ->
         collect_incomplete_fork_branch_nodes_to_skip(r, n)
    [] OTHER -> {}

=============================================================================
