----------------------- MODULE MCWorkflowDefinitions -----------------------
(* Every set of edges over an entry, an approval and a task whose tool needs *)
(* an approval, with and without conditions and configured edges, and some   *)
(* graphs with a fork, a plugin or a malformed node.                         *)
EXTENDS WorkflowDefinitions, TLC

CONSTANTS c1, c2, k1

MCSymmetry == Permutations(Clients)

Small == {"e", "a", "t"}
SmallKind == [n \in Small |-> IF n = "a" THEN "approval" ELSE "task"]
Unset(N) == [n \in N |-> None]

Graph(N, E, kind, pair, cond, yes, no, flagged) ==
    [nodes |-> N, edges |-> E, entry |-> "e", kind |-> kind, pair |-> pair,
     conditional |-> cond, approved |-> yes, rejected |-> no,
     plugin |-> [n \in N |-> "p"], wrong |-> [n \in N |-> {}],
     malformed |-> {}, flagged |-> flagged]

SmallGraphs ==
    {Graph(Small, E, SmallKind, Unset(Small), {}, Unset(Small), Unset(Small), {"t"}) :
        E \in SUBSET (Small \X Small)}

\* The approval leads to t and to u, which cond, yes and no tell apart.
Wide == {"e", "a", "t", "u"}
WideKind == [n \in Wide |-> IF n = "a" THEN "approval" ELSE "task"]
WideEdges == {<<"e", "a">>, <<"a", "t">>, <<"a", "u">>}
Choices == {<<<<"a", "t">>, <<"a", "u">>>>, <<<<"a", "u">>, <<"a", "u">>>>,
            <<<<"e", "a">>, None>>, <<None, None>>}
Conditions == {{}, {<<"a", "u">>}, {<<"a", "t">>, <<"a", "u">>}}
WideGraphs ==
    {Graph(Wide, WideEdges, WideKind, Unset(Wide), cond, [Unset(Wide) EXCEPT !["a"] = ch[1]],
           [Unset(Wide) EXCEPT !["a"] = ch[2]], {"t"}) : cond \in Conditions, ch \in Choices}

Forked == {"e", "a", "t", "j"}
ForkedKind == [n \in Forked |-> CASE n = "e" -> "fork" [] n = "j" -> "join"
                                  [] n = "a" -> "approval" [] OTHER -> "plugin"]
ForkedEdges == {<<"e", "a">>, <<"e", "t">>, <<"a", "j">>, <<"t", "j">>}
ForkedGraphs ==
    {Graph(Forked, ForkedEdges, ForkedKind, [Unset(Forked) EXCEPT !["e"] = f, !["j"] = j],
           {}, Unset(Forked), Unset(Forked), {}) : f \in {"j", "a"}, j \in {"e", "t"}}

MCGraphs ==
    SmallGraphs \cup WideGraphs \cup ForkedGraphs
    \cup {[g EXCEPT !.wrong["t"] = {"schema"}] : g \in ForkedGraphs}
    \cup {[g EXCEPT !.malformed = {<<"a", "u">>}] : g \in WideGraphs}
    \cup {[g EXCEPT !.plugin["t"] = "q"] : g \in ForkedGraphs}
=============================================================================
