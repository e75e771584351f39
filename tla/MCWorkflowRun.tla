---------------------------- MODULE MCWorkflowRun ----------------------------
(* A small definition for WorkflowRun. *)
EXTENDS WorkflowRun, TLC

CONSTANTS e1, d1

\* The approval ap leads to the fork f when it is approved, else to the router
\* r.  f starts p and q, q is followed by u, and j joins whichever comes first
\* and cancels the rest; r selects x, y or both.  y also follows j, and is left
\* behind when r is skipped.
MCNodes == {"ap", "f", "p", "q", "u", "j", "r", "x", "y"}
MCEdges == {<<"ap", "f">>, <<"ap", "r">>, <<"f", "p">>, <<"f", "q">>, <<"q", "u">>, <<"p", "j">>,
            <<"u", "j">>, <<"r", "x">>, <<"r", "y">>, <<"j", "y">>}
MCKind == [n \in MCNodes |-> CASE n = "r" -> "router" [] n = "f" -> "fork" [] n = "j" -> "join"
                               [] n = "ap" -> "approval" [] n = "y" -> "terminal" [] OTHER -> "task"]
MCJoinOf == [n \in MCNodes |-> IF n = "f" THEN "j" ELSE n]
MCForkOf == [n \in MCNodes |-> IF n = "j" THEN "f" ELSE n]
MCNeeds == [n \in MCNodes |-> IF n = "j" THEN 1 ELSE 0]
MCSelects == [n \in MCNodes |-> [c \in {"approved", "rejected", "expired"} |->
                IF n # "ap" THEN {} ELSE IF c = "approved" THEN {<<"ap", "f">>} ELSE {<<"ap", "r">>}]]
MCMaxRetries == [n \in MCNodes |-> IF n = "x" THEN 1 ELSE 0]

=============================================================================
