--------------------------- MODULE MCJobScheduler ---------------------------
(* The scheduler with two processes. *)
EXTENDS JobScheduler, TLC

CONSTANTS p1, p2

TwoProcs == {p1, p2}

\* A rolling deployment: the two processes' settings disagree.
Disagreeing == p1 :> "enabled" @@ p2 :> "disabled"

=============================================================================
