---------------------------- MODULE MCAccessLimits ----------------------------
(* Two accounts, one guest token and two requests; owners have twice the     *)
(* base limit of one request per window of one second, two ticks.            *)
EXTENDS AccessLimits, TLC

CONSTANTS u1, u2, g1, r1, r2

MCMultiplier == [role \in Roles |-> IF role = "owner" THEN 4 ELSE 1]
MCSymmetry == Permutations(Users) \cup Permutations(Requests)
===============================================================================
