---- MODULE MCKnowledge ----
(* Two uploads of one user, none to two earlier ones against a quota of two; *)
(* two embedded chunks each.                                                  *)
EXTENDS Knowledge, TLC

CONSTANTS d1, d2, c1, c2

MCSymmetry == Permutations(Docs) \cup Permutations(Children)
====
