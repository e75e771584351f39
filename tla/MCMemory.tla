---- MODULE MCMemory ----
(* Two turns, in one session or in two, that extract up to two memories each. *)
EXTENDS Memory

\* Turns, and sessions, are interchangeable: one turn is in one session and is the
\* older, with the better memory of the first content and the worse of the second.
MCInit ==
    LET t == CHOOSE u \in Turns : TRUE
        older == [r \in Records |-> IF r[1] = t THEN r[2] ELSE r[2] + Cardinality(Contents)]
    IN
    /\ MemoryInit
    /\ session[t] = CHOOSE s \in Sessions : TRUE
    /\ created = older
    /\ \A r \in Records : place[r] = IF r[1] = t THEN r[2] ELSE 3 - r[2]

MCSpec == MCInit /\ [][MemoryNext]_memoryVars /\ MemoryFairness
====
