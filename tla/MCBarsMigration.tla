--------------------------- MODULE MCBarsMigration ---------------------------
(* Two bars, copied one at a time: the first may be written with different *)
(* columns, the second with different payloads.                            *)
EXTENDS BarsMigration, TLC

CONSTANTS c1, c2, c3, p1, p2, p3

MCWritten ==
    <<[columns : {c1, c2}, payload : {p3}], [columns : {c3}, payload : {p1, p2}]>>
MCRightsTag == [c \in Columns |-> c = c3]
Symmetry ==
    Permutations({c1, c2}) \cup Permutations({p1, p2})
        \cup Permutations(Runs) \cup Permutations(Copies)
=============================================================================
