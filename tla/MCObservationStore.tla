-------------------------- MODULE MCObservationStore --------------------------
(* Two overlapping refreshes; processes are interchangeable, and so are    *)
(* values and observation dates, which are only compared with each other.  *)
EXTENDS ObservationStore, TLC

CONSTANTS p1, p2, o1, o2, v1, v2, v3

Symmetry == Permutations({p1, p2}) \cup Permutations({o1, o2}) \cup Permutations({v1, v2, v3})

(* Refreshes begin and end from states of at most this many rows (a step   *)
(* out of them is still checked, and adds one or two).                     *)
FewRows == Cardinality(rows) <= 2
=============================================================================
