-------------------------- MODULE MCDailyAllocation --------------------------
(* DailyAllocation with two processes and two decisions. *)
EXTENDS DailyAllocation, TLC

Symmetry == Permutations(Process) \cup Permutations(Snapshot)
=============================================================================
