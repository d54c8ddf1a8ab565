---------------------------- MODULE MCPaperLedger ----------------------------
(* PaperLedger with two processes and four decisions. *)
EXTENDS PaperLedger, TLC

Symmetry == Permutations(Process) \cup Permutations(Snapshot)
=============================================================================
