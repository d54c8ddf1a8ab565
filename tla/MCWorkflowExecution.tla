-------------------------- MODULE MCWorkflowExecution --------------------------
(* Three tasks: load, then score on top of it, then publish, which needs   *)
(* both; two runs under one key, at most one of them executed.             *)
EXTENDS WorkflowExecution, TLC

CONSTANTS load, score, publish

MCDeps ==
    [t \in Task |-> CASE t = load -> {}
                      [] t = score -> {load}
                      [] t = publish -> {load, score}]

MCPosition == [t \in Task |-> CASE t = load -> 1 [] t = score -> 2 [] t = publish -> 3]

RunSymmetry == Permutations(RunId)

OneExecuted ==
    \A r, s \in RunId :
        runs[r] # NoRun /\ runs[s] # NoRun /\ runs[r].executed /\ runs[s].executed
            => r = s
=============================================================================
