--------------------------- MODULE WorkflowExecution ---------------------------
(***************************************************************************)
(* The built-in executor of workflow definitions (app/services.py,         *)
(* execute_workflow_definition) beside the operations that only register a *)
(* run (run_workflow_definition, which backfills and retries call).  Tasks *)
(* run in the order of the dependency graph; a task that is not selected,  *)
(* or whose upstream did not succeed, is skipped; a task that succeeded    *)
(* records a lineage event.                                                *)
(*                                                                         *)
(* The run is kept in memory while it executes and audited at the end; the *)
(* audits in between commit the collections they name, or everything.  Any *)
(* commit may fail and the process may die between two steps.              *)
(***************************************************************************)
EXTENDS Naturals

CONSTANTS
    Task,           \* the tasks of one active workflow definition
    Deps,           \* [Task -> SUBSET Task], the resolved dependencies
    Position,       \* [Task -> Nat], their place in topological_order
    Key,            \* idempotency keys
    Fresh,          \* stands for a key made with new_id
    RunId,
    NoRun,
    NoTask,
    Claim           \* statuses that callers register runs with

Runs == "workflow_runs"
Lineage == "lineage_events"
Other == "other"    \* a collection that the executor does not read
Collection == {Runs, Lineage, Other}

RunStatus == {"queued", "running", "succeeded", "failed", "needs_review"}
TaskStatus == {"queued", "running", "succeeded", "failed", "needs_review", "skipped"}

(* The executor refuses a definition whose graph has a cycle, so the order *)
(* it computes lists every task after its dependencies.                    *)
ASSUME GraphAssumption ==
    /\ Deps \in [Task -> SUBSET Task]
    /\ Position \in [Task -> Nat]
    /\ \A t, u \in Task : Position[t] = Position[u] => t = u
    /\ \A t \in Task : \A d \in Deps[t] : Position[d] < Position[t]
ASSUME NoneAssumption == NoTask \notin Task /\ Claim \subseteq RunStatus

VARIABLES
    runs, stored,               \* workflow_runs, in memory and in the database
    lineage, storedLineage,     \* lineage_events: the tasks they are about
    dirty,                      \* _dirty_collections
    exec                        \* the execution in progress

rowVars == <<stored, storedLineage>>
vars == <<runs, lineage, rowVars, dirty, exec>>

(* executed is FALSE of a run that was only registered.  given are the     *)
(* upstream tasks that dependency_snapshots vouched for.                   *)
Run == [executed : BOOLEAN, key : Key \cup {Fresh}, status : RunStatus,
        task : [Task -> TaskStatus], selected : SUBSET Task, given : SUBSET Task]

ASSUME NoRunAssumption == NoRun \notin Run

Idle == [at |-> "idle", id |-> NoRun, task |-> NoTask, todo |-> {}, continue |-> FALSE]

TypeOK ==
    /\ runs \in [RunId -> Run \cup {NoRun}]
    /\ stored \in [RunId -> Run \cup {NoRun}]
    /\ lineage \subseteq RunId \X Task
    /\ storedLineage \subseteq RunId \X Task
    /\ dirty \subseteq Collection
    /\ exec \in [at : {"idle", "next", "work"}, id : RunId \cup {NoRun},
                 task : Task \cup {NoTask}, todo : SUBSET Task, continue : BOOLEAN]
    /\ exec.at # "idle" => exec.id \in RunId /\ runs[exec.id] \in Run
    /\ exec.at = "work" => exec.task \in Task

Init ==
    /\ runs = [r \in RunId |-> NoRun] /\ stored = runs
    /\ lineage = {} /\ storedLineage = {}
    /\ dirty = {}
    /\ exec = Idle

-----------------------------------------------------------------------------
(* PostgreSQLStore.commit with the dirty set d: those collections, or all  *)
(* of them if there are none; a failed commit keeps d.                     *)
CommitOK(rs, ls, d) ==
    /\ stored' = IF d = {} \/ Runs \in d THEN rs ELSE stored
    /\ storedLineage' = IF d = {} \/ Lineage \in d THEN ls ELSE storedLineage
    /\ dirty' = {}

CommitFailed(d) == dirty' = d /\ UNCHANGED rowVars

Committed(rs, ls, d) == CommitOK(rs, ls, d) \/ CommitFailed(d)

-----------------------------------------------------------------------------
(* Runs that are only registered *)

NewRun(k, force) ==
    /\ exec.at = "idle"
    /\ force \/ \A r \in RunId : runs[r] \in Run => runs[r].key # k

(* run_workflow_definition stores a run with the status its caller claims  *)
(* and every task "succeeded" ...                                          *)
Register(r, k, status) ==
    /\ runs[r] = NoRun
    /\ runs' = [runs EXCEPT ![r] =
                    [executed |-> FALSE, key |-> k, status |-> status,
                     task |-> [t \in Task |-> "succeeded"],
                     selected |-> Task, given |-> {}]]
    /\ UNCHANGED <<lineage, exec>>

(* ... and audits it. *)
RegisterAudited == Committed(runs', lineage, dirty \cup {Runs})

RunDefinition(r, k, force, status) ==
    /\ NewRun(k, force)
    /\ Register(r, k, status) /\ RegisterAudited

(* retry_workflow_run: a run that failed, or any by force, is registered   *)
(* anew under another key and audited once more; no task is executed.  The *)
(* second audit may fail alone.                                            *)
Retry(old, r, k, force, status) ==
    /\ exec.at = "idle"
    /\ runs[old] \in Run
    /\ force \/ runs[old].status \in {"failed", "needs_review"}
    /\ Register(r, k, status)
    /\ \/ RegisterAudited
       \/ /\ stored' = runs' /\ dirty' = {Runs}
          /\ storedLineage' = IF Lineage \in dirty THEN lineage ELSE storedLineage

-----------------------------------------------------------------------------
(* Execution *)

(* The request is refused or answered with the existing run before         *)
(* anything is stored.  Snapshots of selected tasks are not looked at.     *)
Execute(r, k, force, selected, given, continue) ==
    /\ NewRun(k, force)
    /\ runs[r] = NoRun
    /\ selected # {}
    /\ runs' = [runs EXCEPT ![r] =
                    [executed |-> TRUE, key |-> k, status |-> "running",
                     task |-> [t \in Task |-> "queued"],
                     selected |-> selected, given |-> given \ selected]]
    /\ exec' = [Idle EXCEPT !.at = "next", !.id = r, !.todo = Task, !.continue = continue]
    /\ UNCHANGED <<lineage, dirty>> /\ UNCHANGED rowVars

First(t) == t \in exec.todo /\ \A u \in exec.todo : Position[t] <= Position[u]

(* Seeded fault: only an upstream that went wrong blocks, not one that was *)
(* skipped.                                                                *)
FaultBlocked(run, t) == \E d \in Deps[t] : run.task[d] \in {"failed", "needs_review"}

(* blocked_by: an upstream that did not succeed, unless it is left out and *)
(* a snapshot stands for it.                                               *)
Blocked(run, t) == \E d \in Deps[t] : run.task[d] # "succeeded" /\ d \notin run.given

Mark(t, status) == runs' = [runs EXCEPT ![exec.id].task[t] = status]

(* The next task is not selected, or blocked. *)
Skip(t) ==
    /\ exec.at = "next" /\ First(t)
    /\ t \notin runs[exec.id].selected \/ Blocked(runs[exec.id], t)
    /\ Mark(t, "skipped")
    /\ exec' = [exec EXCEPT !.todo = @ \ {t}]
    /\ UNCHANGED <<lineage, dirty>> /\ UNCHANGED rowVars

Start(t) ==
    /\ exec.at = "next" /\ First(t)
    /\ t \in runs[exec.id].selected /\ ~Blocked(runs[exec.id], t)
    /\ Mark(t, "running")
    /\ exec' = [exec EXCEPT !.at = "work", !.task = t, !.todo = @ \ {t}]
    /\ UNCHANGED <<lineage, dirty>> /\ UNCHANGED rowVars

(* The task succeeded, and so did the audit of its lineage event. *)
Succeed ==
    /\ exec.at = "work"
    /\ Mark(exec.task, "succeeded")
    /\ lineage' = lineage \cup {<<exec.id, exec.task>>}
    /\ CommitOK(runs', lineage', dirty \cup {Lineage})
    /\ exec' = [exec EXCEPT !.at = "next", !.task = NoTask]

(* The current task ends with a status that is not "succeeded".  Without   *)
(* continue_on_error the tasks left in the queue are skipped.              *)
Stop(status) ==
    LET left == IF exec.continue THEN {} ELSE exec.todo
    IN /\ runs' = [runs EXCEPT ![exec.id].task =
                      [t \in Task |-> IF t = exec.task THEN status
                                      ELSE IF t \in left THEN "skipped" ELSE @[t]]]
       /\ exec' = [exec EXCEPT !.at = "next", !.task = NoTask, !.todo = @ \ left]

(* What the task does is audited under its own types, which name another   *)
(* collection (named) or none.  If the commit raises, the task fails.      *)
TaskAudits(named) ==
    /\ exec.at = "work"
    /\ LET d == IF named THEN dirty \cup {Other} ELSE dirty
       IN \/ CommitOK(runs, lineage, d) /\ UNCHANGED <<runs, exec>>
          \/ CommitFailed(d) /\ Stop("failed")
    /\ UNCHANGED lineage

(* It reports needs_review (a benchmark missed its thresholds, an external *)
(* executor is required), it raises, or its lineage id is taken.           *)
Fail(status) ==
    /\ exec.at = "work"
    /\ Stop(status)
    /\ UNCHANGED <<lineage, dirty>> /\ UNCHANGED rowVars

(* The commit of the lineage event raises: the task failed, but its event  *)
(* stays in memory for a later commit.                                     *)
LineageFails ==
    /\ exec.at = "work"
    /\ Stop("failed")
    /\ lineage' = lineage \cup {<<exec.id, exec.task>>}
    /\ CommitFailed(dirty \cup {Lineage})

(* Seeded fault: skipped tasks do not count. *)
FaultFinalStatus(run) ==
    LET found == {run.task[t] : t \in run.selected}
    IN CASE "failed" \in found -> "failed"
         [] "failed" \notin found /\ "needs_review" \in found -> "needs_review"
         [] OTHER -> "succeeded"

FinalStatus(run) ==
    LET found == {run.task[t] : t \in run.selected}
    IN CASE "failed" \in found -> "failed"
         [] "failed" \notin found /\ found \cap {"needs_review", "skipped"} # {}
                -> "needs_review"
         [] OTHER -> "succeeded"

(* After the last task: the status, and the audit that makes it durable.   *)
Finish ==
    /\ exec.at = "next" /\ exec.todo = {}
    /\ runs' = [runs EXCEPT ![exec.id].status = FinalStatus(runs[exec.id])]
    /\ Committed(runs', lineage, dirty \cup {Runs})
    /\ exec' = Idle
    /\ UNCHANGED lineage

-----------------------------------------------------------------------------
(* Another request audits something else. *)
OtherAudits ==
    /\ exec.at = "idle"
    /\ Committed(runs, lineage, dirty \cup {Other})
    /\ UNCHANGED <<runs, lineage, exec>>

(* commit_all at the request boundary *)
Boundary ==
    /\ exec.at = "idle"
    /\ CommitOK(runs, lineage, {})
    /\ UNCHANGED <<runs, lineage, exec>>

(* The process dies; the next one loads what was committed. *)
Restart ==
    /\ runs' = stored /\ lineage' = storedLineage
    /\ dirty' = {}
    /\ exec' = Idle
    /\ UNCHANGED rowVars

Next ==
    \/ \E r \in RunId, k \in Key, force \in BOOLEAN :
          \/ \E status \in Claim : RunDefinition(r, k, force, status)
          \/ \E selected, given \in SUBSET Task, continue \in BOOLEAN :
                Execute(r, k, force, selected, given, continue)
    \/ \E old, r \in RunId, k \in Key \cup {Fresh}, force \in BOOLEAN, status \in Claim :
          Retry(old, r, k, force, status)
    \/ \E t \in Task : Skip(t) \/ Start(t)
    \/ \E named \in BOOLEAN : TaskAudits(named)
    \/ Succeed
    \/ \E status \in {"failed", "needs_review"} : Fail(status)
    \/ LineageFails
    \/ Finish
    \/ OtherAudits \/ Boundary
    \/ Restart

Spec == Init /\ [][Next]_vars

-----------------------------------------------------------------------------
(***************************************************************************)
(* Properties.  They are about executed runs: a run registered by a caller *)
(* or by retry_workflow_run claims what it claims.                         *)
(***************************************************************************)

Ran == {"running", "succeeded", "failed", "needs_review"}

(* No task runs on inputs that were not produced: each upstream of a task  *)
(* the executor started succeeded in the same run, or was left out with a  *)
(* snapshot to stand for it; so says the record in memory and the one a    *)
(* restart finds, at whatever step the process died.                       *)
UpstreamDone(run) ==
    \A t \in Task : run.task[t] \in Ran =>
        \A d \in Deps[t] : run.task[d] = "succeeded" \/ d \in run.given \ run.selected

RanAfterUpstream ==
    \A r \in RunId : \A run \in {runs[r], stored[r]} :
        run # NoRun => (run.executed => UpstreamDone(run))

(* A run is not called succeeded for less than all it was asked: every     *)
(* selected task succeeded, and every task it calls succeeded has its      *)
(* lineage event in the database, whatever commits failed and whatever was *)
(* lost in a restart.                                                      *)
Done(r, run) ==
    /\ run.status = "succeeded" => \A t \in run.selected : run.task[t] = "succeeded"
    /\ \A t \in Task : run.task[t] = "succeeded" => <<r, t>> \in storedLineage

SucceededIsDone ==
    \A r \in RunId : \A run \in {runs[r], stored[r]} :
        run # NoRun => (run.executed => Done(r, run))
=============================================================================
