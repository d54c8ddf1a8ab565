------------------------ MODULE WorkflowExecutionProofs ------------------------
(***************************************************************************)
(* Proofs about WorkflowExecution, for any tasks and dependencies and any  *)
(* number of runs.                                                         *)
(*                                                                         *)
(* A task that succeeded keeps that status, so what was true of the        *)
(* upstream of a task when it started stays true (Sound); every commit     *)
(* only adds to the durable lineage, because memory holds all of it (Log); *)
(* and the tasks behind the executor are settled (Active).                 *)
(***************************************************************************)
EXTENDS WorkflowExecution, TLAPS

(* What holds of a run record under the id r, when S is the durable        *)
(* lineage.                                                                *)
Backed(r, run, S) ==
    /\ run.status = "succeeded" => \A t \in run.selected : run.task[t] = "succeeded"
    /\ \A t \in Task : run.task[t] = "succeeded" => <<r, t>> \in S

Sound(r, run, S) ==
    run # NoRun => (run.executed => /\ run.given \cap run.selected = {}
                                    /\ UpstreamDone(run)
                                    /\ Backed(r, run, S))

AllSound ==
    \A r \in RunId : /\ Sound(r, runs[r], storedLineage)
                     /\ Sound(r, stored[r], storedLineage)

Log == storedLineage \subseteq lineage

Settled == {"succeeded", "failed", "needs_review", "skipped"}

Active ==
    exec.at # "idle" =>
        /\ runs[exec.id].executed
        /\ runs[exec.id].status = "running"
        /\ \A t \in exec.todo : runs[exec.id].task[t] = "queued"
        /\ \A t \in Task \ exec.todo :
              runs[exec.id].task[t] \in Settled \/ (exec.at = "work" /\ t = exec.task)
        /\ exec.at = "work" => /\ exec.task \notin exec.todo
                               /\ runs[exec.id].task[exec.task] = "running"

IInv == TypeOK /\ AllSound /\ Log /\ Active

-----------------------------------------------------------------------------
(* Run records *)

LEMMA MoreLineage ==
    ASSUME NEW r, NEW run, NEW S, NEW T, S \subseteq T, Sound(r, run, S)
    PROVE  Sound(r, run, T)
BY DEF Sound, Backed

(* A record with other task statuses, where what succeeded still has. *)
LEMMA UpstreamKept ==
    ASSUME NEW run, NEW task, NEW new,
           new.task = task, new.selected = run.selected, new.given = run.given,
           UpstreamDone(run),
           \A d \in Task : run.task[d] = "succeeded" => task[d] = "succeeded",
           \A t \in Task : task[t] \in Ran =>
               \/ run.task[t] \in Ran
               \/ \A d \in Deps[t] : run.task[d] = "succeeded" \/ d \in run.given \ run.selected
    PROVE  UpstreamDone(new)
<1> SUFFICES ASSUME NEW t \in Task, task[t] \in Ran, NEW d \in Deps[t]
             PROVE  task[d] = "succeeded" \/ d \in run.given \ run.selected
  BY DEF UpstreamDone
<1>1. d \in Task
  BY GraphAssumption
<1>2. run.task[d] = "succeeded" \/ d \in run.given \ run.selected
  BY DEF UpstreamDone
<1> QED BY <1>1, <1>2

(* What a commit does to the rows. *)
LEMMA Rows ==
    ASSUME TypeOK, Log, NEW ls \in SUBSET (RunId \X Task), lineage \subseteq ls,
           NEW rs, NEW d \in SUBSET Collection, Committed(rs, ls, d)
    PROVE  /\ stored' = stored \/ stored' = rs
           /\ storedLineage \subseteq storedLineage'
           /\ storedLineage' \subseteq ls
           /\ dirty' \in SUBSET Collection
BY DEF TypeOK, Log, Committed, CommitOK, CommitFailed, rowVars

(* One record changes, and is committed or not. *)
LEMMA OneRun ==
    ASSUME IInv, NEW q \in RunId, NEW new \in Run, runs' = [runs EXCEPT ![q] = new],
           stored' = stored \/ stored' = runs',
           storedLineage \subseteq storedLineage', Sound(q, new, storedLineage')
    PROVE  /\ AllSound'
           /\ runs' \in [RunId -> Run \cup {NoRun}] /\ stored' \in [RunId -> Run \cup {NoRun}]
           /\ runs'[q] = new /\ \A r \in RunId \ {q} : runs'[r] = runs[r]
<1>1. /\ runs' \in [RunId -> Run \cup {NoRun}] /\ stored' \in [RunId -> Run \cup {NoRun}]
      /\ runs'[q] = new /\ \A r \in RunId \ {q} : runs'[r] = runs[r]
  BY DEF IInv, TypeOK
<1>2. \A r \in RunId : /\ Sound(r, runs[r], storedLineage')
                       /\ Sound(r, stored[r], storedLineage')
  BY MoreLineage DEF IInv, AllSound
<1>3. \A r \in RunId : Sound(r, runs'[r], storedLineage')
  BY <1>1, <1>2
<1>4. \A r \in RunId : Sound(r, stored'[r], storedLineage')
  BY <1>2, <1>3
<1> QED BY <1>1, <1>3, <1>4 DEF AllSound

(* None changes. *)
LEMMA SameRuns ==
    ASSUME IInv, runs' = runs, stored' = stored \/ stored' = runs',
           storedLineage \subseteq storedLineage'
    PROVE  AllSound' /\ stored' \in [RunId -> Run \cup {NoRun}]
<1>1. \A r \in RunId : /\ Sound(r, runs[r], storedLineage')
                       /\ Sound(r, stored[r], storedLineage')
  BY MoreLineage DEF IInv, AllSound
<1>2. \A r \in RunId : Sound(r, stored'[r], storedLineage')
  BY <1>1
<1> QED BY <1>1, <1>2 DEF AllSound, IInv, TypeOK

(* The record of the run in progress. *)
LEMMA Current ==
    ASSUME IInv, exec.at # "idle"
    PROVE  /\ exec.id \in RunId
           /\ runs[exec.id] \in Run /\ runs[exec.id] # NoRun
           /\ runs[exec.id].executed /\ runs[exec.id].status = "running"
           /\ runs[exec.id].task \in [Task -> TaskStatus]
           /\ runs[exec.id].given \cap runs[exec.id].selected = {}
           /\ UpstreamDone(runs[exec.id])
           /\ Backed(exec.id, runs[exec.id], storedLineage)
<1>1. exec.id \in RunId /\ runs[exec.id] \in Run
  BY DEF IInv, TypeOK
<1>2. runs[exec.id] # NoRun
  BY <1>1, NoRunAssumption
<1>3. runs[exec.id].executed /\ runs[exec.id].status = "running"
  BY DEF IInv, Active
<1>4. Sound(exec.id, runs[exec.id], storedLineage)
  BY <1>1 DEF IInv, AllSound
<1>5. runs[exec.id].task \in [Task -> TaskStatus]
  BY <1>1 DEF Run
<1> QED BY <1>1, <1>2, <1>3, <1>4, <1>5 DEF Sound

(* Its tasks move on: a record that is sound and still running. *)
Moved(task) == [runs[exec.id] EXCEPT !.task = task]

LEMMA Moves ==
    ASSUME IInv, exec.at # "idle", NEW task \in [Task -> TaskStatus], NEW S,
           storedLineage \subseteq S,
           \A d \in Task : runs[exec.id].task[d] = "succeeded" => task[d] = "succeeded",
           \A t \in Task : task[t] = "succeeded" =>
               runs[exec.id].task[t] = "succeeded" \/ <<exec.id, t>> \in S,
           \A t \in Task : task[t] \in Ran =>
               \/ runs[exec.id].task[t] \in Ran
               \/ \A d \in Deps[t] : \/ runs[exec.id].task[d] = "succeeded"
                                     \/ d \in runs[exec.id].given \ runs[exec.id].selected
    PROVE  /\ Moved(task) \in Run /\ Sound(exec.id, Moved(task), S)
           /\ Moved(task).task = task
           /\ Moved(task).executed /\ Moved(task).status = "running"
<1> DEFINE run == runs[exec.id]
           new == Moved(task)
<1>1. /\ new \in Run /\ new.task = task /\ new.executed /\ new.status = "running"
      /\ new.selected = run.selected /\ new.given = run.given
  BY Current DEF Moved, Run
<1>2. UpstreamDone(new)
  <2>1. UpstreamDone(run)
    BY Current
  <2> HIDE DEF new, run
  <2> QED BY <1>1, <2>1, UpstreamKept DEF run
<1>3. Backed(exec.id, new, S)
  <2>1. \A t \in Task : run.task[t] = "succeeded" => <<exec.id, t>> \in S
    BY Current DEF Backed
  <2> QED BY <1>1, <2>1 DEF Backed
<1>4. Sound(exec.id, new, S)
  BY <1>1, <1>2, <1>3, Current DEF Sound
<1> QED BY <1>1, <1>4

-----------------------------------------------------------------------------
(* The steps *)

LEMMA InitIInv == Init => IInv
<1> SUFFICES ASSUME Init PROVE IInv
  OBVIOUS
<1>1. TypeOK
  BY DEF Init, TypeOK, Idle
<1>2. AllSound
  BY DEF Init, AllSound, Sound
<1> QED BY <1>1, <1>2 DEF Init, IInv, Log, Active, Idle

(* A step that leaves the execution idle. *)
LEMMA NowIdle ==
    ASSUME exec' = Idle
    PROVE  /\ exec' \in [at : {"idle", "next", "work"}, id : RunId \cup {NoRun},
                         task : Task \cup {NoTask}, todo : SUBSET Task, continue : BOOLEAN]
           /\ exec'.at = "idle"
           /\ Active'
BY DEF Idle, Active

LEMMA IdleStays ==
    ASSUME TypeOK, exec.at = "idle", exec' = exec
    PROVE  /\ exec' \in [at : {"idle", "next", "work"}, id : RunId \cup {NoRun},
                         task : Task \cup {NoTask}, todo : SUBSET Task, continue : BOOLEAN]
           /\ exec'.at = "idle"
           /\ Active'
BY DEF TypeOK, Active

LEMMA RegisterStep ==
    ASSUME IInv, exec.at = "idle", NEW r \in RunId, NEW k \in Key \cup {Fresh},
           NEW status \in Claim, Register(r, k, status),
           stored' = stored \/ stored' = runs', storedLineage \subseteq storedLineage',
           storedLineage' \subseteq lineage, dirty' \in SUBSET Collection
    PROVE  IInv'
<1> DEFINE new == [executed |-> FALSE, key |-> k, status |-> status,
                   task |-> [t \in Task |-> "succeeded"],
                   selected |-> Task, given |-> {}]
<1>1. new \in Run
  BY NoneAssumption DEF Run, TaskStatus
<1>2. runs' = [runs EXCEPT ![r] = new] /\ lineage' = lineage /\ exec' = exec
  BY DEF Register
<1>3. Sound(r, new, storedLineage')
  BY DEF Sound
<1> HIDE DEF new
<1>4. /\ AllSound'
      /\ runs' \in [RunId -> Run \cup {NoRun}] /\ stored' \in [RunId -> Run \cup {NoRun}]
  BY <1>1, <1>2, <1>3, OneRun
<1>5. TypeOK'
  BY <1>2, <1>4, IdleStays DEF IInv, TypeOK
<1>6. Active' /\ Log'
  BY <1>2, IdleStays DEF IInv, Log
<1> QED BY <1>4, <1>5, <1>6 DEF IInv

LEMMA AuditedRows ==
    ASSUME IInv, RegisterAudited
    PROVE  /\ stored' = stored \/ stored' = runs'
           /\ storedLineage \subseteq storedLineage'
           /\ storedLineage' \subseteq lineage /\ dirty' \in SUBSET Collection
<1>1. dirty \cup {Runs} \in SUBSET Collection /\ lineage \in SUBSET (RunId \X Task)
  BY DEF IInv, TypeOK, Collection
<1> QED BY <1>1, Rows DEF IInv, RegisterAudited

LEMMA RetryStep ==
    ASSUME IInv, NEW old \in RunId, NEW r \in RunId, NEW k \in Key \cup {Fresh},
           NEW force \in BOOLEAN, NEW status \in Claim, Retry(old, r, k, force, status)
    PROVE  IInv'
<1>1. exec.at = "idle" /\ Register(r, k, status)
  BY DEF Retry
<1>2. CASE RegisterAudited
  BY <1>1, <1>2, AuditedRows, RegisterStep
<1>3. CASE /\ stored' = runs' /\ dirty' = {Runs}
           /\ storedLineage' = IF Lineage \in dirty THEN lineage ELSE storedLineage
  <2>1. storedLineage \subseteq storedLineage' /\ storedLineage' \subseteq lineage
    BY <1>3 DEF IInv, Log
  <2>2. dirty' \in SUBSET Collection
    BY <1>3 DEF Collection
  <2> QED BY <1>1, <1>3, <2>1, <2>2, RegisterStep
<1> QED BY <1>2, <1>3 DEF Retry

LEMMA ExecuteStep ==
    ASSUME IInv, NEW r \in RunId, NEW k \in Key, NEW force \in BOOLEAN,
           NEW selected \in SUBSET Task, NEW given \in SUBSET Task,
           NEW continue \in BOOLEAN, Execute(r, k, force, selected, given, continue)
    PROVE  IInv'
<1> DEFINE new == [executed |-> TRUE, key |-> k, status |-> "running",
                   task |-> [t \in Task |-> "queued"],
                   selected |-> selected, given |-> given \ selected]
<1>1. new \in Run
  BY DEF Run, TaskStatus, RunStatus
<1>2. /\ runs' = [runs EXCEPT ![r] = new] /\ lineage' = lineage /\ dirty' = dirty
      /\ stored' = stored /\ storedLineage' = storedLineage
  BY DEF Execute, rowVars
<1>3. /\ exec' = [at |-> "next", id |-> r, task |-> NoTask, todo |-> Task,
                  continue |-> continue]
  BY DEF Execute, Idle
<1>4. Sound(r, new, storedLineage')
  BY DEF Sound, UpstreamDone, Backed, Ran
<1>5. new.executed /\ new.status = "running" /\ \A t \in Task : new.task[t] = "queued"
  OBVIOUS
<1> HIDE DEF new
<1>6. /\ AllSound'
      /\ runs' \in [RunId -> Run \cup {NoRun}] /\ stored' \in [RunId -> Run \cup {NoRun}]
      /\ runs'[r] = new
  BY <1>1, <1>2, <1>4, OneRun
<1>7. TypeOK'
  BY <1>1, <1>2, <1>3, <1>6 DEF IInv, TypeOK
<1>8. Active'
  BY <1>3, <1>5, <1>6 DEF Active
<1>9. Log'
  BY <1>2 DEF IInv, Log
<1> QED BY <1>6, <1>7, <1>8, <1>9 DEF IInv

(* The record in progress is Moved(task), with the rest of the state:      *)
(* what is left to show is where the executor is.                          *)
LEMMA MovedStep ==
    ASSUME IInv, exec.at # "idle", NEW task \in [Task -> TaskStatus],
           runs' = [runs EXCEPT ![exec.id] = Moved(task)],
           stored' = stored \/ stored' = runs',
           storedLineage \subseteq storedLineage',
           \A d \in Task : runs[exec.id].task[d] = "succeeded" => task[d] = "succeeded",
           \A t \in Task : task[t] = "succeeded" =>
               runs[exec.id].task[t] = "succeeded" \/ <<exec.id, t>> \in storedLineage',
           \A t \in Task : task[t] \in Ran =>
               \/ runs[exec.id].task[t] \in Ran
               \/ \A d \in Deps[t] : \/ runs[exec.id].task[d] = "succeeded"
                                     \/ d \in runs[exec.id].given \ runs[exec.id].selected
    PROVE  /\ AllSound'
           /\ runs' \in [RunId -> Run \cup {NoRun}] /\ stored' \in [RunId -> Run \cup {NoRun}]
           /\ runs'[exec.id] \in Run /\ runs'[exec.id].task = task
           /\ runs'[exec.id].executed /\ runs'[exec.id].status = "running"
<1>1. /\ Moved(task) \in Run /\ Sound(exec.id, Moved(task), storedLineage')
      /\ Moved(task).task = task /\ Moved(task).executed
      /\ Moved(task).status = "running"
  BY Moves
<1>2. exec.id \in RunId
  BY DEF IInv, TypeOK
<1>3. /\ AllSound'
      /\ runs' \in [RunId -> Run \cup {NoRun}] /\ stored' \in [RunId -> Run \cup {NoRun}]
      /\ runs'[exec.id] = Moved(task)
  BY <1>1, <1>2, OneRun
<1> QED BY <1>1, <1>3

(* One task of it changes. *)
LEMMA Marked ==
    ASSUME IInv, exec.at # "idle", NEW t \in Task, NEW status \in TaskStatus, Mark(t, status)
    PROVE  \E task \in [Task -> TaskStatus] :
              /\ runs' = [runs EXCEPT ![exec.id] = Moved(task)]
              /\ task[t] = status
              /\ \A u \in Task \ {t} : task[u] = runs[exec.id].task[u]
<1> DEFINE task == [runs[exec.id].task EXCEPT ![t] = status]
<1>1. runs[exec.id].task \in [Task -> TaskStatus] /\ exec.id \in RunId /\ runs[exec.id] \in Run
  BY Current
<1>2. task \in [Task -> TaskStatus] /\ task[t] = status
      /\ \A u \in Task \ {t} : task[u] = runs[exec.id].task[u]
  BY <1>1
<1>3. runs' = [runs EXCEPT ![exec.id] = Moved(task)]
  BY <1>1 DEF Mark, Moved
<1> QED BY <1>2, <1>3

(* The end of a task that did not succeed. *)
LEMMA StopStep ==
    ASSUME IInv, exec.at = "work", NEW status \in {"failed", "needs_review"}, Stop(status),
           stored' = stored, storedLineage' = storedLineage
    PROVE  /\ AllSound' /\ Active'
           /\ runs' \in [RunId -> Run \cup {NoRun}] /\ stored' \in [RunId -> Run \cup {NoRun}]
           /\ exec' \in [at : {"idle", "next", "work"}, id : RunId \cup {NoRun},
                         task : Task \cup {NoTask}, todo : SUBSET Task, continue : BOOLEAN]
           /\ exec'.at = "next" /\ exec'.id \in RunId /\ runs'[exec'.id] \in Run
<1> DEFINE left == IF exec.continue THEN {} ELSE exec.todo
           old == runs[exec.id].task
           task == [t \in Task |-> IF t = exec.task THEN status
                                   ELSE IF t \in left THEN "skipped" ELSE old[t]]
<1>1. /\ exec.id \in RunId /\ runs[exec.id] \in Run /\ old \in [Task -> TaskStatus]
      /\ exec.task \in Task /\ exec.todo \in SUBSET Task
  BY Current DEF IInv, TypeOK
<1>2. runs' = [runs EXCEPT ![exec.id] = Moved(task)]
  BY <1>1 DEF Stop, Moved
<1>3. exec' = [exec EXCEPT !.at = "next", !.task = NoTask, !.todo = exec.todo \ left]
  BY DEF Stop
<1>4. task \in [Task -> TaskStatus]
  BY <1>1 DEF TaskStatus
<1>5. /\ \A t \in exec.todo : old[t] = "queued"
      /\ \A t \in Task \ exec.todo : old[t] \in Settled \/ t = exec.task
      /\ old[exec.task] = "running" /\ exec.task \notin exec.todo
  BY <1>1 DEF IInv, Active
<1>6. /\ \A d \in Task : old[d] = "succeeded" => task[d] = "succeeded"
      /\ \A t \in Task : task[t] = "succeeded" => old[t] = "succeeded"
      /\ \A t \in Task : task[t] \in Ran => old[t] \in Ran
  BY <1>5 DEF Ran
<1>7. /\ \A t \in exec.todo \ left : task[t] = "queued"
      /\ \A t \in Task \ (exec.todo \ left) : task[t] \in Settled
  BY <1>1, <1>5 DEF Settled
<1> HIDE DEF task, left
<1>8. /\ AllSound'
      /\ runs' \in [RunId -> Run \cup {NoRun}] /\ stored' \in [RunId -> Run \cup {NoRun}]
      /\ runs'[exec.id] \in Run /\ runs'[exec.id].task = task
      /\ runs'[exec.id].executed /\ runs'[exec.id].status = "running"
  BY <1>2, <1>4, <1>6, MovedStep
<1>9. /\ exec' \in [at : {"idle", "next", "work"}, id : RunId \cup {NoRun},
                     task : Task \cup {NoTask}, todo : SUBSET Task, continue : BOOLEAN]
      /\ exec'.at = "next" /\ exec'.id = exec.id /\ exec'.todo = exec.todo \ left
  BY <1>1, <1>3 DEF IInv, TypeOK
<1>10. Active'
  BY <1>7, <1>8, <1>9 DEF Active
<1> QED BY <1>1, <1>8, <1>9, <1>10

LEMMA SkipStep ==
    ASSUME IInv, NEW t \in Task, Skip(t)
    PROVE  IInv'
<1>1. /\ exec.at = "next" /\ t \in exec.todo /\ Mark(t, "skipped")
      /\ exec' = [exec EXCEPT !.todo = exec.todo \ {t}]
      /\ lineage' = lineage /\ dirty' = dirty /\ stored' = stored
      /\ storedLineage' = storedLineage
  BY DEF Skip, First, rowVars
<1>2. PICK task \in [Task -> TaskStatus] :
          /\ runs' = [runs EXCEPT ![exec.id] = Moved(task)]
          /\ task[t] = "skipped"
          /\ \A u \in Task \ {t} : task[u] = runs[exec.id].task[u]
  BY <1>1, Marked DEF TaskStatus
<1>3. /\ \A u \in exec.todo : runs[exec.id].task[u] = "queued"
      /\ \A u \in Task \ exec.todo : runs[exec.id].task[u] \in Settled
  BY <1>1 DEF IInv, Active
<1>4. /\ AllSound'
      /\ runs' \in [RunId -> Run \cup {NoRun}] /\ stored' \in [RunId -> Run \cup {NoRun}]
      /\ runs'[exec.id] \in Run /\ runs'[exec.id].task = task
      /\ runs'[exec.id].executed /\ runs'[exec.id].status = "running"
  BY <1>1, <1>2, <1>3, MovedStep DEF Ran
<1>5. /\ exec' \in [at : {"idle", "next", "work"}, id : RunId \cup {NoRun},
                     task : Task \cup {NoTask}, todo : SUBSET Task, continue : BOOLEAN]
      /\ exec'.at = "next" /\ exec'.id = exec.id /\ exec'.todo = exec.todo \ {t}
      /\ exec.id \in RunId /\ exec.todo \in SUBSET Task
  BY <1>1 DEF IInv, TypeOK
<1>6. TypeOK'
  BY <1>1, <1>4, <1>5 DEF IInv, TypeOK
<1>7. Active'
  <2>1. \A u \in exec.todo \ {t} : task[u] = "queued"
    BY <1>2, <1>3, <1>5
  <2>2. \A u \in Task \ (exec.todo \ {t}) : task[u] \in Settled
    BY <1>2, <1>3 DEF Settled
  <2> QED BY <1>4, <1>5, <2>1, <2>2 DEF Active
<1>8. Log'
  BY <1>1 DEF IInv, Log
<1> QED BY <1>4, <1>6, <1>7, <1>8 DEF IInv

LEMMA StartStep ==
    ASSUME IInv, NEW t \in Task, Start(t)
    PROVE  IInv'
<1>1. /\ exec.at = "next" /\ t \in exec.todo /\ Mark(t, "running")
      /\ ~Blocked(runs[exec.id], t)
      /\ exec' = [exec EXCEPT !.at = "work", !.task = t, !.todo = exec.todo \ {t}]
      /\ lineage' = lineage /\ dirty' = dirty /\ stored' = stored
      /\ storedLineage' = storedLineage
  BY DEF Start, First, rowVars
<1>2. PICK task \in [Task -> TaskStatus] :
          /\ runs' = [runs EXCEPT ![exec.id] = Moved(task)]
          /\ task[t] = "running"
          /\ \A u \in Task \ {t} : task[u] = runs[exec.id].task[u]
  BY <1>1, Marked DEF TaskStatus
<1>3. /\ \A u \in exec.todo : runs[exec.id].task[u] = "queued"
      /\ \A u \in Task \ exec.todo : runs[exec.id].task[u] \in Settled
  BY <1>1 DEF IInv, Active
<1>4. \A d \in Deps[t] : \/ runs[exec.id].task[d] = "succeeded"
                         \/ d \in runs[exec.id].given \ runs[exec.id].selected
  BY <1>1, Current DEF Blocked
<1>5. /\ AllSound'
      /\ runs' \in [RunId -> Run \cup {NoRun}] /\ stored' \in [RunId -> Run \cup {NoRun}]
      /\ runs'[exec.id] \in Run /\ runs'[exec.id].task = task
      /\ runs'[exec.id].executed /\ runs'[exec.id].status = "running"
  <2>1. \A d \in Task : runs[exec.id].task[d] = "succeeded" => task[d] = "succeeded"
    BY <1>1, <1>2, <1>3
  <2>2. \A u \in Task : task[u] = "succeeded" => runs[exec.id].task[u] = "succeeded"
    BY <1>2
  <2>3. \A u \in Task : task[u] \in Ran => u = t \/ runs[exec.id].task[u] \in Ran
    BY <1>2
  <2> QED BY <1>1, <1>2, <1>4, <2>1, <2>2, <2>3, MovedStep
<1>6. /\ exec' \in [at : {"idle", "next", "work"}, id : RunId \cup {NoRun},
                     task : Task \cup {NoTask}, todo : SUBSET Task, continue : BOOLEAN]
      /\ exec'.at = "work" /\ exec'.id = exec.id /\ exec'.todo = exec.todo \ {t}
      /\ exec'.task = t /\ exec.id \in RunId /\ exec.todo \in SUBSET Task
  BY <1>1 DEF IInv, TypeOK
<1>7. TypeOK'
  BY <1>1, <1>5, <1>6 DEF IInv, TypeOK
<1>8. Active'
  <2>1. \A u \in exec.todo \ {t} : task[u] = "queued"
    BY <1>2, <1>3, <1>6
  <2>2. \A u \in Task \ (exec.todo \ {t}) : task[u] \in Settled \/ u = t
    BY <1>2, <1>3
  <2> QED BY <1>2, <1>5, <1>6, <2>1, <2>2 DEF Active
<1>9. Log'
  BY <1>1 DEF IInv, Log
<1> QED BY <1>5, <1>7, <1>8, <1>9 DEF IInv

LEMMA TaskAuditsStep ==
    ASSUME IInv, NEW named \in BOOLEAN, TaskAudits(named)
    PROVE  IInv'
<1> DEFINE d == IF named THEN dirty \cup {Other} ELSE dirty
<1>1. exec.at = "work" /\ lineage' = lineage
  BY DEF TaskAudits
<1>2. d \in SUBSET Collection /\ lineage \in SUBSET (RunId \X Task)
  BY DEF IInv, TypeOK, Collection
<1>3. CASE CommitOK(runs, lineage, d) /\ UNCHANGED <<runs, exec>>
  <2>1. /\ (stored' = stored \/ stored' = runs') /\ storedLineage \subseteq storedLineage'
        /\ storedLineage' \subseteq lineage /\ dirty' \in SUBSET Collection
    <3> HIDE DEF d
    <3> QED BY <1>2, <1>3, Rows DEF IInv, Committed
  <2>2. AllSound' /\ stored' \in [RunId -> Run \cup {NoRun}]
    BY <1>3, <2>1, SameRuns
  <2>3. TypeOK'
    BY <1>1, <1>3, <2>1, <2>2 DEF IInv, TypeOK
  <2>4. Active' /\ Log'
    BY <1>1, <1>3, <2>1 DEF IInv, Active, Log
  <2> QED BY <2>2, <2>3, <2>4 DEF IInv
<1>4. CASE CommitFailed(d) /\ Stop("failed")
  <2>1. stored' = stored /\ storedLineage' = storedLineage /\ dirty' \in SUBSET Collection
    BY <1>2, <1>4 DEF CommitFailed, rowVars
  <2>2. /\ AllSound' /\ Active'
        /\ runs' \in [RunId -> Run \cup {NoRun}] /\ stored' \in [RunId -> Run \cup {NoRun}]
        /\ exec' \in [at : {"idle", "next", "work"}, id : RunId \cup {NoRun},
                      task : Task \cup {NoTask}, todo : SUBSET Task, continue : BOOLEAN]
        /\ exec'.at = "next" /\ exec'.id \in RunId /\ runs'[exec'.id] \in Run
    BY <1>1, <1>4, <2>1, StopStep
  <2>3. TypeOK'
    BY <1>1, <2>1, <2>2 DEF IInv, TypeOK
  <2>4. Log'
    BY <1>1, <2>1 DEF IInv, Log
  <2> QED BY <2>2, <2>3, <2>4 DEF IInv
<1> QED BY <1>3, <1>4 DEF TaskAudits

LEMMA SucceedStep ==
    ASSUME IInv, Succeed
    PROVE  IInv'
<1>1. /\ exec.at = "work" /\ Mark(exec.task, "succeeded")
      /\ lineage' = lineage \cup {<<exec.id, exec.task>>}
      /\ CommitOK(runs', lineage', dirty \cup {Lineage})
      /\ exec' = [exec EXCEPT !.at = "next", !.task = NoTask]
  BY DEF Succeed
<1>2. exec.id \in RunId /\ exec.task \in Task /\ exec.todo \in SUBSET Task
  BY <1>1 DEF IInv, TypeOK
<1>3. PICK task \in [Task -> TaskStatus] :
          /\ runs' = [runs EXCEPT ![exec.id] = Moved(task)]
          /\ task[exec.task] = "succeeded"
          /\ \A u \in Task \ {exec.task} : task[u] = runs[exec.id].task[u]
  BY <1>1, <1>2, Marked DEF TaskStatus
<1>4. lineage' \in SUBSET (RunId \X Task) /\ dirty \cup {Lineage} \in SUBSET Collection
  BY <1>1, <1>2 DEF IInv, TypeOK, Collection
<1>5. storedLineage' = lineage'
  BY <1>1 DEF CommitOK
<1>6. /\ (stored' = stored \/ stored' = runs') /\ storedLineage \subseteq storedLineage'
      /\ dirty' = {}
  BY <1>1, <1>5 DEF CommitOK, IInv, Log
<1>7. /\ \A u \in exec.todo : runs[exec.id].task[u] = "queued"
      /\ \A u \in Task \ exec.todo : runs[exec.id].task[u] \in Settled \/ u = exec.task
      /\ exec.task \notin exec.todo /\ runs[exec.id].task[exec.task] = "running"
  BY <1>1, <1>2 DEF IInv, Active
<1>8. /\ AllSound'
      /\ runs' \in [RunId -> Run \cup {NoRun}] /\ stored' \in [RunId -> Run \cup {NoRun}]
      /\ runs'[exec.id] \in Run /\ runs'[exec.id].task = task
      /\ runs'[exec.id].executed /\ runs'[exec.id].status = "running"
  <2>1. \A d \in Task : runs[exec.id].task[d] = "succeeded" => task[d] = "succeeded"
    BY <1>3
  <2>2. \A u \in Task : task[u] = "succeeded" =>
            runs[exec.id].task[u] = "succeeded" \/ <<exec.id, u>> \in storedLineage'
    BY <1>1, <1>3, <1>5
  <2>3. \A u \in Task : task[u] \in Ran => runs[exec.id].task[u] \in Ran
    BY <1>3, <1>7 DEF Ran
  <2> QED BY <1>1, <1>3, <1>6, <2>1, <2>2, <2>3, MovedStep
<1>9. /\ exec' \in [at : {"idle", "next", "work"}, id : RunId \cup {NoRun},
                     task : Task \cup {NoTask}, todo : SUBSET Task, continue : BOOLEAN]
      /\ exec'.at = "next" /\ exec'.id = exec.id /\ exec'.todo = exec.todo
  BY <1>1 DEF IInv, TypeOK
<1>10. TypeOK'
  BY <1>2, <1>4, <1>5, <1>6, <1>8, <1>9 DEF TypeOK
<1>11. Active'
  <2>1. \A u \in exec.todo : task[u] = "queued"
    BY <1>2, <1>3, <1>7
  <2>2. \A u \in Task \ exec.todo : task[u] \in Settled
    BY <1>3, <1>7 DEF Settled
  <2> QED BY <1>8, <1>9, <2>1, <2>2 DEF Active
<1>12. Log'
  BY <1>5 DEF Log
<1> QED BY <1>8, <1>10, <1>11, <1>12 DEF IInv

LEMMA FailStep ==
    ASSUME IInv, NEW status \in {"failed", "needs_review"}, Fail(status)
    PROVE  IInv'
<1>1. /\ exec.at = "work" /\ Stop(status) /\ lineage' = lineage /\ dirty' = dirty
      /\ stored' = stored /\ storedLineage' = storedLineage
  BY DEF Fail, rowVars
<1>2. /\ AllSound' /\ Active'
      /\ runs' \in [RunId -> Run \cup {NoRun}] /\ stored' \in [RunId -> Run \cup {NoRun}]
      /\ exec' \in [at : {"idle", "next", "work"}, id : RunId \cup {NoRun},
                    task : Task \cup {NoTask}, todo : SUBSET Task, continue : BOOLEAN]
      /\ exec'.at = "next" /\ exec'.id \in RunId /\ runs'[exec'.id] \in Run
  BY <1>1, StopStep
<1>3. TypeOK'
  BY <1>1, <1>2 DEF IInv, TypeOK
<1>4. Log'
  BY <1>1 DEF IInv, Log
<1> QED BY <1>2, <1>3, <1>4 DEF IInv

LEMMA LineageFailsStep ==
    ASSUME IInv, LineageFails
    PROVE  IInv'
<1>1. /\ exec.at = "work" /\ Stop("failed")
      /\ lineage' = lineage \cup {<<exec.id, exec.task>>}
      /\ dirty' = dirty \cup {Lineage}
      /\ stored' = stored /\ storedLineage' = storedLineage
  BY DEF LineageFails, CommitFailed, rowVars
<1>2. /\ AllSound' /\ Active'
      /\ runs' \in [RunId -> Run \cup {NoRun}] /\ stored' \in [RunId -> Run \cup {NoRun}]
      /\ exec' \in [at : {"idle", "next", "work"}, id : RunId \cup {NoRun},
                    task : Task \cup {NoTask}, todo : SUBSET Task, continue : BOOLEAN]
      /\ exec'.at = "next" /\ exec'.id \in RunId /\ runs'[exec'.id] \in Run
  BY <1>1, StopStep
<1>3. exec.id \in RunId /\ exec.task \in Task
  BY <1>1 DEF IInv, TypeOK
<1>4. TypeOK'
  BY <1>1, <1>2, <1>3 DEF IInv, TypeOK, Collection
<1>5. Log'
  BY <1>1 DEF IInv, Log
<1> QED BY <1>2, <1>4, <1>5 DEF IInv

LEMMA FinishStep ==
    ASSUME IInv, Finish
    PROVE  IInv'
<1> DEFINE run == runs[exec.id]
           new == [run EXCEPT !.status = FinalStatus(run)]
           found == {run.task[t] : t \in run.selected}
<1>1. /\ exec.at = "next" /\ exec.todo = {}
      /\ runs' = [runs EXCEPT ![exec.id].status = FinalStatus(run)]
      /\ Committed(runs', lineage, dirty \cup {Runs})
      /\ exec' = Idle /\ lineage' = lineage
  BY DEF Finish
<1>2. /\ exec.id \in RunId /\ run \in Run /\ run # NoRun /\ run.executed
      /\ run.given \cap run.selected = {} /\ UpstreamDone(run)
      /\ Backed(exec.id, run, storedLineage)
  BY <1>1, Current
<1>3. runs' = [runs EXCEPT ![exec.id] = new]
  BY <1>1, <1>2
<1>4. FinalStatus(run) \in RunStatus
  BY DEF FinalStatus, RunStatus
<1>5. /\ new \in Run /\ new.task = run.task /\ new.selected = run.selected
      /\ new.given = run.given /\ new.executed /\ new.status = FinalStatus(run)
  BY <1>2, <1>4 DEF Run
<1>6. dirty \cup {Runs} \in SUBSET Collection /\ lineage \in SUBSET (RunId \X Task)
  BY DEF IInv, TypeOK, Collection
<1>7. /\ (stored' = stored \/ stored' = runs') /\ storedLineage \subseteq storedLineage'
      /\ storedLineage' \subseteq lineage /\ dirty' \in SUBSET Collection
  BY <1>1, <1>6, Rows DEF IInv
<1>8. \A t \in Task : run.task[t] \in Settled
  BY <1>1 DEF IInv, Active
<1>9. run.selected \in SUBSET Task
  BY <1>2 DEF Run
<1>10. FinalStatus(run) = "succeeded" => \A t \in run.selected : run.task[t] = "succeeded"
  <2> SUFFICES ASSUME FinalStatus(run) = "succeeded", NEW t \in run.selected
               PROVE  run.task[t] = "succeeded"
    OBVIOUS
  <2>1. "failed" \notin found /\ found \cap {"needs_review", "skipped"} = {}
    BY DEF FinalStatus
  <2>2. run.task[t] \in found /\ run.task[t] \in Settled
    BY <1>8, <1>9
  <2> QED BY <2>1, <2>2 DEF Settled
<1>11. Sound(exec.id, new, storedLineage')
  <2> HIDE DEF new, found
  <2>1. Backed(exec.id, new, storedLineage')
    BY <1>2, <1>5, <1>7, <1>10 DEF Backed
  <2>2. UpstreamDone(new)
    BY <1>2, <1>5 DEF UpstreamDone
  <2> QED BY <1>2, <1>5, <2>1, <2>2 DEF Sound
<1> HIDE DEF new, found
<1>12. /\ AllSound'
       /\ runs' \in [RunId -> Run \cup {NoRun}] /\ stored' \in [RunId -> Run \cup {NoRun}]
  BY <1>2, <1>3, <1>5, <1>7, <1>11, OneRun
<1>13. TypeOK'
  BY <1>1, <1>7, <1>12, NowIdle DEF IInv, TypeOK
<1>14. Active' /\ Log'
  BY <1>1, <1>7, NowIdle DEF Log
<1> QED BY <1>12, <1>13, <1>14 DEF IInv

LEMMA BoundaryStep ==
    ASSUME IInv, Boundary
    PROVE  IInv'
<1>1. /\ runs' = runs /\ lineage' = lineage /\ exec' = exec /\ exec.at = "idle"
      /\ stored' = runs' /\ storedLineage' = lineage /\ dirty' = {}
  BY DEF Boundary, CommitOK
<1>2. storedLineage \subseteq storedLineage'
  BY <1>1 DEF IInv, Log
<1>3. AllSound' /\ stored' \in [RunId -> Run \cup {NoRun}]
  BY <1>1, <1>2, SameRuns
<1>4. TypeOK'
  BY <1>1, <1>3, IdleStays DEF IInv, TypeOK
<1>5. Active' /\ Log'
  BY <1>1, IdleStays DEF IInv, Log
<1> QED BY <1>3, <1>4, <1>5 DEF IInv

LEMMA OtherAuditsStep ==
    ASSUME IInv, OtherAudits
    PROVE  IInv'
<1>1. /\ runs' = runs /\ lineage' = lineage /\ exec' = exec /\ exec.at = "idle"
      /\ Committed(runs', lineage, dirty \cup {Other})
  BY DEF OtherAudits
<1>2. dirty \cup {Other} \in SUBSET Collection /\ lineage \in SUBSET (RunId \X Task)
  BY DEF IInv, TypeOK, Collection
<1>3. /\ (stored' = stored \/ stored' = runs') /\ storedLineage \subseteq storedLineage'
      /\ storedLineage' \subseteq lineage /\ dirty' \in SUBSET Collection
  BY <1>1, <1>2, Rows DEF IInv
<1>4. AllSound' /\ stored' \in [RunId -> Run \cup {NoRun}]
  BY <1>1, <1>3, SameRuns
<1>5. TypeOK'
  BY <1>1, <1>3, <1>4, IdleStays DEF IInv, TypeOK
<1>6. Active' /\ Log'
  BY <1>1, <1>3, IdleStays DEF IInv, Log
<1> QED BY <1>4, <1>5, <1>6 DEF IInv

LEMMA RestartStep ==
    ASSUME IInv, Restart
    PROVE  IInv'
<1>1. /\ runs' = stored /\ stored' = stored /\ lineage' = storedLineage
      /\ storedLineage' = storedLineage /\ dirty' = {} /\ exec' = Idle
  BY DEF Restart, rowVars
<1>2. AllSound'
  BY <1>1 DEF IInv, AllSound
<1>3. TypeOK'
  BY <1>1, NowIdle DEF IInv, TypeOK
<1>4. Active' /\ Log'
  BY <1>1, NowIdle DEF Log
<1> QED BY <1>2, <1>3, <1>4 DEF IInv

LEMMA NextIInv == IInv /\ [Next]_vars => IInv'
<1> SUFFICES ASSUME IInv, [Next]_vars PROVE IInv'
  OBVIOUS
<1>1. ASSUME NEW r \in RunId, NEW k \in Key, NEW force \in BOOLEAN, NEW status \in Claim,
             RunDefinition(r, k, force, status)
      PROVE  IInv'
  BY <1>1, AuditedRows, RegisterStep DEF RunDefinition, NewRun
<1>2. ASSUME NEW r \in RunId, NEW k \in Key, NEW force \in BOOLEAN,
             NEW selected \in SUBSET Task, NEW given \in SUBSET Task,
             NEW continue \in BOOLEAN, Execute(r, k, force, selected, given, continue)
      PROVE  IInv'
  BY <1>2, ExecuteStep
<1>3. ASSUME NEW old \in RunId, NEW r \in RunId, NEW k \in Key \cup {Fresh},
             NEW force \in BOOLEAN, NEW status \in Claim, Retry(old, r, k, force, status)
      PROVE  IInv'
  BY <1>3, RetryStep
<1>4. ASSUME NEW t \in Task, Skip(t) \/ Start(t) PROVE IInv'
  BY <1>4, SkipStep, StartStep
<1>5. ASSUME NEW named \in BOOLEAN, TaskAudits(named) PROVE IInv'
  BY <1>5, TaskAuditsStep
<1>6. CASE Succeed
  BY <1>6, SucceedStep
<1>7. ASSUME NEW status \in {"failed", "needs_review"}, Fail(status) PROVE IInv'
  BY <1>7, FailStep
<1>8. CASE LineageFails
  BY <1>8, LineageFailsStep
<1>9. CASE Finish
  BY <1>9, FinishStep
<1>10. CASE Boundary
  BY <1>10, BoundaryStep
<1>11. CASE Restart
  BY <1>11, RestartStep
<1>12. CASE UNCHANGED vars
  BY <1>12 DEF vars, rowVars, IInv, TypeOK, AllSound, Log, Active
<1>13. CASE OtherAudits
  BY <1>13, OtherAuditsStep
<1> QED BY <1>1, <1>2, <1>3, <1>4, <1>5, <1>6, <1>7, <1>8, <1>9, <1>10, <1>11, <1>12, <1>13 DEF Next

LEMMA Invariant == Spec => []IInv
BY InitIInv, NextIInv, PTL DEF Spec

-----------------------------------------------------------------------------
(* The state is well typed: an execution in progress always has its record *)
(* among the runs.                                                         *)
THEOREM TypeCorrect == Spec => []TypeOK
<1>1. IInv => TypeOK
  BY DEF IInv
<1> QED BY <1>1, Invariant, PTL

(* No task of an executed run has started before its upstreams succeeded,  *)
(* whatever graph, selection and snapshots, in memory and in the database. *)
THEOREM UpstreamFirst == Spec => []RanAfterUpstream
<1>1. IInv => RanAfterUpstream
  BY DEF IInv, AllSound, Sound, RanAfterUpstream
<1> QED BY <1>1, Invariant, PTL

(* A run called succeeded did all it was asked, with its lineage in the    *)
(* database, through failed commits and restarts.                          *)
THEOREM SuccessIsTrue == Spec => []SucceededIsDone
<1>1. IInv => SucceededIsDone
  BY DEF IInv, AllSound, Sound, Backed, SucceededIsDone, Done
<1> QED BY <1>1, Invariant, PTL
=============================================================================
