--------------------------- MODULE DailyAllocation ---------------------------
(***************************************************************************)
(* From a decision to the ledger: the daily run                            *)
(* (scripts/dynamic_allocation_daily_run.py), the evaluate request of the  *)
(* API and the paper command (scripts/dynamic_allocation_paper_run.py) as  *)
(* processes that share the SQLite table of decision records               *)
(* (app/dynamic_allocation/records.py) and the ledger of PaperLedger.  The *)
(* API serves allocation requests one at a time, so a server is one        *)
(* process.  Runs without --execute change nothing, and the paper command  *)
(* and the daily run are given the same ledger.                            *)
(*                                                                         *)
(* The refresh before a decision is ObservationStore; what it brings only  *)
(* shows in which decision a run comes to, if any.  A decision and its     *)
(* snapshot have one id, computed from the content.  A saved record also   *)
(* has the moment it was created, so two records of one decision differ.   *)
(***************************************************************************)
EXTENDS PaperLedger

CONSTANTS Failed        \* the report of a run that failed

VARIABLES
    task,           \* what each process does
    stage,          \* how far it is
    decision,       \* the decision that the data at hand lead to
    report,         \* the report of a daily run, not written yet
    decided,        \* rows of dynamic_allocation_records
    (***********************************************************************)
    (* History: snapshots given to the paper command, reports of completed *)
    (* runs that were written as a whole, and whether the power ever went. *)
    (***********************************************************************)
    handed, reported, outage

runVars == <<task, stage, decision, report, decided, handed, reported, outage>>

allVars == <<vars, runVars>>

Task == {"daily", "evaluate", "paper"}

Stage == {"idle", "evaluate", "insert", "ledger", "replay", "output", "archive", "uncaught"}

(* A report of a completed run: its decision, and paper_ledger.appended. *)
Report == [decision : Snapshot, appended : BOOLEAN]

ASSUME FailedAssumption == Failed \notin Report /\ None \notin Report

ASSUME TaskAssumption == None \notin Task

DailyTypeOK ==
    /\ TypeOK
    /\ task \in [Process -> Task \cup {None}]
    /\ stage \in [Process -> Stage]
    /\ decision \in [Process -> Snapshot \cup {None}]
    /\ report \in [Process -> Report \cup {Failed, None}]
    /\ decided \subseteq Snapshot
    /\ handed \subseteq Snapshot
    /\ reported \subseteq Report
    /\ outage \in BOOLEAN
    /\ \A p \in Process : stage[p] = "idle" <=> task[p] = None

DailyInit ==
    /\ Init
    /\ task = [p \in Process |-> None]
    /\ stage = [p \in Process |-> "idle"]
    /\ decision = [p \in Process |-> None]
    /\ report = [p \in Process |-> None]
    /\ decided = {}
    /\ handed = {}
    /\ reported = {}
    /\ outage = FALSE

-----------------------------------------------------------------------------
(* Steps of a process *)

Goto(p, to) ==
    /\ stage' = [stage EXCEPT ![p] = to]
    /\ UNCHANGED <<task, decision>>

(* The process is through, or gone. *)
Leave(p) ==
    /\ task' = [task EXCEPT ![p] = None]
    /\ stage' = [stage EXCEPT ![p] = "idle"]
    /\ decision' = [decision EXCEPT ![p] = None]
    /\ report' = [report EXCEPT ![p] = None]

(* A ValueError, or an error of SQLite: only a RuntimeError becomes a      *)
(* report (main), and of these there are only those of GateFails.          *)
Raise(p) == Goto(p, "uncaught") /\ UNCHANGED report

(* A run begins: a daily run and a request with the data of the moment,    *)
(* the paper command with a snapshot in its input file.                    *)
Begin(p) ==
    /\ stage[p] = "idle"
    /\ \E t \in Task, s \in Snapshot :
          /\ task' = [task EXCEPT ![p] = t]
          /\ decision' = [decision EXCEPT ![p] = s]
          /\ stage' = [stage EXCEPT ![p] = IF t = "paper" THEN "ledger" ELSE "evaluate"]
          /\ handed' = IF t = "paper" THEN handed \cup {s} ELSE handed
    /\ UNCHANGED <<vars, report, decided, reported, outage>>

(* Data are missing, rows conflict or the evaluation is not ready: nothing *)
(* is saved.  A daily run raises DailyRunGateError and writes a failure    *)
(* report, a request is answered ready = false.                            *)
GateFails(p) ==
    /\ stage[p] = "evaluate"
    /\ IF task[p] = "daily"
       THEN /\ Goto(p, "output")
            /\ report' = [report EXCEPT ![p] = Failed]
       ELSE Leave(p)
    /\ UNCHANGED <<vars, decided, handed, reported, outage>>

(* The decision has its record: the request is answered, the daily run     *)
(* goes on to the ledger.                                                  *)
Saved(p) ==
    IF task[p] = "daily" THEN Goto(p, "ledger") /\ UNCHANGED report ELSE Leave(p)

(* Seeded fault: evaluate is called without persist. *)
FaultEvaluate(p) ==
    /\ stage[p] = "evaluate"
    /\ Saved(p)
    /\ UNCHANGED <<vars, decided, handed, reported, outage>>

(* evaluate: a record that is there is returned, else one is to be saved. *)
Evaluate(p) ==
    /\ stage[p] = "evaluate"
    /\ IF decision[p] \in decided
       THEN Saved(p)
       ELSE Goto(p, "insert") /\ UNCHANGED report
    /\ UNCHANGED <<vars, decided, handed, reported, outage>>

(* append: a record that came in since the look above differs from this    *)
(* one (ValueError); one that comes between SELECT and INSERT hits the     *)
(* primary key (IntegrityError).  Either way append raises, so the two     *)
(* statements are one step.  A commit of SQLite is durable.                *)
InsertDecision(p) ==
    /\ stage[p] = "insert"
    /\ IF decision[p] \in decided
       THEN Raise(p)
       ELSE Saved(p)
    /\ decided' = decided \cup {decision[p]}
    /\ UNCHANGED <<vars, handed, reported, outage>>

-----------------------------------------------------------------------------
(* The ledger: the steps of PaperLedger *)

LockLedger(p) ==
    /\ stage[p] = "ledger"
    /\ Lock(p)
    /\ snapshot'[p] = decision[p]
    /\ UNCHANGED runVars

(* append returns: the paper command is through, the daily run reads back. *)
Answered(p, appended) ==
    /\ IF task[p] = "daily"
       THEN /\ Goto(p, "replay")
            /\ report' = [report EXCEPT ![p] = [decision |-> decision[p], appended |-> appended]]
       ELSE Leave(p)
    /\ UNCHANGED <<decided, handed, reported, outage>>

(* Seeded fault: a duplicate is reported as appended. *)
FaultDecideInLedger(p) ==
    /\ Decide(p)
    /\ \/ ~Valid(file) /\ Raise(p) /\ UNCHANGED <<decided, handed, reported, outage>>
       \/ Valid(file) /\ snapshot[p] \in Replayed(file) /\ Answered(p, TRUE)
       \/ Valid(file) /\ snapshot[p] \notin Replayed(file) /\ UNCHANGED runVars

(* The ledger does not validate, or has the snapshot, or is to be written. *)
DecideInLedger(p) ==
    /\ Decide(p)
    /\ \/ ~Valid(file) /\ Raise(p) /\ UNCHANGED <<decided, handed, reported, outage>>
       \/ Valid(file) /\ snapshot[p] \in Replayed(file) /\ Answered(p, FALSE)
       \/ Valid(file) /\ snapshot[p] \notin Replayed(file) /\ UNCHANGED runVars

WriteRecord(p) == Write(p) /\ UNCHANGED runVars

RecordInterrupted(p) ==
    WriteInterrupted(p) /\ Leave(p) /\ UNCHANGED <<decided, handed, reported, outage>>

SyncRecord(p) == Sync(p) /\ Answered(p, TRUE)

(* ledger.replay(), for the number of records in the report. *)
Replay(p) ==
    /\ stage[p] = "replay"
    /\ lock = None
    /\ IF Valid(file) THEN Goto(p, "output") /\ UNCHANGED report ELSE Raise(p)
    /\ UNCHANGED <<vars, decided, handed, reported, outage>>

-----------------------------------------------------------------------------
(* Reports, and the end of a run *)

(* --output, then --history-dir. *)
WriteOutput(p) ==
    /\ stage[p] = "output"
    /\ Goto(p, "archive")
    /\ reported' = reported \cup ({report[p]} \cap Report)
    /\ UNCHANGED <<vars, report, decided, handed, outage>>

Archive(p) ==
    /\ stage[p] = "archive"
    /\ Leave(p)
    /\ UNCHANGED <<vars, decided, handed, reported, outage>>

(* The exception ends the process, or is answered as an error. *)
Exit(p) ==
    /\ stage[p] = "uncaught"
    /\ Leave(p)
    /\ UNCHANGED <<vars, decided, handed, reported, outage>>

(* A process is killed, also while it writes a report; so it is when the   *)
(* database is locked for too long or the disk is full.                    *)
KillRun(p) ==
    /\ stage[p] # "idle"
    /\ IF pc[p] = "idle" THEN UNCHANGED vars ELSE Kill(p)
    /\ Leave(p)
    /\ UNCHANGED <<decided, handed, reported, outage>>

Outage ==
    /\ PowerLoss
    /\ task' = [p \in Process |-> None]
    /\ stage' = [p \in Process |-> "idle"]
    /\ decision' = [p \in Process |-> None]
    /\ report' = [p \in Process |-> None]
    /\ outage' = TRUE
    /\ UNCHANGED <<decided, handed, reported>>

DailyNext ==
    \/ \E p \in Process :
          \/ Begin(p)
          \/ GateFails(p)
          \/ Evaluate(p)
          \/ InsertDecision(p)
          \/ LockLedger(p)
          \/ DecideInLedger(p)
          \/ WriteRecord(p)
          \/ RecordInterrupted(p)
          \/ SyncRecord(p)
          \/ Replay(p)
          \/ WriteOutput(p)
          \/ Archive(p)
          \/ Exit(p)
          \/ KillRun(p)
    \/ Outage

DailySpec == DailyInit /\ [][DailyNext]_allVars

-----------------------------------------------------------------------------
(***************************************************************************)
(* Properties                                                              *)
(***************************************************************************)

InLedger(s, f) == \E i \in Records(f) : f[i].snapshot = s

(* The two stores never disagree in the wrong direction: whatever is       *)
(* killed between them, a decision in the ledger has its immutable record  *)
(* with inputs and factors, or was given to the paper command as it is.    *)
LedgerIsDecided == \A i \in Records(file) : file[i].snapshot \in decided \cup handed

(* A completed report tells the truth: its decision has a record, it is on *)
(* the disk if the report says appended, and it is in the ledger as long   *)
(* as the power never went, even if the run that appended it was killed    *)
(* before its fsync and a retry found a duplicate.                         *)
CompletedIsRecorded ==
    \A r \in reported :
        /\ r.decision \in decided
        /\ r.appended => InLedger(r.decision, disk)
        /\ ~outage => InLedger(r.decision, file)

(* Two runs that come to the same decision, the API's and the daily one or *)
(* a retry that overlaps the first attempt, never append it twice.         *)
ReportedOnce ==
    \A p \in Process :
        pc[p] = "sync" => [decision |-> snapshot[p], appended |-> TRUE] \notin reported

(* The evaluate request saves a decision idempotently                      *)
(* (docs/api-contracts.md): it never finds, when it comes to save one,     *)
(* that another process has saved it in between, and so does not raise.    *)
SavingIsIdempotent ==
    \A p \in Process : stage[p] = "insert" => decision[p] \notin decided

(* "Daily success and daily failure artifacts share the same boundary      *)
(* contract so missing runs are visible instead of silently omitted"       *)
(* (docs/dynamic-allocation-operations.md): no exception ends a daily run  *)
(* without a report.                                                       *)
FailedRunIsVisible ==
    \A p \in Process : task[p] = "daily" => stage[p] # "uncaught"

(* "paper_snapshot_persisted": true, in every report of a completed run:   *)
(* its decision is in the ledger.                                          *)
PersistedAsReported == \A r \in reported : InLedger(r.decision, file)
=============================================================================
