---------------------------- MODULE BarsMigration ----------------------------
(***************************************************************************)
(* The migration of the market-data table to its compact schema,           *)
(* scripts/migrate_market_data_storage_v2.py: prepare, copy, validate,     *)
(* cutover, rollback and cleanup, each a transaction on the database, with *)
(* repair_payload_overrides between.  The application's writes are         *)
(* UPSERT_MARKET_DATA_BAR_SQL (app/market_data_storage.py) and, before the *)
(* cutover, those of the previous release.                                 *)
(*                                                                         *)
(* A command that dies leaves nothing of its open transaction and can be   *)
(* given again, in the same run or a new one.  Only a copy may still be    *)
(* under way when others start: its client died or lost its connection,    *)
(* the server goes on with the batch.                                      *)
(*                                                                         *)
(* The runbook (docs/postgresql-migrations.md) stops the application first *)
(* and uses one stable run id.  Less is assumed here.  Bars are written at *)
(* any time: no command keeps them out, except for the moment a cutover    *)
(* has its lock.  What is assumed of the operator: one command at a time,  *)
(* and no other run while a validated one waits for its cutover.           *)
(***************************************************************************)
EXTENDS Integers, FiniteSets

CONSTANTS
    LastKey,    \* the keys of bars are 1..LastKey, in keyset order
    BatchSize,  \* --batch-size
    Columns,    \* what the columns of a bar may hold
    Payloads,   \* and its payload
    Written,    \* the bars the application may write, for each key
    RightsTag,  \* the rights tag among the columns
    Runs,       \* run ids
    Copies,     \* invocations of copy
    NoBar, NoTable, NoBatch

Keys == 1..LastKey
Bars == [columns : Columns, payload : Payloads]
Rows == [Keys -> Bars \cup {NoBar}]

ASSUME ConstantAssumption ==
    /\ LastKey \in Nat /\ BatchSize \in Nat \ {0}
    /\ Written \in [Keys -> SUBSET Bars]
    /\ NoBar \notin Bars
    /\ NoTable \notin Rows
    /\ NoBatch \notin [run : Runs, from : 0..LastKey, to : 0..LastKey]

VARIABLES
    source, compact,    \* market_data_bars, and is its schema the new one?
    shadow,             \* market_data_bars_v2
    legacy,             \* market_data_bars_legacy
    policies,           \* rights tags in market_data_rights_policies
    phase, cursor, source_rows, \* market_data_migration_runs
    run,                \* the run id the operator uses
    batch,              \* what each copy is about to insert
    check,              \* the next check of the validation under way
    cutting,            \* a cutover has read its run, and waits for its lock
    (***********************************************************************)
    (* History                                                             *)
    (***********************************************************************)
    compared,   \* bars not written since the validation under way began
    vouched     \* bars not written since the one that passed for run began

tables == <<source, compact, shadow, legacy, policies>>
state == <<phase, cursor, source_rows>>
history == <<compared, vouched>>
vars == <<tables, state, run, batch, check, cutting, history>>

Phase == {"none", "prepared", "copying", "copied", "validated",
          "validation_failed", "cutover", "rolled_back", "cleaned"}
Batch == [run : Runs, from : 0..LastKey, to : 0..LastKey]
Check == {"source_rows", "shadow_rows", "missing_keys",
          "scalar_or_rights_mismatches", "payload_mismatches"}
Empty == [k \in Keys |-> NoBar]
Stored(t) == {k \in Keys : t[k] # NoBar}

TypeOK ==
    /\ source \in Rows /\ compact \in BOOLEAN
    /\ shadow \in Rows \cup {NoTable}
    /\ legacy \in Rows \cup {NoTable}
    /\ policies \subseteq {RightsTag[c] : c \in Columns}
    /\ phase \in [Runs -> Phase]
    /\ cursor \in [Runs -> 0..LastKey]
    /\ source_rows \in [Runs -> 0..LastKey]
    /\ run \in Runs
    /\ batch \in [Copies -> Batch \cup {NoBatch}]
    /\ check \in Check \cup {"none", "passed", "failed"}
    /\ cutting \in BOOLEAN
    /\ compared \subseteq Keys /\ vouched \subseteq Keys

Init ==
    /\ source \in Rows /\ \A k \in Stored(source) : source[k] \in Written[k]
    /\ compact = FALSE
    /\ shadow = NoTable /\ legacy = NoTable /\ policies = {}
    /\ phase = [r \in Runs |-> "none"]
    /\ cursor = [r \in Runs |-> 0] /\ source_rows = [r \in Runs |-> 0]
    /\ run \in Runs
    /\ batch = [c \in Copies |-> NoBatch]
    /\ check = "none" /\ cutting = FALSE
    /\ compared = {} /\ vouched = {}

(* The operator waits for no command. *)
Free == check = "none" /\ ~cutting

Becomes(p) == phase' = [phase EXCEPT ![run] = p]

-----------------------------------------------------------------------------
(* The application and the operator *)

(* A bar is written: by the previous release, which knows no policies, or  *)
(* by this one, which finds or adds the policy first.                      *)
WriteBar ==
    /\ \E k \in Keys : \E bar \in Written[k] :
          /\ source' = [source EXCEPT ![k] = bar]
          /\ policies' = IF compact THEN policies \cup {RightsTag[bar.columns]}
                         ELSE policies
          /\ compared' = compared \ {k} /\ vouched' = vouched \ {k}
    /\ UNCHANGED <<compact, shadow, legacy, state, run, batch, check, cutting>>

(* The operator turns to another run id. *)
UseRun ==
    /\ Free /\ phase[run] # "validated"
    /\ run' \in Runs \ {run}
    /\ vouched' = {}
    /\ UNCHANGED <<tables, state, batch, check, cutting, compared>>

-----------------------------------------------------------------------------
(* prepare *)

StartsOver == phase[run] \in {"rolled_back", "validation_failed"}

(* Seeded fault: the shadow is emptied whatever the run has come to.       *)
FaultPreparedShadow == Empty

PreparedShadow == IF shadow = NoTable \/ StartsOver THEN Empty ELSE shadow

(* Seeded fault: the schema of the source is not looked at.                *)
FaultPrepare ==
    /\ Free
    /\ legacy = NoTable
    /\ shadow' = PreparedShadow
    /\ policies' = policies \cup {RightsTag[source[k].columns] : k \in Stored(source)}
    /\ source_rows' = [source_rows EXCEPT ![run] = Cardinality(Stored(source))]
    /\ IF StartsOver \/ phase[run] = "none"
       THEN Becomes("prepared") /\ cursor' = [cursor EXCEPT ![run] = 0]
       ELSE UNCHANGED <<phase, cursor>>
    /\ UNCHANGED <<source, compact, legacy, run, batch, check, cutting, history>>

(* It refuses when there is a legacy table, or no legacy schema.  A run    *)
(* that goes on keeps its shadow and its cursor, and counts again.         *)
Prepare ==
    /\ Free
    /\ ~compact /\ legacy = NoTable
    /\ shadow' = PreparedShadow
    /\ policies' = policies \cup {RightsTag[source[k].columns] : k \in Stored(source)}
    /\ source_rows' = [source_rows EXCEPT ![run] = Cardinality(Stored(source))]
    /\ IF StartsOver \/ phase[run] = "none"
       THEN Becomes("prepared") /\ cursor' = [cursor EXCEPT ![run] = 0]
       ELSE UNCHANGED <<phase, cursor>>
    /\ UNCHANGED <<source, compact, legacy, run, batch, check, cutting, history>>

-----------------------------------------------------------------------------
(* copy_rows: one transaction for each batch, in two steps *)

Copying == \E c \in Copies : batch[c] # NoBatch

(* The run's row and the keys of the next batch are read.  From here on    *)
(* the transaction holds a share lock on the source.                       *)
ReadBatch(c) ==
    /\ batch[c] = NoBatch
    /\ phase[run] \notin {"none", "validated", "cutover", "cleaned"}
    /\ LET ahead == {k \in Stored(source) : k > cursor[run]}
       IN \E to \in ahead :
             /\ LET taken == Cardinality({k \in ahead : k <= to})
                IN \/ taken = BatchSize
                   \/ taken < BatchSize /\ \A k \in ahead : k <= to
             /\ batch' = [batch EXCEPT ![c] = [run |-> run, from |-> cursor[run], to |-> to]]
    /\ UNCHANGED <<tables, state, run, check, cutting, history>>

(* Rows of a tag without a policy fall out of the join. *)
InBatch(b, k) ==
    /\ b.from < k /\ k <= b.to
    /\ k \in Stored(source)
    /\ RightsTag[source[k].columns] \in policies

(* They are inserted or updated, and the cursor moves. *)
InsertBatch(c) ==
    /\ batch[c] # NoBatch
    /\ shadow # NoTable /\ ~compact
    /\ LET b == batch[c]
       IN /\ shadow' = [k \in Keys |-> IF InBatch(b, k) THEN source[k] ELSE shadow[k]]
          /\ phase' = [phase EXCEPT ![b.run] = "copying"]
          /\ cursor' = [cursor EXCEPT ![b.run] = b.to]
    /\ batch' = [batch EXCEPT ![c] = NoBatch]
    /\ UNCHANGED <<source, compact, legacy, policies, source_rows, run, check, cutting, history>>

(* The copy dies: its transaction is rolled back.                          *)
CopyDies(c) ==
    /\ batch[c] # NoBatch
    /\ batch' = [batch EXCEPT ![c] = NoBatch]
    /\ UNCHANGED <<tables, state, run, check, cutting, history>>

(* No keys are left: the indexes of the shadow are made. *)
EndCopy ==
    /\ phase[run] \notin {"none", "validated", "cutover", "cleaned"}
    /\ shadow # NoTable
    /\ \A k \in Stored(source) : k <= cursor[run]
    /\ Becomes("copied")
    /\ UNCHANGED <<tables, cursor, source_rows, run, batch, check, cutting, history>>

-----------------------------------------------------------------------------
(* repair_payload_overrides: a row whose payload is not that of its source *)
(* gets the keys in which the source's differs from its columns; these     *)
(* stay as they are.  That may make the payloads equal, but a key the      *)
(* source lacks stays, and one that equals a column is not put back.       *)
Repair ==
    /\ Free
    /\ phase[run] \in {"copied", "validation_failed"}
    /\ shadow # NoTable
    /\ LET differs == {k \in Stored(source) \cap Stored(shadow) :
                          shadow[k].payload # source[k].payload}
       IN \E p \in [differs -> Payloads] :
             shadow' = [k \in Keys |-> IF k \in differs
                                       THEN [shadow[k] EXCEPT !.payload = p[k]]
                                       ELSE shadow[k]]
    /\ Becomes("copied")
    /\ UNCHANGED <<source, compact, legacy, policies, cursor, source_rows,
                   run, batch, check, cutting, history>>

-----------------------------------------------------------------------------
(* validate: five selects, each of what is committed when it starts, then  *)
(* the update of the run.  None of them keeps a bar from being written.    *)

BeginValidate ==
    /\ Free
    /\ phase[run] \in {"copied", "validated"}
    /\ shadow # NoTable
    /\ check' = "source_rows"
    /\ compared' = Keys
    /\ UNCHANGED <<tables, state, run, batch, cutting, vouched>>

(* Seeded fault: the rows are counted, and not compared.                   *)
FaultHolds(c) ==
    CASE c = "source_rows" -> Cardinality(Stored(source)) = source_rows[run]
      [] c = "shadow_rows" -> Cardinality(Stored(shadow)) = source_rows[run]
      [] OTHER -> TRUE

(* As many rows as prepare found, none missing on either side, and in no   *)
(* pair of rows a difference.                                              *)
Holds(c) ==
    LET joined == Stored(source) \cap Stored(shadow)
    IN CASE c = "source_rows" -> Cardinality(Stored(source)) = source_rows[run]
         [] c = "shadow_rows" -> Cardinality(Stored(shadow)) = source_rows[run]
         [] c = "missing_keys" -> Stored(source) = Stored(shadow)
         [] c = "scalar_or_rights_mismatches" ->
               \A k \in joined : source[k].columns = shadow[k].columns
         [] c = "payload_mismatches" ->
               \A k \in joined : source[k].payload = shadow[k].payload

After ==
    [source_rows |-> "shadow_rows", shadow_rows |-> "missing_keys",
     missing_keys |-> "scalar_or_rights_mismatches",
     scalar_or_rights_mismatches |-> "payload_mismatches",
     payload_mismatches |-> "passed"]

(* The next select.  After one that finds a difference, the others change  *)
(* nothing any more.                                                       *)
Compare ==
    /\ check \in Check
    /\ IF Holds(check)
       THEN check' = After[check] /\ UNCHANGED compared
       ELSE check' = "failed" /\ compared' = {}
    /\ UNCHANGED <<tables, state, run, batch, cutting, vouched>>

(* The update, whatever the run has come to meanwhile.  The shadow may     *)
(* also turn out larger than --target-size-gb.                             *)
EndValidate ==
    /\ \/ check = "passed" /\ Becomes("validated") /\ vouched' = compared
       \/ /\ check \in {"passed", "failed"} /\ Becomes("validation_failed")
          /\ vouched' = {}
    /\ check' = "none" /\ compared' = {}
    /\ UNCHANGED <<tables, cursor, source_rows, run, batch, cutting>>

ValidateDies ==
    /\ check # "none"
    /\ check' = "none" /\ compared' = {}
    /\ UNCHANGED <<tables, state, run, batch, cutting, vouched>>

-----------------------------------------------------------------------------
(* The other commands *)

(* cutover reads the run's phase ... *)
BeginCutover ==
    /\ Free
    /\ phase[run] = "validated"
    /\ cutting' = TRUE
    /\ UNCHANGED <<tables, state, run, batch, check, history>>

(* ... and has the lock on the source, when no copy reads it any more.  It *)
(* fails when there is a legacy table already, or no shadow.               *)
Cutover ==
    /\ cutting /\ ~Copying
    /\ IF shadow # NoTable /\ legacy = NoTable
       THEN /\ source' = shadow /\ shadow' = NoTable /\ legacy' = source
            /\ compact' = TRUE
            /\ Becomes("cutover")
            /\ vouched' = {}
       ELSE UNCHANGED <<source, shadow, legacy, compact, phase, vouched>>
    /\ cutting' = FALSE
    /\ UNCHANGED <<policies, cursor, source_rows, run, batch, check, compared>>

CutoverDies ==
    /\ cutting
    /\ cutting' = FALSE
    /\ UNCHANGED <<tables, state, run, batch, check, history>>

(* Seeded fault: the compact table is dropped, and its run not marked. *)
FaultRollback ==
    /\ Free /\ ~Copying
    /\ phase[run] = "cutover" /\ legacy # NoTable
    /\ source' = legacy /\ shadow' = NoTable /\ legacy' = NoTable
    /\ compact' = FALSE
    /\ vouched' = {}
    /\ UNCHANGED <<policies, state, run, batch, check, cutting, compared>>

Rollback ==
    /\ Free /\ ~Copying
    /\ phase[run] = "cutover" /\ legacy # NoTable
    /\ source' = legacy /\ shadow' = source /\ legacy' = NoTable
    /\ compact' = FALSE
    /\ Becomes("rolled_back")
    /\ vouched' = {}
    /\ UNCHANGED <<policies, cursor, source_rows, run, batch, check, cutting, compared>>

(* With the run id confirmed and a verified backup at hand. *)
Cleanup ==
    /\ Free
    /\ phase[run] = "cutover" /\ legacy # NoTable
    /\ legacy' = NoTable
    /\ Becomes("cleaned")
    /\ UNCHANGED <<source, compact, shadow, policies, cursor, source_rows,
                   run, batch, check, cutting, history>>

Next ==
    \/ WriteBar \/ UseRun
    \/ Prepare
    \/ \E c \in Copies : ReadBatch(c) \/ InsertBatch(c) \/ CopyDies(c)
    \/ EndCopy
    \/ Repair
    \/ BeginValidate \/ Compare \/ EndValidate \/ ValidateDies
    \/ BeginCutover \/ Cutover \/ CutoverDies
    \/ Rollback \/ Cleanup

Spec == Init /\ [][Next]_vars

-----------------------------------------------------------------------------
(* What a cutover would publish is what the application sees, but for the  *)
(* bars that were written since the validation began: from then to the     *)
(* cutover the two tables have all others in common, whatever copies of    *)
(* earlier attempts still finish or die in between.  If nothing is written *)
(* all this time, as the runbook wants it, they are equal.                 *)
ValidatedIsCurrent ==
    phase[run] = "validated" \/ cutting => \A k \in vouched : shadow[k] = source[k]

(* The way back exists exactly while some run can take it, and only one    *)
(* can: no run finds another's cutover, and none is left without its       *)
(* legacy table.                                                           *)
OneCanRollBack ==
    /\ \A r, s \in Runs : phase[r] = "cutover" /\ phase[s] = "cutover" => r = s
    /\ legacy # NoTable <=> \E r \in Runs : phase[r] = "cutover"

(* After the cleanup there is one table, and no command of any run touches *)
(* it: the migration cannot be done twice.                                 *)
CleanedIsFinal ==
    [][(\E r \in Runs : phase[r] = "cleaned") =>
          /\ UNCHANGED <<compact, shadow, legacy, phase>>
          /\ WriteBar \/ UNCHANGED source]_vars

(* The application sees no difference: bars change by its own writes only, *)
(* except that a cutover takes back those made since its validation began; *)
(* and a rollback brings back what a cutover found, these included.        *)
Published == INSTANCE PublishedBars WITH bars <- source, kept <- legacy
PublishedSpec == Published!Spec
=============================================================================
