------------------------ MODULE BarsMigrationProofs ------------------------
(***************************************************************************)
(* Proofs about BarsMigration, for any number of bars, columns, payloads,  *)
(* runs and copies, and every batch size.                                  *)
(*                                                                         *)
(* A bar that is not written while the selects of a validation run one     *)
(* after the other has the same row in all of them, but for copies that    *)
(* put it into the shadow once more: what each select found of it still    *)
(* holds at the next (Validating), and they add up to equal rows.  A       *)
(* validated run and its shadow then stay as they are because the operator *)
(* uses no other run meanwhile (Alone), because prepare leaves a validated *)
(* run alone, and because a copy under way can only put the source's own   *)
(* rows over the same rows (Current).  The rest is about which of the      *)
(* three tables exist (Tables).                                            *)
(***************************************************************************)
EXTENDS BarsMigration, FiniteSetTheorems, TLAPS

Current ==
    phase[run] = "validated" \/ cutting =>
        /\ shadow # NoTable
        /\ \A k \in vouched : shadow[k] = source[k]

(* What the selects so far found of a bar not written meanwhile. *)
SameKey(k) == shadow[k] = NoBar <=> source[k] = NoBar
SameColumns(k) == source[k] # NoBar => shadow[k].columns = source[k].columns
SamePayload(k) == source[k] # NoBar => shadow[k].payload = source[k].payload

Validating ==
    /\ check # "none" => shadow # NoTable /\ ~cutting
    /\ \A k \in compared :
          /\ check \in {"scalar_or_rights_mismatches", "payload_mismatches", "passed"}
                => SameKey(k)
          /\ check \in {"payload_mismatches", "passed"} => SameColumns(k)
          /\ check = "passed" => SamePayload(k)

Alone == \A r \in Runs : r # run => phase[r] # "validated"

Cleaned == \E r \in Runs : phase[r] = "cleaned"

Tables ==
    /\ compact <=> legacy # NoTable \/ Cleaned
    /\ Cleaned => legacy = NoTable
    /\ compact => shadow = NoTable
    /\ OneCanRollBack

IInv == TypeOK /\ Validating /\ Current /\ Alone /\ Tables

LEMMA NotATable == \A t \in Rows : t # NoTable
BY ConstantAssumption

LEMMA CountedRows ==
    ASSUME source \in Rows
    PROVE  Cardinality(Stored(source)) \in 0..LastKey
<1>1. LastKey \in Nat
  BY ConstantAssumption
<1>2. IsFiniteSet(1..LastKey) /\ Cardinality(1..LastKey) = LastKey
  BY <1>1, FS_Interval
<1>3. Stored(source) \subseteq 1..LastKey
  BY DEF Stored, Keys
<1>4. IsFiniteSet(Stored(source)) /\ Cardinality(Stored(source)) <= LastKey
  BY <1>2, <1>3, FS_Subset
<1>5. Cardinality(Stored(source)) \in Nat
  BY <1>4, FS_CardinalityType
<1> QED BY <1>1, <1>4, <1>5

LEMMA InitIInv == Init => IInv
<1> SUFFICES ASSUME Init PROVE IInv
  OBVIOUS
<1>1. 0 \in 0..LastKey
  BY ConstantAssumption
<1>2. TypeOK
  BY <1>1 DEF Init, TypeOK, Phase
<1>3. Validating /\ Current /\ Alone
  BY DEF Init, Validating, Current, Alone
<1>4. Tables
  BY DEF Init, Tables, OneCanRollBack, Cleaned
<1> QED BY <1>2, <1>3, <1>4 DEF IInv

(* Another phase for one run, and what it means for the others. *)
LEMMA PhaseMoves ==
    ASSUME TypeOK, NEW r \in Runs, NEW p \in Phase,
           phase' = [phase EXCEPT ![r] = p]
    PROVE  /\ phase' \in [Runs -> Phase] /\ phase'[r] = p
           /\ \A s \in Runs : s # r => phase'[s] = phase[s]
BY DEF TypeOK

(* Tables, when none is renamed and a run's phase moves to or from         *)
(* neither cutover nor cleaned.                                            *)
LEMMA TablesStay ==
    ASSUME IInv, NEW r \in Runs, NEW p \in Phase \ {"cutover", "cleaned"},
           phase' = [phase EXCEPT ![r] = p] /\ phase[r] \notin {"cutover", "cleaned"},
           UNCHANGED <<compact, legacy>>, compact => shadow' = NoTable
    PROVE  Tables'
<1>1. /\ phase'[r] = p /\ \A s \in Runs : s # r => phase'[s] = phase[s]
  BY PhaseMoves DEF IInv
<1>2. \A s \in Runs : /\ phase'[s] = "cutover" <=> phase[s] = "cutover"
                      /\ phase'[s] = "cleaned" <=> phase[s] = "cleaned"
  BY <1>1
<1>3. Cleaned' <=> Cleaned
  BY <1>2 DEF Cleaned
<1>4. OneCanRollBack'
  BY <1>2 DEF OneCanRollBack, IInv, Tables
<1> QED BY <1>3, <1>4 DEF IInv, Tables

LEMMA TablesUnchanged ==
    ASSUME IInv, UNCHANGED <<compact, legacy, shadow, phase>>
    PROVE  Tables'
BY DEF IInv, Tables, OneCanRollBack, Cleaned

(* Validating and Current, when no table, phase or bar in question changes. *)
LEMMA ValidatingStays ==
    ASSUME IInv, UNCHANGED <<source, shadow, check, compared, cutting>>
    PROVE  Validating'
BY DEF IInv, Validating, SameKey, SameColumns, SamePayload

LEMMA CurrentStays ==
    ASSUME IInv, UNCHANGED <<source, shadow, phase, run, vouched, cutting>>
    PROVE  Current'
BY DEF IInv, Current

(* Nothing is being validated or cut over, and the run is not validated.   *)
LEMMA NothingToHold ==
    ASSUME check' = "none", cutting' = FALSE, phase'[run'] # "validated"
    PROVE  Validating' /\ Current'
BY DEF Validating, Current

(* While the old schema is in use, no run has cut over.                    *)
LEMMA NotYet ==
    ASSUME IInv, ~compact
    PROVE  /\ legacy = NoTable
           /\ \A r \in Runs : phase[r] \notin {"cutover", "cleaned"}
BY DEF IInv, Tables, OneCanRollBack, Cleaned

LEMMA ShadowMeansNotYet ==
    ASSUME IInv, shadow # NoTable
    PROVE  ~compact
BY DEF IInv, Tables

-----------------------------------------------------------------------------
(* One lemma for each action *)

LEMMA WriteBarStep == ASSUME IInv, WriteBar PROVE IInv'
<1>1. PICK k \in Keys : \E bar \in Written[k] :
          /\ source' = [source EXCEPT ![k] = bar]
          /\ policies' = IF compact THEN policies \cup {RightsTag[bar.columns]}
                         ELSE policies
          /\ compared' = compared \ {k} /\ vouched' = vouched \ {k}
  BY DEF WriteBar
<1>2. PICK bar \in Written[k] :
          /\ source' = [source EXCEPT ![k] = bar]
          /\ policies' = IF compact THEN policies \cup {RightsTag[bar.columns]}
                         ELSE policies
          /\ compared' = compared \ {k} /\ vouched' = vouched \ {k}
  BY <1>1
<1>3. UNCHANGED <<compact, shadow, legacy, state, run, batch, check, cutting>>
  BY DEF WriteBar
<1>4. bar \in Bars /\ bar.columns \in Columns
  BY ConstantAssumption DEF Bars
<1>5. TypeOK'
  BY <1>2, <1>3, <1>4 DEF IInv, TypeOK, Rows, state
<1>6. \A j \in Keys \ {k} : source'[j] = source[j]
  BY <1>2 DEF IInv, TypeOK, Rows
<1>7. compared' \subseteq Keys \ {k} /\ vouched' \subseteq Keys \ {k}
  BY <1>2 DEF IInv, TypeOK
<1>8. Validating'
  BY <1>2, <1>3, <1>6, <1>7 DEF IInv, Validating, SameKey, SameColumns, SamePayload
<1>9. Current' /\ Alone'
  BY <1>2, <1>3, <1>6, <1>7 DEF IInv, Current, Alone, state
<1>10. Tables'
  BY <1>3, TablesUnchanged DEF state
<1> QED BY <1>5, <1>8, <1>9, <1>10 DEF IInv

LEMMA UseRunStep == ASSUME IInv, UseRun PROVE IInv'
<1> USE DEF UseRun, tables, state
<1>1. TypeOK'
  BY DEF IInv, TypeOK
<1>2. Alone'
  BY DEF IInv, Alone
<1>3. phase'[run'] # "validated"
  BY <1>1 DEF IInv, Alone
<1>4. check' = "none" /\ cutting' = FALSE
  BY DEF Free, IInv, TypeOK
<1>5. Validating' /\ Current'
  BY <1>3, <1>4, NothingToHold
<1>6. Tables'
  BY TablesUnchanged
<1> QED BY <1>1, <1>2, <1>5, <1>6 DEF IInv

LEMMA PrepareStep == ASSUME IInv, Prepare PROVE IInv'
<1>1. /\ check = "none" /\ ~cutting /\ ~compact /\ legacy = NoTable
      /\ shadow' = PreparedShadow
      /\ policies' = policies \cup {RightsTag[source[k].columns] : k \in Stored(source)}
      /\ source_rows' = [source_rows EXCEPT ![run] = Cardinality(Stored(source))]
      /\ UNCHANGED <<source, compact, legacy, run, batch, check, cutting, history>>
  BY DEF Prepare, Free
<1>2. \/ /\ StartsOver \/ phase[run] = "none"
         /\ phase' = [phase EXCEPT ![run] = "prepared"]
         /\ cursor' = [cursor EXCEPT ![run] = 0]
      \/ ~StartsOver /\ UNCHANGED <<phase, cursor>>
  BY DEF Prepare, Becomes
<1>3. run \in Runs /\ run' = run /\ source \in Rows
  BY <1>1 DEF IInv, TypeOK
<1>4. shadow' \in Rows
  BY <1>1 DEF IInv, TypeOK, PreparedShadow, Empty, Rows
<1>5. TypeOK'
  <2>1. source_rows' \in [Runs -> 0..LastKey]
    BY <1>1, <1>3, CountedRows DEF IInv, TypeOK
  <2>2. policies' \subseteq {RightsTag[c] : c \in Columns}
    BY <1>1, <1>3 DEF IInv, TypeOK, Stored, Rows, Bars
  <2>3. phase' \in [Runs -> Phase]
    BY <1>2 DEF IInv, TypeOK, Phase
  <2>4. 0 \in 0..LastKey
    BY ConstantAssumption
  <2>5. cursor' \in [Runs -> 0..LastKey]
    BY <1>2, <2>4 DEF IInv, TypeOK
  <2> QED BY <1>1, <1>4, <2>1, <2>2, <2>3, <2>5 DEF IInv, TypeOK, history
<1>6. Validating' /\ Current'
  <2>1. Validating'
    BY <1>1 DEF Validating
  <2>2. CASE phase' = [phase EXCEPT ![run] = "prepared"]
    BY <1>1, <1>3, <2>1, <2>2 DEF IInv, TypeOK, Current
  <2>3. CASE ~StartsOver /\ phase' = phase
    <3>1. SUFFICES ASSUME phase[run] = "validated"
                   PROVE  shadow' # NoTable /\ \A k \in vouched : shadow'[k] = source[k]
      BY <1>1, <2>1, <2>3 DEF Current, history
    <3>2. shadow # NoTable /\ \A k \in vouched : shadow[k] = source[k]
      BY <3>1 DEF IInv, Current
    <3> QED BY <1>1, <2>3, <3>2 DEF PreparedShadow
  <2> QED BY <1>2, <2>2, <2>3, <2>1
<1>7. Alone'
  BY <1>1, <1>2, <1>3 DEF IInv, TypeOK, Alone
<1>8. Tables'
  <2>1. phase[run] \notin {"cutover", "cleaned"}
    BY <1>1, <1>3, NotYet
  <2>2. CASE phase' = [phase EXCEPT ![run] = "prepared"]
    BY <1>1, <1>3, <2>1, <2>2, TablesStay DEF Phase
  <2>3. CASE phase' = phase
    BY <1>1, <2>3 DEF IInv, Tables, OneCanRollBack, Cleaned
  <2> QED BY <1>2, <2>2, <2>3
<1> QED BY <1>5, <1>6, <1>7, <1>8 DEF IInv

LEMMA ReadBatchStep ==
    ASSUME IInv, NEW c \in Copies, ReadBatch(c)
    PROVE  IInv'
<1>1. PICK to \in {k \in Stored(source) : k > cursor[run]} :
         batch' = [batch EXCEPT ![c] = [run |-> run, from |-> cursor[run], to |-> to]]
  BY DEF ReadBatch
<1>2. UNCHANGED <<tables, state, run, check, cutting, history>>
  BY DEF ReadBatch
<1>3. to \in 0..LastKey
  BY <1>1, ConstantAssumption DEF Stored, Keys
<1>4. [run |-> run, from |-> cursor[run], to |-> to] \in Batch
  BY <1>3 DEF IInv, TypeOK, Batch
<1>5. TypeOK'
  BY <1>1, <1>2, <1>4 DEF IInv, TypeOK, tables, state, history
<1>6. Validating' /\ Current' /\ Alone'
  BY <1>2, ValidatingStays, CurrentStays DEF IInv, Alone, tables, state, history
<1>7. Tables'
  BY <1>2, TablesUnchanged DEF tables, state
<1> QED BY <1>5, <1>6, <1>7 DEF IInv

(* A batch that equals the rows it finds changes nothing: whichever run    *)
(* and time it is from, it leaves a validated shadow equal to the source.  *)
LEMMA InsertBatchStep ==
    ASSUME IInv, NEW c \in Copies, InsertBatch(c)
    PROVE  IInv'
<1> DEFINE b == batch[c]
<1>1. /\ b # NoBatch /\ shadow # NoTable /\ ~compact
      /\ shadow' = [k \in Keys |-> IF InBatch(b, k) THEN source[k] ELSE shadow[k]]
      /\ phase' = [phase EXCEPT ![b.run] = "copying"]
      /\ cursor' = [cursor EXCEPT ![b.run] = b.to]
      /\ batch' = [batch EXCEPT ![c] = NoBatch]
      /\ UNCHANGED <<source, compact, legacy, policies, source_rows, run, check,
                     cutting, history>>
  BY DEF InsertBatch
<1>2. b \in Batch
  BY <1>1 DEF IInv, TypeOK
<1>3. b.run \in Runs /\ b.to \in 0..LastKey
  BY <1>2 DEF Batch
<1>4. shadow \in Rows /\ source \in Rows /\ vouched \subseteq Keys /\ compared \subseteq Keys
  BY <1>1 DEF IInv, TypeOK
<1>5. shadow' \in Rows /\ \A k \in Keys : shadow'[k] \in {source[k], shadow[k]}
  BY <1>1, <1>4 DEF Rows
<1> HIDE DEF b
<1>6. /\ phase' \in [Runs -> Phase] /\ phase'[b.run] = "copying"
      /\ \A s \in Runs : s # b.run => phase'[s] = phase[s]
  BY <1>1, <1>3, PhaseMoves DEF IInv, Phase
<1>7. TypeOK'
  <2>1. cursor' \in [Runs -> 0..LastKey] /\ batch' \in [Copies -> Batch \cup {NoBatch}]
    BY <1>1, <1>3 DEF IInv, TypeOK
  <2> QED BY <1>1, <1>5, <1>6, <2>1 DEF IInv, TypeOK, history
<1>8. Validating' /\ Current'
  <2>1. shadow' # NoTable
    BY <1>5, NotATable
  <2>2. Validating'
    BY <1>1, <1>4, <1>5, <2>1 DEF IInv, Validating, SameKey, SameColumns, SamePayload, history
  <2>3. run \in Runs
    BY DEF IInv, TypeOK
  <2>4. phase'[run] = "validated" => phase[run] = "validated"
    BY <1>6, <2>3
  <2>5. Current'
    BY <1>1, <1>4, <1>5, <2>1, <2>4 DEF IInv, Current, history
  <2> QED BY <2>2, <2>5
<1>9. Alone'
  BY <1>1, <1>6 DEF IInv, Alone
<1>10. Tables'
  <2>1. phase[b.run] \notin {"cutover", "cleaned"}
    BY <1>1, <1>3, NotYet
  <2> QED BY <1>1, <1>3, <2>1, TablesStay DEF Phase
<1> QED BY <1>7, <1>8, <1>9, <1>10 DEF IInv

LEMMA NothingMoved ==
    ASSUME IInv, UNCHANGED <<tables, state, run, history>>,
           check' = check, cutting' \in BOOLEAN,
           cutting' => cutting \/ (check = "none" /\ phase[run] = "validated"),
           batch' \in [Copies -> Batch \cup {NoBatch}]
    PROVE  IInv'
<1>1. TypeOK'
  BY DEF IInv, TypeOK, tables, state, history
<1>2. Validating'
  BY DEF IInv, Validating, SameKey, SameColumns, SamePayload, tables, history
<1>3. Current' /\ Alone'
  BY DEF IInv, Current, Alone, tables, state, history
<1>4. Tables'
  BY TablesUnchanged DEF tables, state
<1> QED BY <1>1, <1>2, <1>3, <1>4 DEF IInv

LEMMA EndCopyStep == ASSUME IInv, EndCopy PROVE IInv'
<1>1. /\ shadow # NoTable
      /\ phase' = [phase EXCEPT ![run] = "copied"]
      /\ UNCHANGED <<tables, cursor, source_rows, run, batch, check, cutting, history>>
  BY DEF EndCopy, Becomes
<1>2. run \in Runs /\ ~compact
  BY <1>1, ShadowMeansNotYet DEF IInv, TypeOK
<1>3. /\ phase' \in [Runs -> Phase] /\ phase'[run] = "copied"
      /\ \A s \in Runs : s # run => phase'[s] = phase[s]
  BY <1>1, <1>2, PhaseMoves DEF IInv, Phase
<1>4. TypeOK'
  BY <1>1, <1>3 DEF IInv, TypeOK, tables, history
<1>5. Validating' /\ Current' /\ Alone'
  BY <1>1, <1>3, ValidatingStays DEF IInv, Current, Alone, tables, history
<1>6. Tables'
  <2>1. phase[run] \notin {"cutover", "cleaned"}
    BY <1>2, NotYet
  <2> QED BY <1>1, <1>2, <2>1, TablesStay DEF Phase, tables
<1> QED BY <1>4, <1>5, <1>6 DEF IInv

LEMMA RepairStep == ASSUME IInv, Repair PROVE IInv'
<1> DEFINE differs == {k \in Stored(source) \cap Stored(shadow) :
                          shadow[k].payload # source[k].payload}
<1>1. /\ shadow # NoTable /\ check = "none" /\ ~cutting
      /\ phase' = [phase EXCEPT ![run] = "copied"]
      /\ UNCHANGED <<source, compact, legacy, policies, cursor, source_rows,
                     run, batch, check, cutting, history>>
  BY DEF Repair, Becomes, Free
<1>2. PICK p \in [differs -> Payloads] :
          shadow' = [k \in Keys |-> IF k \in differs
                                    THEN [shadow[k] EXCEPT !.payload = p[k]]
                                    ELSE shadow[k]]
  BY DEF Repair
<1>3. run \in Runs /\ ~compact /\ shadow \in Rows
  BY <1>1, ShadowMeansNotYet DEF IInv, TypeOK
<1>4. /\ phase' \in [Runs -> Phase] /\ phase'[run] = "copied"
      /\ \A s \in Runs : s # run => phase'[s] = phase[s]
  BY <1>1, <1>3, PhaseMoves DEF IInv, Phase
<1>5. shadow' \in Rows
  <2>1. ASSUME NEW k \in differs PROVE [shadow[k] EXCEPT !.payload = p[k]] \in Bars
    <3>1. shadow[k] \in Bars /\ p[k] \in Payloads
      BY <1>3 DEF Stored, Rows
    <3> QED BY <3>1 DEF Bars
  <2>2. \A k \in Keys : shadow[k] \in Bars \cup {NoBar}
    BY <1>3 DEF Rows
  <2> HIDE DEF differs
  <2> QED BY <1>2, <2>1, <2>2 DEF Rows
<1>6. TypeOK'
  BY <1>1, <1>4, <1>5 DEF IInv, TypeOK, history
<1>7. Validating' /\ Current' /\ Alone'
  BY <1>1, <1>4, NothingToHold DEF IInv, TypeOK, Alone
<1>8. Tables'
  <2>1. phase[run] \notin {"cutover", "cleaned"}
    BY <1>3, NotYet
  <2> QED BY <1>1, <1>3, <2>1, TablesStay DEF Phase
<1> QED BY <1>6, <1>7, <1>8 DEF IInv

LEMMA BeginValidateStep == ASSUME IInv, BeginValidate PROVE IInv'
<1>1. /\ shadow # NoTable /\ ~cutting
      /\ check' = "source_rows" /\ compared' = Keys
      /\ UNCHANGED <<tables, state, run, batch, cutting, vouched>>
  BY DEF BeginValidate, Free
<1>2. TypeOK'
  BY <1>1 DEF IInv, TypeOK, tables, state, Check
<1>3. Validating'
  BY <1>1 DEF Validating, tables
<1>4. Current' /\ Alone'
  BY <1>1, CurrentStays DEF IInv, Alone, tables, state
<1>5. Tables'
  BY <1>1, TablesUnchanged DEF tables, state
<1> QED BY <1>2, <1>3, <1>4, <1>5 DEF IInv

(* Each select adds to what is known of the bars not written meanwhile.    *)
LEMMA CompareStep == ASSUME IInv, Compare PROVE IInv'
<1>1. check \in Check /\ UNCHANGED <<tables, state, run, batch, cutting, vouched>>
  BY DEF Compare
<1>2. \/ Holds(check) /\ check' = After[check] /\ compared' = compared
      \/ check' = "failed" /\ compared' = {}
  BY DEF Compare
<1>3. shadow # NoTable /\ ~cutting /\ shadow \in Rows /\ source \in Rows /\ compared \subseteq Keys
  BY <1>1 DEF IInv, TypeOK, Validating, Check
<1>4. check' \in Check \cup {"none", "passed", "failed"}
  BY <1>1, <1>2 DEF After, Check
<1>5. TypeOK'
  BY <1>1, <1>2, <1>4 DEF IInv, TypeOK, tables, state
<1>6. Validating'
  <2>1. CASE check' = "failed" /\ compared' = {}
    BY <1>1, <1>3, <2>1 DEF Validating, tables
  <2>2. CASE Holds(check) /\ check' = After[check] /\ compared' = compared
    <3> USE DEF IInv, Validating, SameKey, SameColumns, SamePayload, tables
    <3>1. CASE check = "source_rows"
      BY <1>1, <1>3, <2>2, <3>1 DEF After
    <3>2. CASE check = "shadow_rows"
      BY <1>1, <1>3, <2>2, <3>2 DEF After
    <3>3. CASE check = "missing_keys"
      <4>1. Stored(source) = Stored(shadow) /\ check' = "scalar_or_rights_mismatches"
        BY <2>2, <3>3 DEF Holds, After
      <4> QED BY <1>1, <1>3, <2>2, <4>1 DEF Stored
    <3>4. CASE check = "scalar_or_rights_mismatches"
      <4>1. /\ \A k \in Stored(source) \cap Stored(shadow) :
                  source[k].columns = shadow[k].columns
            /\ check' = "payload_mismatches"
        BY <2>2, <3>4 DEF Holds, After
      <4> QED BY <1>1, <1>3, <2>2, <3>4, <4>1 DEF Stored
    <3>5. CASE check = "payload_mismatches"
      <4>1. /\ \A k \in Stored(source) \cap Stored(shadow) :
                  source[k].payload = shadow[k].payload
            /\ check' = "passed"
        BY <2>2, <3>5 DEF Holds, After
      <4> QED BY <1>1, <1>3, <2>2, <3>5, <4>1 DEF Stored
    <3> QED BY <1>1, <3>1, <3>2, <3>3, <3>4, <3>5 DEF Check
  <2> QED BY <1>2, <2>1, <2>2
<1>7. Current' /\ Alone'
  BY <1>1, CurrentStays DEF IInv, Alone, tables, state
<1>8. Tables'
  BY <1>1, TablesUnchanged DEF tables, state
<1> QED BY <1>5, <1>6, <1>7, <1>8 DEF IInv

(* A bar that all five found the same is the same.                         *)
LEMMA PassedMeansEqual ==
    ASSUME IInv, check = "passed"
    PROVE  \A k \in compared : shadow[k] = source[k]
<1> SUFFICES ASSUME NEW k \in compared PROVE shadow[k] = source[k]
  OBVIOUS
<1>1. SameKey(k) /\ SameColumns(k) /\ SamePayload(k)
  BY DEF IInv, Validating
<1>2. k \in Keys /\ shadow \in Rows /\ source \in Rows
  BY DEF IInv, Validating, TypeOK
<1>3. shadow[k] \in Bars \cup {NoBar} /\ source[k] \in Bars \cup {NoBar}
  BY <1>2 DEF Rows
<1>4. CASE source[k] = NoBar
  BY <1>1, <1>4 DEF SameKey
<1>5. CASE source[k] # NoBar
  <2>1. shadow[k] \in Bars /\ source[k] \in Bars
    BY <1>1, <1>3, <1>5 DEF SameKey
  <2> QED BY <1>1, <1>5, <2>1 DEF SameColumns, SamePayload, Bars
<1> QED BY <1>4, <1>5

LEMMA EndValidateStep == ASSUME IInv, EndValidate PROVE IInv'
<1>1. /\ check # "none" /\ check' = "none" /\ compared' = {}
      /\ UNCHANGED <<tables, cursor, source_rows, run, batch, cutting>>
  BY DEF EndValidate
<1>2. PICK p \in {"validated", "validation_failed"} :
         /\ phase' = [phase EXCEPT ![run] = p]
         /\ p = "validated" => check = "passed" /\ vouched' = compared
         /\ vouched' \in {compared, {}}
  BY DEF EndValidate, Becomes
<1>3. /\ run \in Runs /\ shadow # NoTable /\ ~cutting /\ ~compact
      /\ compared \subseteq Keys
  BY <1>1, ShadowMeansNotYet DEF IInv, TypeOK, Validating
<1>4. /\ phase' \in [Runs -> Phase] /\ phase'[run] = p
      /\ \A s \in Runs : s # run => phase'[s] = phase[s]
  BY <1>2, <1>3, PhaseMoves DEF IInv, Phase
<1>5. TypeOK'
  BY <1>1, <1>2, <1>3, <1>4 DEF IInv, TypeOK, tables
<1>6. Validating'
  BY <1>1 DEF Validating
<1>7. Current'
  BY <1>1, <1>2, <1>3, <1>4, PassedMeansEqual DEF Current, tables
<1>8. Alone'
  BY <1>1, <1>4 DEF IInv, Alone
<1>9. Tables'
  <2>1. phase[run] \notin {"cutover", "cleaned"}
    BY <1>3, NotYet
  <2> QED BY <1>1, <1>2, <1>3, <2>1, TablesStay DEF Phase, tables
<1> QED BY <1>5, <1>6, <1>7, <1>8, <1>9 DEF IInv

LEMMA ValidateDiesStep == ASSUME IInv, ValidateDies PROVE IInv'
<1>1. /\ check' = "none" /\ compared' = {}
      /\ UNCHANGED <<tables, state, run, batch, cutting, vouched>>
  BY DEF ValidateDies
<1>2. TypeOK'
  BY <1>1 DEF IInv, TypeOK, tables, state
<1>3. Validating'
  BY <1>1 DEF Validating
<1>4. Current' /\ Alone'
  BY <1>1, CurrentStays DEF IInv, Alone, tables, state
<1>5. Tables'
  BY <1>1, TablesUnchanged DEF tables, state
<1> QED BY <1>2, <1>3, <1>4, <1>5 DEF IInv

(* A cutover never finds its lock in vain.                                 *)
LEMMA CutoverFinds ==
    ASSUME IInv, cutting
    PROVE  /\ shadow # NoTable /\ shadow \in Rows /\ ~compact /\ legacy = NoTable
           /\ check = "none"
           /\ \A r \in Runs : phase[r] \notin {"cutover", "cleaned"}
<1>1. shadow # NoTable /\ shadow \in Rows /\ check = "none"
  BY DEF IInv, Current, Validating, TypeOK
<1>2. ~compact
  BY <1>1, ShadowMeansNotYet
<1> QED BY <1>1, <1>2, NotYet

LEMMA CutoverStep == ASSUME IInv, Cutover PROVE IInv'
<1>1. /\ cutting /\ cutting' = FALSE
      /\ UNCHANGED <<policies, cursor, source_rows, run, batch, check, compared>>
  BY DEF Cutover
<1>2. source \in Rows /\ run \in Runs
  BY DEF IInv, TypeOK
<1>3. /\ shadow # NoTable /\ shadow \in Rows /\ ~compact /\ legacy = NoTable
      /\ check = "none"
      /\ \A r \in Runs : phase[r] \notin {"cutover", "cleaned"}
  BY <1>1, CutoverFinds
<1>4. /\ source' = shadow /\ shadow' = NoTable /\ legacy' = source /\ compact' = TRUE
      /\ phase' = [phase EXCEPT ![run] = "cutover"] /\ vouched' = {}
  BY <1>3 DEF Cutover, Becomes
<1>5. /\ phase' \in [Runs -> Phase] /\ phase'[run] = "cutover"
      /\ \A s \in Runs : s # run => phase'[s] = phase[s]
  BY <1>2, <1>4, PhaseMoves DEF IInv, Phase
<1>6. TypeOK'
  BY <1>1, <1>2, <1>3, <1>4, <1>5 DEF IInv, TypeOK
<1>7. Validating' /\ Current' /\ Alone'
  <2>1. Validating' /\ Current'
    BY <1>1, <1>3, <1>5, NothingToHold
  <2> QED BY <1>1, <1>5, <2>1 DEF IInv, Alone
<1>8. Tables'
  <2>1. legacy' # NoTable
    BY <1>2, <1>4, NotATable
  <2>2. \A r \in Runs : phase'[r] = "cutover" <=> r = run
    BY <1>3, <1>5
  <2>3. OneCanRollBack'
    BY <1>2, <2>1, <2>2 DEF OneCanRollBack
  <2>4. ~Cleaned'
    BY <1>3, <1>5 DEF Cleaned
  <2> QED BY <1>4, <2>1, <2>3, <2>4 DEF Tables
<1> QED BY <1>6, <1>7, <1>8 DEF IInv

LEMMA RollbackStep == ASSUME IInv, Rollback PROVE IInv'
<1>1. /\ phase[run] = "cutover" /\ legacy # NoTable /\ check = "none" /\ ~cutting
      /\ source' = legacy /\ shadow' = source /\ legacy' = NoTable /\ ~compact'
      /\ phase' = [phase EXCEPT ![run] = "rolled_back"] /\ vouched' = {}
      /\ UNCHANGED <<policies, cursor, source_rows, run, batch, check, cutting, compared>>
  BY DEF Rollback, Becomes, Free
<1>2. source \in Rows /\ run \in Runs /\ legacy \in Rows /\ compact /\ ~Cleaned
  BY <1>1 DEF IInv, TypeOK, Tables
<1>3. /\ phase' \in [Runs -> Phase] /\ phase'[run] = "rolled_back"
      /\ \A s \in Runs : s # run => phase'[s] = phase[s]
  BY <1>1, <1>2, PhaseMoves DEF IInv, Phase
<1>4. TypeOK'
  <2>1. compact' \in BOOLEAN
    BY DEF Rollback
  <2> QED BY <1>1, <1>2, <1>3, <2>1, NotATable DEF IInv, TypeOK
<1>5. Validating' /\ Current' /\ Alone'
  <2>1. Validating' /\ Current'
    BY <1>1, <1>3, NothingToHold DEF IInv, TypeOK
  <2> QED BY <1>1, <1>3, <2>1 DEF IInv, Alone
<1>6. Tables'
  <2>1. \A r \in Runs : phase'[r] # "cutover"
    BY <1>1, <1>2, <1>3 DEF IInv, Tables, OneCanRollBack
  <2>2. ~Cleaned'
    BY <1>2, <1>3 DEF Cleaned
  <2> QED BY <1>1, <2>1, <2>2 DEF Tables, OneCanRollBack
<1> QED BY <1>4, <1>5, <1>6 DEF IInv

LEMMA CleanupStep == ASSUME IInv, Cleanup PROVE IInv'
<1>1. /\ phase[run] = "cutover" /\ legacy # NoTable /\ legacy' = NoTable
      /\ check = "none" /\ ~cutting
      /\ phase' = [phase EXCEPT ![run] = "cleaned"]
      /\ UNCHANGED <<source, compact, shadow, policies, cursor, source_rows,
                     run, batch, check, cutting, history>>
  BY DEF Cleanup, Becomes, Free
<1>2. run \in Runs /\ compact /\ shadow = NoTable /\ source \in Rows
  BY <1>1 DEF IInv, TypeOK, Tables
<1>3. /\ phase' \in [Runs -> Phase] /\ phase'[run] = "cleaned"
      /\ \A s \in Runs : s # run => phase'[s] = phase[s]
  BY <1>1, <1>2, PhaseMoves DEF IInv, Phase
<1>4. TypeOK'
  BY <1>1, <1>3 DEF IInv, TypeOK, history
<1>5. Validating' /\ Current' /\ Alone'
  <2>1. Validating' /\ Current'
    BY <1>1, <1>3, NothingToHold DEF IInv, TypeOK
  <2> QED BY <1>1, <1>3, <2>1 DEF IInv, Alone
<1>6. Tables'
  <2>1. \A r \in Runs : phase'[r] # "cutover"
    BY <1>1, <1>2, <1>3 DEF IInv, Tables, OneCanRollBack
  <2>2. Cleaned'
    BY <1>2, <1>3 DEF Cleaned
  <2> QED BY <1>1, <1>2, <2>1, <2>2 DEF Tables, OneCanRollBack
<1> QED BY <1>4, <1>5, <1>6 DEF IInv

LEMMA NextIInv == IInv /\ [Next]_vars => IInv'
<1> SUFFICES ASSUME IInv, [Next]_vars PROVE IInv'
  OBVIOUS
<1>1. CASE WriteBar \/ UseRun
  BY <1>1, WriteBarStep, UseRunStep
<1>2. CASE Prepare
  BY <1>2, PrepareStep
<1>3. ASSUME NEW c \in Copies, ReadBatch(c) \/ InsertBatch(c) \/ CopyDies(c)
      PROVE  IInv'
  <2>1. CASE CopyDies(c)
    BY <2>1, NothingMoved DEF CopyDies, IInv, TypeOK
  <2> QED BY <1>3, <2>1, ReadBatchStep, InsertBatchStep
<1>4. CASE \/ EndCopy \/ Repair
           \/ BeginValidate \/ Compare \/ EndValidate \/ ValidateDies
  BY <1>4, EndCopyStep, RepairStep, BeginValidateStep, CompareStep,
     EndValidateStep, ValidateDiesStep
<1>5. CASE BeginCutover
  BY <1>5, NothingMoved DEF BeginCutover, Free, IInv, TypeOK
<1>6. CASE CutoverDies
  BY <1>6, NothingMoved DEF CutoverDies, IInv, TypeOK
<1>7. CASE Cutover \/ Rollback \/ Cleanup
  BY <1>7, CutoverStep, RollbackStep, CleanupStep
<1>8. CASE UNCHANGED vars
  BY <1>8, NothingMoved DEF vars, IInv, TypeOK
<1> QED BY <1>1, <1>2, <1>3, <1>4, <1>5, <1>6, <1>7, <1>8 DEF Next

LEMMA Invariance == Spec => []IInv
BY InitIInv, NextIInv, PTL DEF Spec

-----------------------------------------------------------------------------
(* The tables, the runs and the batches of copies are what the code takes  *)
(* them for, for every number of them.                                     *)
THEOREM TypeCorrect == Spec => []TypeOK
<1>1. IInv => TypeOK
  BY DEF IInv
<1> QED BY <1>1, Invariance, PTL

(* cutover needs a passed validation, and what that found is still true    *)
(* when the tables are renamed, except of bars written since it began:     *)
(* validate compares in several selects, marks the run in one more         *)
(* statement, and keeps no writer out.                                     *)
THEOREM ValidationHolds == Spec => []ValidatedIsCurrent
<1>1. IInv => ValidatedIsCurrent
  BY DEF IInv, Current, ValidatedIsCurrent
<1> QED BY <1>1, Invariance, PTL

(* Exactly the run that cut over can roll back or clean up.                *)
THEOREM OneWayBack == Spec => []OneCanRollBack
<1>1. IInv => OneCanRollBack
  BY DEF IInv, Tables
<1> QED BY <1>1, Invariance, PTL

(* After cleanup every command of the script refuses or changes nothing.   *)
THEOREM CleanupIsFinal == Spec => CleanedIsFinal
<1>1. ASSUME IInv, [Next]_vars, Cleaned
      PROVE  UNCHANGED <<compact, shadow, legacy, phase>> /\ (WriteBar \/ UNCHANGED source)
  <2>1. compact /\ shadow = NoTable /\ legacy = NoTable
    BY <1>1 DEF IInv, Tables
  <2>2. phase[run] # "validated" /\ ~cutting /\ check = "none"
    BY <1>1, <2>1 DEF IInv, Current, Validating
  <2>3. CASE WriteBar \/ UseRun
    BY <2>3 DEF WriteBar, UseRun, tables, state
  <2>4. ~Prepare /\ ~BeginCutover /\ ~Cutover /\ ~Rollback /\ ~Cleanup
    BY <2>1, <2>2 DEF Prepare, BeginCutover, Cutover, Rollback, Cleanup
  <2>5. /\ ~EndCopy /\ ~Repair /\ ~CutoverDies
        /\ ~BeginValidate /\ ~Compare /\ ~EndValidate /\ ~ValidateDies
    BY <2>1, <2>2 DEF EndCopy, Repair, CutoverDies, BeginValidate, Compare, EndValidate,
                      ValidateDies, Check
  <2>6. ASSUME NEW c \in Copies, ReadBatch(c) \/ CopyDies(c)
        PROVE  UNCHANGED <<compact, shadow, legacy, phase, source>>
    BY <2>6 DEF ReadBatch, CopyDies, tables, state
  <2>7. \A c \in Copies : ~InsertBatch(c)
    BY <2>1 DEF InsertBatch
  <2>8. CASE UNCHANGED vars
    BY <2>8 DEF vars, tables, state
  <2> QED BY <1>1, <2>3, <2>4, <2>5, <2>6, <2>7, <2>8 DEF Next
<1>2. IInv /\ [Next]_vars =>
        [Cleaned => /\ UNCHANGED <<compact, shadow, legacy, phase>>
                    /\ WriteBar \/ UNCHANGED source]_vars
  BY <1>1
<1> QED BY <1>2, Invariance, PTL DEF Spec, CleanedIsFinal, Cleaned

(* The migration keeps the promise of PublishedBars: each of its steps is  *)
(* one of that specification's, or changes nothing the application sees.   *)
THEOREM Refinement == Spec => PublishedSpec
<1>1. Init => Published!Init
  BY DEF Init, Published!Init, Rows, Published!Rows
<1>2. ASSUME IInv, [Next]_vars
      PROVE  [Published!Next]_(Published!vars)
  <2> USE DEF Published!vars
  <2>1. CASE WriteBar
    <3>1. \A k \in Keys : Written[k] \subseteq Bars
      BY ConstantAssumption
    <3> QED BY <2>1, <3>1 DEF WriteBar, Published!Write, Published!Next
  <2>2. CASE Prepare \/ EndCopy \/ Repair \/ BeginCutover \/ CutoverDies
    BY <2>2 DEF Prepare, EndCopy, Repair, BeginCutover, CutoverDies, tables, history
  <2>3. ASSUME NEW c \in Copies, ReadBatch(c) \/ InsertBatch(c) \/ CopyDies(c)
        PROVE  UNCHANGED <<source, legacy, compared, vouched>>
    BY <2>3 DEF ReadBatch, InsertBatch, CopyDies, tables, history
  <2>4. CASE UseRun \/ Compare \/ ValidateDies
    <3>1. /\ UNCHANGED <<source, legacy>>
          /\ compared' \in {compared, {}} /\ vouched' \in {vouched, {}}
      BY <2>4 DEF UseRun, Compare, ValidateDies, tables
    <3> QED BY <3>1 DEF Published!Forget, Published!Next
  <2>5. CASE BeginValidate
    BY <2>5 DEF BeginValidate, tables, Published!Begin, Published!Next
  <2>6. CASE EndValidate
    <3>1. CASE vouched' = compared
      BY <2>6, <3>1 DEF EndValidate, tables, Published!Pass, Published!Next
    <3>2. CASE vouched' = {}
      BY <2>6, <3>2 DEF EndValidate, tables, Published!Forget, Published!Next
    <3> QED BY <2>6, <3>1, <3>2 DEF EndValidate
  <2>7. CASE Cutover
    <3>1. cutting /\ \A k \in vouched : shadow[k] = source[k]
      BY <1>2, <2>7 DEF Cutover, IInv, Current
    <3>2. shadow # NoTable /\ shadow \in Rows /\ legacy = NoTable
      BY <1>2, <3>1, CutoverFinds
    <3> QED BY <2>7, <3>1, <3>2
            DEF Cutover, Rows, Published!Rows, Published!Cutover, Published!Next
  <2>8. CASE Rollback
    BY <2>8 DEF Rollback, Published!Rollback, Published!Next
  <2>9. CASE Cleanup
    BY <2>9 DEF Cleanup, history, Published!Cleanup, Published!Next
  <2>10. CASE UNCHANGED vars
    BY <2>10 DEF vars, tables, history
  <2> QED BY <1>2, <2>1, <2>2, <2>3, <2>4, <2>5, <2>6, <2>7, <2>8, <2>9, <2>10 DEF Next
<1> QED BY <1>1, <1>2, Invariance, PTL DEF Spec, PublishedSpec, Published!Spec
=============================================================================
