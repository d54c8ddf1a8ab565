--------------------------- MODULE ObservationStore ---------------------------
(***************************************************************************)
(* The point-in-time observation repository of dynamic allocation          *)
(* (data/repository.py, SQLiteObservationRepository) and the refreshes     *)
(* that fill it (data/public_pipeline.py): the strict daily run writes     *)
(* with upsert_with_revisions, the backfill with upsert.  They are         *)
(* processes of their own and may overlap.                                 *)
(*                                                                         *)
(* The connection is in sqlite3's default mode: a SELECT runs on its own   *)
(* until the first INSERT of the batch begins a transaction, which takes   *)
(* the write lock and keeps it to the end of the batch.  So what the first *)
(* INSERT rests on was read before the lock.                               *)
(*                                                                         *)
(* One series.  A row's release_date, available_at and vintage_date are    *)
(* all the day of the refresh's as_of; its observation_id is a hash of the *)
(* series, date, value and vintage, so the table's UNIQUE constraint says  *)
(* that no value comes twice for the same date and vintage.                *)
(***************************************************************************)
EXTENDS Naturals, FiniteSets

CONSTANTS
    Process,        \* refreshes that may run at the same time
    Obs,            \* observation dates
    Day,            \* days a refresh may be for (its as_of); a set of numbers
    Value,          \* values the source reports
    None            \* nobody holds the write lock; no row to insert

ASSUME DayAssumption == Day \subseteq Nat /\ Day # {}

ASSUME NoneAssumption == None \notin Process

VARIABLES
    rows,           \* the committed rows of economic_observations
    lock,           \* holder of SQLite's write lock, or None
    job             \* what each process is doing

vars == <<rows, lock, job>>

Row == [obs : Obs, vintage : Day, seq : Nat, value : Value]

(* A refresh: strict is upsert, otherwise it is upsert_with_revisions.     *)
(* inserted are its rows that are not committed yet.                       *)
Job == [at : {"idle", "write", "insert"}, strict : BOOLEAN, day : Day,
        batch : UNION {[S -> Value] : S \in SUBSET Obs}, todo : SUBSET Obs,
        candidate : Row \cup {None}, inserted : SUBSET Row, conflicts : BOOLEAN]

Idle == [at |-> "idle", strict |-> FALSE, day |-> CHOOSE d \in Day : TRUE,
         batch |-> << >>, todo |-> {}, candidate |-> None, inserted |-> {},
         conflicts |-> FALSE]

Init ==
    /\ rows = {}
    /\ lock = None
    /\ job = [p \in Process |-> Idle]

Free(p) == lock' = (IF lock = p THEN None ELSE lock)

-----------------------------------------------------------------------------
(* The day is taken from as_of, or from the clock, before the sources are  *)
(* asked: it may be a day before the one they answer on.  Some may not     *)
(* answer: ingest_strict then writes nothing, ingest writes what there is. *)
Collect(p) ==
    /\ job[p].at = "idle"
    /\ \E d \in Day, strict \in BOOLEAN, S \in SUBSET Obs : \E values \in [S -> Value] :
          /\ strict \/ S = Obs
          /\ job' = [job EXCEPT ![p].at = "write", ![p].day = d, ![p].strict = strict,
                                ![p].batch = values, ![p].todo = S]
    /\ UNCHANGED <<rows, lock>>

(* What a SELECT of p returns: outside a transaction the committed rows,   *)
(* in it also its own.                                                     *)
Existing(p, o) ==
    {r \in rows \cup job[p].inserted : r.obs = o /\ r.vintage = job[p].day}

(* revision_seq of the row: max + 1 of what is there. *)
NextSeq(existing) ==
    IF existing = {} THEN 0
    ELSE 1 + (CHOOSE n \in {r.seq : r \in existing} : \A r \in existing : r.seq <= n)

(* The SELECT for the next row of the batch.  upsert_with_revisions skips  *)
(* the row if any revision equals it, and else is to insert one more;      *)
(* upsert looks at revision 0 alone and counts a different one as conflict. *)
Select(p, o) ==
    /\ job[p].at = "write" /\ o \in job[p].todo
    /\ LET existing == IF job[p].strict THEN {r \in Existing(p, o) : r.seq = 0} ELSE Existing(p, o)
           row == [obs |-> o, vintage |-> job[p].day, seq |-> NextSeq(existing),
                   value |-> job[p].batch[o]]
           same == \E r \in existing : r.value = row.value
       IN job' = IF same \/ (job[p].strict /\ existing # {})
                 THEN [job EXCEPT ![p].todo = @ \ {o}, ![p].conflicts = @ \/ ~same]
                 ELSE [job EXCEPT ![p].at = "insert", ![p].candidate = row]
    /\ UNCHANGED <<rows, lock>>

(* Seeded fault: the table has no constraints. *)
FaultClash(p, row) == FALSE

(* The PRIMARY KEY or the UNIQUE observation_id of another row. *)
Clash(p, row) ==
    \E r \in rows \cup job[p].inserted :
        /\ r.obs = row.obs /\ r.vintage = row.vintage
        /\ r.seq = row.seq \/ r.value = row.value

(* Seeded fault: a row the table refuses is counted as a duplicate. *)
FaultInsert(p) ==
    /\ job[p].at = "insert" /\ lock \in {None, p}
    /\ LET row == job[p].candidate
       IN job' = [job EXCEPT ![p].at = "write", ![p].todo = @ \ {row.obs},
                             ![p].candidate = None,
                             ![p].inserted = IF Clash(p, row) THEN @ ELSE @ \cup {row}]
    /\ lock' = p
    /\ UNCHANGED rows

(* INSERT, with the write lock (BEGIN comes before the first one).  A row  *)
(* the table refuses is a conflict to upsert_with_revisions and an         *)
(* IntegrityError, which rolls the batch back, to upsert.                  *)
Insert(p) ==
    /\ job[p].at = "insert" /\ lock \in {None, p}
    /\ LET row == job[p].candidate
       IN IF Clash(p, row) /\ job[p].strict
          THEN job' = [job EXCEPT ![p] = Idle] /\ lock' = None
          ELSE /\ job' = [job EXCEPT ![p].at = "write", ![p].todo = @ \ {row.obs},
                                     ![p].candidate = None,
                                     ![p].inserted = IF Clash(p, row) THEN @ ELSE @ \cup {row},
                                     ![p].conflicts = @ \/ Clash(p, row)]
               /\ lock' = p
    /\ UNCHANGED rows

(* The end of the batch: its rows are committed and the refresh answers    *)
(* with its counts.                                                        *)
Commit(p) ==
    /\ job[p].at = "write" /\ job[p].todo = {}
    /\ rows' = rows \cup job[p].inserted
    /\ job' = [job EXCEPT ![p] = Idle]
    /\ Free(p)

(* The lock is not to be had in time, the commit fails or the process is   *)
(* killed: SQLite rolls the batch back.                                    *)
Abort(p) ==
    /\ job[p].at # "idle"
    /\ job' = [job EXCEPT ![p] = Idle]
    /\ Free(p)
    /\ UNCHANGED rows

Next ==
    \E p \in Process :
        \/ Collect(p)
        \/ \E o \in Obs : Select(p, o)
        \/ Insert(p)
        \/ Commit(p)
        \/ Abort(p)

Spec == Init /\ [][Next]_vars

-----------------------------------------------------------------------------
(* Seeded fault: as_of does not bound the rows. *)
FaultVisible(o, d) == {r \in rows : r.obs = o}

Visible(o, d) == {r \in rows : r.obs = o /\ r.vintage <= d}

(* history_available: for an as_of on day d, the row of the last vintage   *)
(* and of its last revision (available_at and vintage_date are the same    *)
(* day); the empty set if there is none.                                   *)
AsOf(o, d) ==
    {r \in Visible(o, d) : \A q \in Visible(o, d) :
        q.vintage < r.vintage \/ (q.vintage = r.vintage /\ q.seq <= r.seq)}

(***************************************************************************)
(* Properties                                                              *)
(***************************************************************************)
TypeOK ==
    /\ rows \subseteq Row
    /\ lock \in Process \cup {None}
    /\ job \in [Process -> Job]

(* The revisions of a date and vintage, in the order of revision_seq. *)
Revisions(o, d) ==
    LET here == {r \in rows : r.obs = o /\ r.vintage = d}
    IN [i \in {r.seq + 1 : r \in here} |-> (CHOOSE r \in here : r.seq + 1 = i).value]

Log == INSTANCE VintageLog WITH log <- [x \in Obs \X Day |-> Revisions(x[1], x[2])]

(* Refreshes that overlap, find nothing or something stale, and fail half  *)
(* way still leave for every vintage an append-only log of distinct        *)
(* values, numbered without gaps, to which a batch is added as a whole.    *)
LogSpec == Log!Spec

(* A refresh that reports no conflict has all its values in the store,     *)
(* though another may have written the same dates between its SELECT and   *)
(* its INSERT (the daily run decides only if conflicts = 0).               *)
AnsweredIsStored ==
    [][\A p \in Process : Commit(p) /\ ~job[p].conflicts =>
          \A o \in DOMAIN job[p].batch :
              \E r \in rows' : /\ r.obs = o /\ r.vintage = job[p].day
                               /\ r.value = job[p].batch[o]]_vars

(* What an as_of query answers changes only by a refresh that is itself    *)
(* for that day or for an earlier one: a revision never reaches back       *)
(* before its own day.                                                     *)
OlderAnswersKept ==
    [][rows' # rows => \A o \in Obs, d \in Day : AsOf(o, d)' # AsOf(o, d) =>
          \E p \in Process : Commit(p) /\ job[p].day <= d]_vars

(* "Append same-vintage source changes as immutable revisions"             *)
(* (data/repository.py, upsert_with_revisions): once a strict refresh with *)
(* nobody beside it has answered without conflict, the query of its day    *)
(* shows the values it collected.                                          *)
RefreshIsShown ==
    [][\A p \in Process : Commit(p) /\ ~job[p].conflicts /\ ~job[p].strict =>
          \A o \in DOMAIN job[p].batch :
              \E r \in AsOf(o, job[p].day)' : r.value = job[p].batch[o]]_vars
=============================================================================
