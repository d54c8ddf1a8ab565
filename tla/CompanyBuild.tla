----------------------------- MODULE CompanyBuild -----------------------------
(***************************************************************************)
(* The batch build of the company database (app/services.py,               *)
(* build_company_database_batch) and its replay from a recorded run        *)
(* (retry_company_database_build_run): issuers in batches, each batch      *)
(* through the layers (profiles, events, relationships, workflow), each    *)
(* layer audited and committed, then a record of the run.                  *)
(*                                                                         *)
(* One request at a time holds the dispatch lock.  Any of its many commits *)
(* may fail, a layer may raise, the process may die and reload its memory. *)
(* What a commit writes is abstracted from RecordCommit: the dirty         *)
(* collections, or everything if none is dirty.                            *)
(***************************************************************************)
EXTENDS Naturals, FiniteSets

CONSTANTS
    Issuer,
    Layer,          \* what is built of an issuer, one collection each
    Profile,        \* the layer that no option leaves out
    Order,          \* [Layer -> Nat], the order in which a batch builds them
    SelfNamed,      \* layers whose audit event names their collection
    Options,        \* sets of layers a request may ask for
    PerRecord,      \* layers whose records are audited one by one
    Material,       \* what the local records give to build
    Claims,         \* completed and skipped issuers a request may list itself
    BatchSize,
    RunId,
    NoRun

RunLog == "company_database_build_runs"

Items == Issuer \X Layer

(* Of every issuer there is a profile, and what a layer makes one by one;  *)
(* of the other layers there may be nothing.                               *)
ASSUME LayerAssumption ==
    /\ Profile \in Layer
    /\ Order \in [Layer -> Nat]
    /\ \A l \in Layer \ {Profile} : Order[Profile] < Order[l]
    /\ SelfNamed \subseteq Layer /\ PerRecord \subseteq Layer
    /\ RunLog \notin Layer
    /\ Options \subseteq {L \in SUBSET Layer : Profile \in L}
    /\ Material \subseteq Items
    /\ \A x \in Items : x[2] = Profile \/ x[2] \in PerRecord => x \in Material
    /\ Claims \subseteq [completed : SUBSET Issuer, skipped : SUBSET Issuer]
ASSUME BatchSizeAssumption == BatchSize \in Nat \ {0}

VARIABLES
    mem, rows,          \* what is built, in the service and in the database
    runs, stored,       \* company_database_build_runs, there and there
    dirty,              \* _dirty_collections
    build,              \* the request in progress
    (***********************************************************************)
    (* History                                                             *)
    (***********************************************************************)
    planned,            \* issuers that a dry run counted as completed
    claimed             \* issuers that a request listed as done itself

data == <<mem, rows, runs, stored, dirty>>
history == <<planned, claimed>>
vars == <<data, build, history>>

Collection == Layer \cup {RunLog}

Run == [status : {"executed", "dry_run", "partial", "failed"}, execute : BOOLEAN,
        layers : Options, targets : SUBSET Issuer, batched : SUBSET Issuer,
        completed : SUBSET Issuer, skipped : SUBSET Issuer]

(* inherited is the completed_issuer_ids the request starts with, batched  *)
(* what its own batches completed; left are the layers the current batch   *)
(* still lacks, pending the issuers its first layer still lacks; found is  *)
(* what is new that this layer found of the others.                        *)
Build == [at : {"idle", "batch", "store", "record", "answer", "raising", "recording"},
          id : RunId \cup {NoRun}, execute : BOOLEAN, record : BOOLEAN,
          layers : SUBSET Layer, targets : SUBSET Issuer,
          inherited : SUBSET Issuer, skipped : SUBSET Issuer, batched : SUBSET Issuer,
          batch : SUBSET Issuer, left : SUBSET Layer, pending : SUBSET Issuer,
          found : SUBSET Items]

Idle == [at |-> "idle", id |-> NoRun, execute |-> FALSE, record |-> FALSE,
         layers |-> {}, targets |-> {}, inherited |-> {}, skipped |-> {}, batched |-> {},
         batch |-> {}, left |-> {}, pending |-> {}, found |-> {}]

TypeOK ==
    /\ mem \subseteq Items /\ rows \subseteq Items
    /\ runs \in [RunId -> Run \cup {NoRun}]
    /\ stored \in [RunId -> Run \cup {NoRun}]
    /\ dirty \subseteq Collection
    /\ build \in Build
    /\ planned \subseteq Issuer /\ claimed \subseteq Issuer

Init ==
    /\ mem = {} /\ rows = {}
    /\ runs = [r \in RunId |-> NoRun] /\ stored = [r \in RunId |-> NoRun]
    /\ dirty = {}
    /\ build = Idle
    /\ planned = {} /\ claimed = {}

-----------------------------------------------------------------------------
(* PostgreSQLStore.commit *)

Target(d) == IF d = {} THEN Collection ELSE d
Saved(m, d) == rows \cup {x \in m : x[2] \in Target(d)}
SavedRuns(rs, d) == IF RunLog \in Target(d) THEN rs ELSE stored

(* With the dirty set d, what is built m and the run records rs. *)
CommitOK(m, rs, d) ==
    rows' = Saved(m, d) /\ stored' = SavedRuns(rs, d) /\ dirty' = {}

CommitFailed(d) == dirty' = d /\ UNCHANGED <<rows, stored>>

(* _audit of a type that names no collection ("company_database"). *)
AuditOK == CommitOK(mem, runs, dirty)
AuditFailed == CommitFailed(dirty)

Goto(at) == build' = [build EXCEPT !.at = at]

-----------------------------------------------------------------------------
(* The start of a build: the audit of the coverage before it is the only   *)
(* step outside the try block.                                             *)
Begin(id, execute, record, layers, targets, inherited, skipped) ==
    /\ UNCHANGED <<mem, runs, planned>>
    /\ \/ /\ AuditOK
          /\ build' = [Idle EXCEPT !.at = "batch", !.id = id, !.execute = execute,
                           !.record = execute \/ record, !.layers = layers,
                           !.targets = targets, !.inherited = inherited,
                           !.skipped = skipped]
       \/ AuditFailed /\ UNCHANGED build

(* A request to build.  It may come with completed_issuer_ids and          *)
(* skipped_issuer_ids of its own, which nothing compares with what is      *)
(* built.                                                                  *)
BuildBatch(id, execute, record, layers, targets, claim) ==
    /\ build.at = "idle"
    /\ Begin(id, execute, record, layers, targets, claim.completed, claim.skipped)
    /\ claimed' = claimed \cup claim.completed \cup claim.skipped

(* Seeded fault: the completed issuers are to be done again, the others    *)
(* are skipped.                                                            *)
FaultRetry(s, mode, id, execute, record, layers) ==
    /\ build.at = "idle" /\ runs[s] # NoRun
    /\ LET completed == runs[s].completed
           skipped == IF mode = "remaining" THEN runs[s].targets \ completed ELSE {}
       IN Begin(id, execute, record, layers, runs[s].targets \ skipped,
                IF mode = "remaining" THEN completed \cup skipped ELSE {}, skipped)
    /\ UNCHANGED claimed

(* The audit of a retry names the collection of the runs. *)
RetryAudited ==
    \/ CommitOK(mem, runs, dirty \cup {RunLog})
    \/ CommitFailed(dirty \cup {RunLog})

(* A request to retry run s, or to build with resume_run_id s.  Mode       *)
(* "remaining" (the default after a failed or partial run) skips what s    *)
(* lists as completed.  execute and the options are those of the request,  *)
(* whatever s did; lists of its own are left out.                          *)
Retry(s, mode, id, execute, record, layers) ==
    /\ build.at = "idle" /\ runs[s] # NoRun
    /\ LET completed == runs[s].completed \cup runs[s].batched
           skipped == IF mode = "remaining" THEN runs[s].targets \cap completed ELSE {}
       IN IF runs[s].targets \ skipped = {}
          THEN /\ RetryAudited                 \* nothing_to_retry
               /\ UNCHANGED <<mem, runs, build, planned>>
          ELSE Begin(id, execute, record, layers, runs[s].targets \ skipped,
                     IF mode = "remaining" THEN completed ELSE {}, skipped)
    /\ UNCHANGED claimed

-----------------------------------------------------------------------------
(* Seeded fault: the batch is listed before it is built. *)
FaultBeginBatch(B) ==
    /\ build.at = "batch"
    /\ B # {} /\ B \subseteq build.targets \ build.batched
    /\ Cardinality(B) <= BatchSize
    /\ build' = [build EXCEPT !.at = "store", !.batch = B, !.left = build.layers,
                              !.pending = B, !.batched = @ \cup B]
    /\ UNCHANGED <<data, history>>

(* The next batch. *)
BeginBatch(B) ==
    /\ build.at = "batch"
    /\ LET todo == build.targets \ build.batched
       IN /\ B # {} /\ B \subseteq todo
          /\ Cardinality(B) = BatchSize \/ (B = todo /\ Cardinality(B) < BatchSize)
    /\ build' = [build EXCEPT !.at = "store", !.batch = B, !.left = build.layers,
                              !.pending = B]
    /\ UNCHANGED <<data, history>>

Current(l) ==
    /\ build.at = "store" /\ l \in build.left
    /\ \A m \in build.left \ {l} : Order[l] < Order[m]

(* What layer l finds of issuer i that is not there yet. *)
Found(l, i) == {<<i, l>>} \cap (Material \ mem)

(* A layer stores what it finds, unless it is a dry run.  Records that are *)
(* made by an operation of their own are audited and committed at once.    *)
Store(l, i) ==
    /\ Current(l) /\ i \in build.pending
    /\ mem' = IF build.execute THEN mem \cup Found(l, i) ELSE mem
    /\ LET done == [build EXCEPT !.pending = @ \ {i}, !.found = @ \cup Found(l, i)]
       IN IF build.execute /\ l \in PerRecord /\ Found(l, i) # {}
          THEN \/ CommitOK(mem', runs, dirty \cup {l}) /\ build' = done
               \/ CommitFailed(dirty \cup {l}) /\ Goto("raising")
          ELSE build' = done /\ UNCHANGED <<rows, stored, dirty>>
    /\ UNCHANGED <<runs, history>>

(* A layer raises. *)
Raise ==
    /\ build.at = "store"
    /\ Goto("raising")
    /\ UNCHANGED <<data, history>>

AuditMarks(l) == dirty \cup ({l} \cap SelfNamed)

(* _mark_company_database_dirty after the profiles, mark_dirty_for_resource *)
(* after the others.                                                       *)
Marks(l) == IF l = Profile THEN Layer ELSE {l}

(* The conditions at the ends of build_company_database, _events,          *)
(* _relationships and _workflow.  Profiles are saved anew, and records of  *)
(* a layer that makes them one by one are brought up to date; of the       *)
(* others only what is new counts.                                         *)
SecondCommit(l) == build.execute /\ (l = Profile \/ l \in PerRecord \/ build.found # {})

(* The layer is done; after the last one the batch is completed, also in a *)
(* dry run.                                                                *)
Advance(l) ==
    IF build.left = {l}
    THEN /\ build' = [build EXCEPT !.at = "batch", !.batched = @ \cup build.batch,
                                   !.batch = {}, !.left = {}, !.pending = {},
                                   !.found = {}]
         /\ planned' = IF build.execute THEN planned ELSE planned \cup build.batch
    ELSE /\ build' = [build EXCEPT !.left = @ \ {l}, !.pending = build.batch,
                                   !.found = {}]
         /\ UNCHANGED planned

(* The end of a layer: the audit commits, then, if there is a reason to,   *)
(* the collections are marked and committed.                               *)
CommitLayer(l) ==
    /\ Current(l) /\ build.pending = {}
    /\ \/ /\ dirty' = {}
          /\ stored' = SavedRuns(runs, AuditMarks(l))
          /\ rows' = Saved(mem, AuditMarks(l))
                     \cup (IF SecondCommit(l) THEN Saved(mem, Marks(l)) ELSE {})
          /\ Advance(l)
       \/ CommitFailed(AuditMarks(l)) /\ Goto("raising") /\ UNCHANGED planned
       \/ /\ SecondCommit(l)
          /\ rows' = Saved(mem, AuditMarks(l))
          /\ stored' = SavedRuns(runs, AuditMarks(l))
          /\ dirty' = Marks(l)
          /\ Goto("raising") /\ UNCHANGED planned
    /\ UNCHANGED <<mem, runs, claimed>>

-----------------------------------------------------------------------------
(* Seeded fault: the range of the batches ends one issuer short. *)
FaultEndBatches ==
    /\ build.at = "batch"
    /\ Cardinality(build.targets \ build.batched) <= 1
    /\ \/ AuditOK /\ Goto(IF build.record THEN "record" ELSE "answer")
       \/ AuditFailed /\ Goto("raising")
    /\ UNCHANGED <<mem, runs, history>>

(* All batches are done: the audit of the coverage is inside the try. *)
EndBatches ==
    /\ build.at = "batch" /\ build.targets \subseteq build.batched
    /\ \/ AuditOK /\ Goto(IF build.record THEN "record" ELSE "answer")
       \/ AuditFailed /\ Goto("raising")
    /\ UNCHANGED <<mem, runs, history>>

RunRecord(status) ==
    [status |-> status, execute |-> build.execute, layers |-> build.layers,
     targets |-> build.targets, batched |-> build.batched,
     completed |-> build.inherited \cup build.batched, skipped |-> build.skipped]

(* _record_company_database_build_run: the record replaces one of the same *)
(* id.                                                                     *)
Recorded(status) == [runs EXCEPT ![build.id] = RunRecord(status)]

RecordRun ==
    /\ build.at = "record"
    /\ runs' = Recorded(IF build.execute THEN "executed" ELSE "dry_run")
    /\ \/ CommitOK(mem, runs', dirty \cup {RunLog}) /\ Goto("answer")
       \/ CommitFailed(dirty \cup {RunLog}) /\ build' = Idle
    /\ UNCHANGED <<mem, history>>

(* The audit of the build, that of the retry, and the commit at the        *)
(* boundary of the request, before it is answered.  When that of the retry *)
(* fails, the build's has written everything already.                      *)
Answer ==
    /\ build.at = "answer"
    /\ \/ CommitOK(mem, runs, {})
       \/ CommitFailed(dirty)
       \/ rows' = Saved(mem, {}) /\ stored' = runs /\ dirty' = {RunLog}
    /\ build' = Idle
    /\ UNCHANGED <<mem, runs, history>>

(* The except block: the coverage once more, whose own failure is ignored, *)
(* then the record of the failed run, and an audit.                        *)
CoverAfterFailure ==
    /\ build.at = "raising"
    /\ AuditOK \/ AuditFailed
    /\ Goto("recording")
    /\ UNCHANGED <<mem, runs, history>>

(* Seeded fault: the record of a failure says nothing of its batches. *)
FaultFailureStatus(batched) == "failed"

FailureStatus(batched) == IF batched # {} THEN "partial" ELSE "failed"

RecordFailure ==
    /\ build.at = "recording"
    /\ build' = Idle
    /\ runs' = IF build.record THEN Recorded(FailureStatus(build.batched)) ELSE runs
    /\ LET d == IF build.record THEN dirty \cup {RunLog} ELSE dirty
       IN \/ CommitFailed(d)
          \/ CommitOK(mem, runs', d)
          \/ build.record /\ CommitOK(mem, runs', {})
    /\ UNCHANGED <<mem, history>>

-----------------------------------------------------------------------------
(* Another request: an audit of it commits, or commit_all at its end. *)
OtherRequest ==
    /\ build.at = "idle"
    /\ AuditOK \/ CommitOK(mem, runs, {})
    /\ UNCHANGED <<mem, runs, build, history>>

(* The process dies, and a new one loads the database. *)
Restart ==
    /\ mem' = rows /\ runs' = stored
    /\ dirty' = {} /\ build' = Idle
    /\ UNCHANGED <<rows, stored, history>>

Next ==
    \/ \E id \in RunId, execute, record \in BOOLEAN, L \in Options,
          T \in SUBSET Issuer \ {{}}, claim \in Claims :
             BuildBatch(id, execute, record, L, T, claim)
    \/ \E s, id \in RunId, mode \in {"all", "remaining"}, execute, record \in BOOLEAN,
          L \in Options : Retry(s, mode, id, execute, record, L)
    \/ \E B \in SUBSET Issuer : BeginBatch(B)
    \/ \E l \in Layer, i \in Issuer : Store(l, i)
    \/ Raise
    \/ \E l \in Layer : CommitLayer(l)
    \/ EndBatches
    \/ RecordRun
    \/ Answer
    \/ CoverAfterFailure
    \/ RecordFailure
    \/ OtherRequest
    \/ Restart

Spec == Init /\ [][Next]_vars
-----------------------------------------------------------------------------
(***************************************************************************)
(* Properties                                                              *)
(***************************************************************************)

(* A run record never attests what a crash can take back: of every issuer  *)
(* in a batch of an executing run, in memory or reloaded, all there is for *)
(* the layers the run was asked for is in the database, also when commits  *)
(* before it failed and left the dirty set half full.                      *)
BatchedIsDurable ==
    \A r \in ({runs[id] : id \in RunId} \cup {stored[id] : id \in RunId}) \ {NoRun} :
        r.execute => (r.batched \X r.layers) \cap Material \subseteq rows

(* "Only the companies that are not finished are processed"                *)
(* (docs/api-contracts.md, resume_run_id): whatever a chain of failed,     *)
(* partial and resumed runs skips or lists as completed has its profile in *)
(* the database, with two exceptions.  A dry run lists what it went        *)
(* through, and an executing resume skips it although nothing was built;   *)
(* and a request may itself list issuers as completed or skipped, which    *)
(* are recorded, and skipped by later resumes, as they come.               *)
CompletedIsBuilt ==
    \A id \in RunId : runs[id] # NoRun =>
        \A i \in runs[id].completed \cup runs[id].skipped :
            <<i, Profile>> \in rows \/ i \in planned \/ i \in claimed

(* What docs/data-structure-design.md:1121-1122 says of the two lists: the *)
(* runs completed them.  Not so of issuers that a request lists itself.    *)
ListedByRuns ==
    \A id \in RunId : runs[id] # NoRun =>
        \A i \in runs[id].completed \cup runs[id].skipped :
            <<i, Profile>> \in rows \/ i \in planned

(* What the record says of the outcome is what its batches did: executed   *)
(* means that no target was left out, partial that one was completed and   *)
(* failed that none was; a later run finds its remaining issuers by this.  *)
StatusTellsWhatRan ==
    \A id \in RunId : LET r == runs[id] IN r # NoRun =>
        /\ r.status = "executed" => r.execute /\ r.targets = r.batched
        /\ r.status = "dry_run" => ~r.execute /\ r.targets = r.batched
        /\ r.status = "partial" => r.batched # {}
        /\ r.status = "failed" => r.batched = {}

(* When an executing build comes to be answered, everything it was asked   *)
(* for and the record of the run are in the database, whatever failed      *)
(* before it: a death of the process costs nothing of what 200 promises.   *)
AnsweredIsDurable ==
    build.at = "answer" /\ build.execute =>
        /\ (build.targets \X build.layers) \cap Material \subseteq rows
        /\ stored[build.id] = RunRecord("executed")
=============================================================================
