-------------------------- MODULE CompanyBuildProofs --------------------------
(***************************************************************************)
(* Proofs about CompanyBuild, for any set of issuers and layers, any size  *)
(* of the batches and any number of recorded runs.                         *)
(***************************************************************************)
EXTENDS CompanyBuild, TLAPS

-----------------------------------------------------------------------------
(***************************************************************************)
(* Type correctness                                                        *)
(***************************************************************************)

(* A build knows its run and its layers until it is over. *)
Asked == build.at # "idle" => build.id \in RunId /\ build.layers \in Options

LEMMA InitType == Init => TypeOK /\ Asked
BY DEF Init, TypeOK, Asked, Idle, Build

LEMMA CommitTypes ==
    ASSUME TypeOK, NEW m \in SUBSET Items, NEW rs \in [RunId -> Run \cup {NoRun}],
           NEW d \in SUBSET Collection
    PROVE  /\ Saved(m, d) \subseteq Items
           /\ SavedRuns(rs, d) \in [RunId -> Run \cup {NoRun}]
           /\ CommitOK(m, rs, d) => /\ rows' \subseteq Items
                                    /\ stored' \in [RunId -> Run \cup {NoRun}]
                                    /\ dirty' \subseteq Collection
           /\ CommitFailed(d) => /\ rows' \subseteq Items
                                 /\ stored' \in [RunId -> Run \cup {NoRun}]
                                 /\ dirty' \subseteq Collection
<1>1. Saved(m, d) \subseteq Items
  BY DEF TypeOK, Saved
<1>2. SavedRuns(rs, d) \in [RunId -> Run \cup {NoRun}]
  BY DEF TypeOK, SavedRuns
<1>3. CommitFailed(d) => /\ rows' \subseteq Items
                         /\ stored' \in [RunId -> Run \cup {NoRun}]
                         /\ dirty' \subseteq Collection
  BY DEF TypeOK, CommitFailed
<1> QED
  BY <1>1, <1>2, <1>3 DEF CommitOK

LEMMA AuditTypes ==
    ASSUME TypeOK, AuditOK \/ AuditFailed
    PROVE  /\ rows' \subseteq Items
           /\ stored' \in [RunId -> Run \cup {NoRun}]
           /\ dirty' \subseteq Collection
<1>1. mem \in SUBSET Items /\ runs \in [RunId -> Run \cup {NoRun}] /\ dirty \in SUBSET Collection
  BY DEF TypeOK
<1> QED
  BY <1>1, CommitTypes DEF AuditOK, AuditFailed

LEMMA GotoType ==
    ASSUME build \in Build,
           NEW at \in {"idle", "batch", "store", "record", "answer", "raising", "recording"},
           Goto(at)
    PROVE  build' \in Build
BY DEF Build, Goto

LEMMA IdleType == Idle \in Build
BY DEF Idle, Build

LEMMA MarksTypes ==
    ASSUME NEW l \in Layer, TypeOK
    PROVE  /\ AuditMarks(l) \in SUBSET Collection
           /\ Marks(l) \in SUBSET Collection
           /\ dirty \cup {l} \in SUBSET Collection
           /\ dirty \cup {RunLog} \in SUBSET Collection
BY DEF TypeOK, AuditMarks, Marks, Collection

(* A recorded run is a record of its type. *)
LEMMA RunOf ==
    ASSUME TypeOK, NEW s \in RunId, runs[s] # NoRun
    PROVE  runs[s] \in Run
BY DEF TypeOK

LEMMA BeginType ==
    ASSUME TypeOK, claimed' \subseteq Issuer, NEW id \in RunId, NEW execute \in BOOLEAN, NEW record \in BOOLEAN,
           NEW layers \in Options, NEW targets \in SUBSET Issuer,
           NEW inherited \in SUBSET Issuer, NEW skipped \in SUBSET Issuer,
           Begin(id, execute, record, layers, targets, inherited, skipped)
    PROVE  TypeOK'
<1>1. /\ rows' \subseteq Items
      /\ stored' \in [RunId -> Run \cup {NoRun}]
      /\ dirty' \subseteq Collection
  BY AuditTypes DEF Begin
<1>2. PICK r \in BOOLEAN : r = (execute \/ record)
  OBVIOUS
<1>3. build' \in Build
  <2>1. CASE UNCHANGED build
    BY <2>1 DEF TypeOK
  <2>2. CASE build' = [Idle EXCEPT !.at = "batch", !.id = id, !.execute = execute,
                           !.record = execute \/ record, !.layers = layers,
                           !.targets = targets, !.inherited = inherited,
                           !.skipped = skipped]
    <3>1. PICK b \in Build : b = Idle
      BY IdleType
    <3>2. r \in BOOLEAN /\ layers \in SUBSET Layer
      BY LayerAssumption
    <3>3. [b EXCEPT !.at = "batch", !.id = id, !.execute = execute, !.record = r,
                    !.layers = layers, !.targets = targets, !.inherited = inherited,
                    !.skipped = skipped] \in Build
      BY <3>2 DEF Build
    <3> QED
      BY <2>2, <1>2, <3>1, <3>3, Zenon
  <2> QED
    BY <2>1, <2>2 DEF Begin
<1> QED
  BY <1>1, <1>3 DEF Begin, TypeOK

LEMMA RetryType ==
    ASSUME TypeOK, NEW s \in RunId, NEW id \in RunId, NEW mode \in {"all", "remaining"},
           NEW execute \in BOOLEAN, NEW record \in BOOLEAN, NEW layers \in Options,
           Retry(s, mode, id, execute, record, layers)
    PROVE  TypeOK'
<1> DEFINE completed == runs[s].completed \cup runs[s].batched
           skipped == IF mode = "remaining" THEN runs[s].targets \cap completed ELSE {}
<1>1. runs[s] \in Run
  BY RunOf DEF Retry
<1>c. claimed' = claimed /\ claimed' \subseteq Issuer
  BY DEF Retry, TypeOK
<1>2. /\ completed \in SUBSET Issuer /\ skipped \in SUBSET Issuer
      /\ runs[s].targets \ skipped \in SUBSET Issuer
      /\ (IF mode = "remaining" THEN completed ELSE {}) \in SUBSET Issuer
  BY <1>1 DEF Run
<1> HIDE DEF completed, skipped
<1>3. \/ /\ RetryAudited
         /\ UNCHANGED <<mem, runs, build, planned>>
      \/ Begin(id, execute, record, layers, runs[s].targets \ skipped,
               IF mode = "remaining" THEN completed ELSE {}, skipped)
  BY DEF Retry, completed, skipped
<1>4. CASE UNCHANGED <<mem, runs, build, planned>> /\ RetryAudited
  <2>1. /\ mem \in SUBSET Items /\ runs \in [RunId -> Run \cup {NoRun}]
        /\ dirty \cup {RunLog} \in SUBSET Collection
    BY DEF TypeOK, Collection
  <2>2. /\ rows' \subseteq Items
        /\ stored' \in [RunId -> Run \cup {NoRun}]
        /\ dirty' \subseteq Collection
    BY <1>4, <2>1, CommitTypes DEF RetryAudited
  <2> QED
    BY <1>c, <1>4, <2>2 DEF TypeOK
<1>5. CASE Begin(id, execute, record, layers, runs[s].targets \ skipped,
                 IF mode = "remaining" THEN completed ELSE {}, skipped)
  BY <1>c, <1>5, <1>2, BeginType
<1> QED
  BY <1>3, <1>4, <1>5

(* Most steps leave what was asked alone; the others begin or end. *)
LEMMA AskedStays ==
    ASSUME Asked, build.at # "idle", build'.id = build.id, build'.layers = build.layers
    PROVE  Asked'
BY DEF Asked

LEMMA AskedAtFirst ==
    ASSUME Asked, NEW id \in RunId, NEW execute, NEW record, NEW layers \in Options,
           NEW targets, NEW inherited, NEW skipped,
           Begin(id, execute, record, layers, targets, inherited, skipped)
    PROVE  Asked'
<1>1. CASE UNCHANGED build
  BY <1>1 DEF Asked
<1>2. CASE build' = [Idle EXCEPT !.at = "batch", !.id = id, !.execute = execute,
                         !.record = execute \/ record, !.layers = layers,
                         !.targets = targets, !.inherited = inherited,
                         !.skipped = skipped]
  <2>1. build'.id = id /\ build'.layers = layers
    BY <1>2, Zenon DEF Idle
  <2> QED
    BY <2>1 DEF Asked
<1> QED
  BY <1>1, <1>2 DEF Begin

LEMMA NextAsked == TypeOK /\ Asked /\ [Next]_vars => Asked'
<1> SUFFICES ASSUME TypeOK, Asked, [Next]_vars PROVE Asked'
  OBVIOUS
<1>t. build \in Build
  BY DEF TypeOK
<1>1. ASSUME NEW id \in RunId, NEW execute \in BOOLEAN, NEW record \in BOOLEAN,
             NEW L \in Options, NEW T \in SUBSET Issuer, NEW claim \in Claims,
             BuildBatch(id, execute, record, L, T, claim)
      PROVE  Asked'
  BY <1>1, AskedAtFirst DEF BuildBatch
<1>2. ASSUME NEW s \in RunId, NEW id \in RunId, NEW mode \in {"all", "remaining"},
             NEW execute \in BOOLEAN, NEW record \in BOOLEAN, NEW L \in Options,
             Retry(s, mode, id, execute, record, L)
      PROVE  Asked'
  BY <1>2, AskedAtFirst DEF Retry, Asked
<1>3. CASE build' = Idle \/ UNCHANGED build
  BY <1>3 DEF Asked, Idle
<1>4. CASE /\ build.at # "idle"
           /\ \/ \E B \in SUBSET Issuer : BeginBatch(B)
              \/ \E l \in Layer, i \in Issuer : Store(l, i)
              \/ Raise
              \/ \E l \in Layer : CommitLayer(l)
              \/ EndBatches \/ CoverAfterFailure
              \/ RecordRun /\ build' # Idle
  <2>1. build'.id = build.id /\ build'.layers = build.layers
    <3>1. \A at : Goto(at) => build'.id = build.id /\ build'.layers = build.layers
      BY <1>t DEF Goto, Build
    <3>2. ASSUME NEW B \in SUBSET Issuer, BeginBatch(B)
          PROVE  build'.id = build.id /\ build'.layers = build.layers
      BY <3>2, <1>t DEF BeginBatch, Build
    <3>3. ASSUME NEW l \in Layer, NEW i \in Issuer, Store(l, i)
          PROVE  build'.id = build.id /\ build'.layers = build.layers
      <4>1. \/ Goto("raising")
            \/ build' = [build EXCEPT !.pending = @ \ {i}, !.found = @ \cup Found(l, i)]
        BY <3>3 DEF Store
      <4>2. ASSUME NEW F, build' = [build EXCEPT !.pending = @ \ {i}, !.found = F]
            PROVE  build'.id = build.id /\ build'.layers = build.layers
        BY <4>2, <1>t DEF Build
      <4> QED
        BY <4>1, <4>2, <3>1, Zenon
    <3>4. ASSUME NEW l \in Layer, CommitLayer(l)
          PROVE  build'.id = build.id /\ build'.layers = build.layers
      <4>1. Goto("raising") \/ Advance(l)
        BY <3>4 DEF CommitLayer
      <4>2. CASE build' = [build EXCEPT !.at = "batch", !.batched = @ \cup build.batch,
                               !.batch = {}, !.left = {}, !.pending = {}, !.found = {}]
        BY <4>2, <1>t DEF Build
      <4>3. CASE build' = [build EXCEPT !.left = @ \ {l}, !.pending = build.batch,
                               !.found = {}]
        BY <4>3, <1>t DEF Build
      <4> QED
        BY <4>1, <4>2, <4>3, <3>1 DEF Advance
    <3>5. Raise \/ EndBatches \/ CoverAfterFailure \/ (RecordRun /\ build' # Idle)
          => \E at : Goto(at)
      BY DEF Raise, EndBatches, CoverAfterFailure, RecordRun
    <3> QED
      BY <1>4, <3>1, <3>2, <3>3, <3>4, <3>5
  <2> QED
    BY <1>4, <2>1, AskedStays
<1>5. \/ RecordRun \/ Answer \/ RecordFailure \/ OtherRequest \/ Restart
      => build' = Idle \/ UNCHANGED build \/ RecordRun
  BY DEF RecordRun, Answer, RecordFailure, OtherRequest, Restart
<1>6. \/ \E B \in SUBSET Issuer : BeginBatch(B)
      \/ \E l \in Layer, i \in Issuer : Store(l, i)
      \/ Raise
      \/ \E l \in Layer : CommitLayer(l)
      \/ EndBatches \/ CoverAfterFailure \/ RecordRun
      => build.at # "idle"
  BY Zenon DEF BeginBatch, Store, Current, Raise, CommitLayer, EndBatches, CoverAfterFailure,
         RecordRun
<1>7. UNCHANGED vars => UNCHANGED build
  BY DEF vars
<1> QED
  BY <1>1, <1>2, <1>3, <1>4, <1>5, <1>6, <1>7 DEF Next

LEMMA RecordType ==
    ASSUME TypeOK, Asked, build.at # "idle",
           NEW status \in {"executed", "dry_run", "partial", "failed"}
    PROVE  RunRecord(status) \in Run
BY DEF TypeOK, Asked, Build, Run, RunRecord

LEMMA NextType == TypeOK /\ Asked /\ [Next]_vars => TypeOK'
<1> SUFFICES ASSUME TypeOK, Asked, [Next]_vars PROVE TypeOK'
  OBVIOUS
<1>t. /\ mem \in SUBSET Items /\ rows \in SUBSET Items
      /\ runs \in [RunId -> Run \cup {NoRun}]
      /\ stored \in [RunId -> Run \cup {NoRun}]
      /\ dirty \in SUBSET Collection /\ build \in Build
      /\ planned \in SUBSET Issuer /\ claimed \in SUBSET Issuer
  BY DEF TypeOK
<1>1. ASSUME NEW id \in RunId, NEW execute \in BOOLEAN, NEW record \in BOOLEAN,
             NEW L \in Options, NEW T \in SUBSET Issuer, NEW claim \in Claims,
             BuildBatch(id, execute, record, L, T, claim)
      PROVE  TypeOK'
  <2>1. claim.completed \in SUBSET Issuer /\ claim.skipped \in SUBSET Issuer
    BY LayerAssumption
  <2>2. claimed' \subseteq Issuer
    BY <1>1, <1>t, <2>1 DEF BuildBatch
  <2> QED
    BY <1>1, <2>1, <2>2, BeginType DEF BuildBatch
<1>2. ASSUME NEW s \in RunId, NEW id \in RunId, NEW mode \in {"all", "remaining"},
             NEW execute \in BOOLEAN, NEW record \in BOOLEAN, NEW L \in Options,
             Retry(s, mode, id, execute, record, L)
      PROVE  TypeOK'
  BY <1>2, RetryType
<1>3. ASSUME NEW B \in SUBSET Issuer, BeginBatch(B)
      PROVE  TypeOK'
  <2>1. build' \in Build
    BY <1>3, <1>t DEF BeginBatch, Build
  <2> QED
    BY <1>3, <1>t, <2>1 DEF BeginBatch, TypeOK, data, history
<1>4. ASSUME NEW l \in Layer, NEW i \in Issuer, Store(l, i)
      PROVE  TypeOK'
  <2>1. mem' \in SUBSET Items
    BY <1>4, <1>t DEF Store, Items, Found
  <2>2. build' \in Build
    <3>1. Found(l, i) \subseteq Items
      BY DEF Found, Items
    <3>2. CASE Goto("raising")
      BY <3>2, <1>t, GotoType
    <3>3. CASE build' = [build EXCEPT !.pending = @ \ {i}, !.found = @ \cup Found(l, i)]
      BY <3>1, <3>3, <1>t DEF Build
    <3> QED
      BY <1>4, <3>2, <3>3 DEF Store
  <2>3. /\ rows' \subseteq Items
        /\ stored' \in [RunId -> Run \cup {NoRun}]
        /\ dirty' \subseteq Collection
    BY <1>4, <1>t, <2>1, CommitTypes, MarksTypes DEF Store
  <2> QED
    BY <1>4, <1>t, <2>1, <2>2, <2>3 DEF Store, TypeOK, history
<1>5. ASSUME Raise PROVE TypeOK'
  BY <1>5, <1>t, GotoType DEF Raise, data, history, TypeOK
<1>6. ASSUME NEW l \in Layer, CommitLayer(l) PROVE TypeOK'
  <2>1. /\ rows' \subseteq Items
        /\ stored' \in [RunId -> Run \cup {NoRun}]
        /\ dirty' \subseteq Collection
    <3>1. /\ Saved(mem, AuditMarks(l)) \subseteq Items /\ Saved(mem, Marks(l)) \subseteq Items
          /\ SavedRuns(runs, AuditMarks(l)) \in [RunId -> Run \cup {NoRun}]
      BY <1>t, MarksTypes, CommitTypes
    <3> QED
      BY <1>6, <1>t, <3>1, MarksTypes DEF CommitLayer, CommitFailed
  <2>2. build' \in Build /\ planned' \in SUBSET Issuer
    <3>1. CASE Advance(l)
      <4>1. build' \in Build
        <5>1. CASE build.left = {l}
          <6>1. build' = [build EXCEPT !.at = "batch", !.batched = @ \cup build.batch,
                              !.batch = {}, !.left = {}, !.pending = {},
                              !.found = {}]
            BY <3>1, <5>1 DEF Advance
          <6> QED
            BY <6>1, <1>t DEF Build
        <5>2. CASE build' = [build EXCEPT !.left = @ \ {l}, !.pending = build.batch,
                                 !.found = {}]
          BY <5>2, <1>t DEF Build
        <5> QED
          BY <3>1, <5>1, <5>2 DEF Advance
      <4>2. build.batch \in SUBSET Issuer
        BY <1>t DEF Build
      <4>3. planned' \in {planned, planned \cup build.batch}
        BY <3>1 DEF Advance
      <4> QED
        BY <4>1, <4>2, <4>3, <1>t
    <3>2. CASE Goto("raising") /\ UNCHANGED planned
      BY <3>2, <1>t, GotoType
    <3> QED
      BY <1>6, <3>1, <3>2 DEF CommitLayer
  <2> QED
    BY <1>6, <1>t, <2>1, <2>2 DEF CommitLayer, TypeOK
<1>7. ASSUME EndBatches PROVE TypeOK'
  <2>1. build' \in Build
    BY <1>7, <1>t, GotoType DEF EndBatches
  <2> QED
    BY <1>7, <1>t, <2>1, AuditTypes DEF EndBatches, TypeOK, history
<1>8. ASSUME RecordRun PROVE TypeOK'
  <2>1. RunRecord(IF build.execute THEN "executed" ELSE "dry_run") \in Run
    BY <1>8, <1>t, RecordType DEF RecordRun
  <2>2. runs' \in [RunId -> Run \cup {NoRun}]
    BY <1>8, <1>t, <2>1 DEF RecordRun, Recorded
  <2>3. build' \in Build
    BY <1>8, <1>t, GotoType, IdleType DEF RecordRun
  <2>4. /\ rows' \subseteq Items
        /\ stored' \in [RunId -> Run \cup {NoRun}]
        /\ dirty' \subseteq Collection
    <3>1. dirty \cup {RunLog} \in SUBSET Collection
      BY <1>t DEF Collection
    <3>2. CommitOK(mem, runs', dirty \cup {RunLog}) \/ CommitFailed(dirty \cup {RunLog})
      BY <1>8 DEF RecordRun
    <3> QED
      BY <1>t, <2>2, <3>1, <3>2, CommitTypes
  <2> QED
    BY <1>8, <1>t, <2>2, <2>3, <2>4 DEF RecordRun, TypeOK, history
<1>9. ASSUME Answer PROVE TypeOK'
  <2>1. {} \in SUBSET Collection
    OBVIOUS
  <2>2. /\ rows' \subseteq Items
        /\ stored' \in [RunId -> Run \cup {NoRun}]
        /\ dirty' \subseteq Collection
    BY <1>9, <1>t, <2>1, CommitTypes DEF Answer, Collection
  <2> QED
    BY <1>9, <1>t, <2>2, IdleType DEF Answer, TypeOK, history
<1>10. ASSUME CoverAfterFailure PROVE TypeOK'
  <2>1. build' \in Build
    BY <1>10, <1>t, GotoType DEF CoverAfterFailure
  <2> QED
    BY <1>10, <1>t, <2>1, AuditTypes DEF CoverAfterFailure, TypeOK, history
<1>11. ASSUME RecordFailure PROVE TypeOK'
  <2>1. /\ FailureStatus(build.batched) \in {"executed", "dry_run", "partial", "failed"}
        /\ build.at # "idle"
    BY <1>11 DEF FailureStatus, RecordFailure
  <2>2. RunRecord(FailureStatus(build.batched)) \in Run
    BY <2>1, RecordType
  <2>3. runs' \in [RunId -> Run \cup {NoRun}]
    BY <1>11, <1>t, <2>2 DEF RecordFailure, Recorded
  <2>4. {} \in SUBSET Collection
    OBVIOUS
  <2>5. /\ rows' \subseteq Items
        /\ stored' \in [RunId -> Run \cup {NoRun}]
        /\ dirty' \subseteq Collection
    <3>1. dirty \cup {RunLog} \in SUBSET Collection
      BY <1>t DEF Collection
    <3>2. \E d \in {dirty, dirty \cup {RunLog}, {}} :
             CommitFailed(d) \/ CommitOK(mem, runs', d)
      BY <1>11 DEF RecordFailure
    <3> QED
      BY <1>t, <2>3, <2>4, <3>1, <3>2, CommitTypes
  <2> QED
    BY <1>11, <1>t, <2>3, <2>5, IdleType DEF RecordFailure, TypeOK, history
<1>12. ASSUME OtherRequest PROVE TypeOK'
  <2>1. {} \in SUBSET Collection
    OBVIOUS
  <2>2. /\ rows' \subseteq Items
        /\ stored' \in [RunId -> Run \cup {NoRun}]
        /\ dirty' \subseteq Collection
    BY <1>12, <1>t, <2>1, CommitTypes DEF OtherRequest, AuditOK
  <2> QED
    BY <1>12, <1>t, <2>2 DEF OtherRequest, TypeOK, history
<1>13. ASSUME Restart PROVE TypeOK'
  BY <1>13, <1>t, IdleType DEF Restart, TypeOK, history
<1>14. ASSUME UNCHANGED vars PROVE TypeOK'
  BY <1>14 DEF TypeOK, vars, data, history
<1> QED
  BY <1>1, <1>2, <1>3, <1>4, <1>5, <1>6, <1>7, <1>8, <1>9, <1>10, <1>11, <1>12, <1>13,
     <1>14 DEF Next

(* Every variable keeps its type; in particular whatever is marked dirty   *)
(* names a collection, and every recorded run had options a request may    *)
(* ask for.                                                                *)
THEOREM TypeCorrect == Spec => []TypeOK
<1>1. Init => TypeOK /\ Asked
  BY InitType
<1>2. (TypeOK /\ Asked) /\ [Next]_vars => (TypeOK /\ Asked)'
  BY NextType, NextAsked
<1> QED
  BY <1>1, <1>2, PTL DEF Spec

-----------------------------------------------------------------------------
(***************************************************************************)
(* What a record attests.  A run is recorded from the build in progress,   *)
(* so the invariant says of the build (Underway) what the properties say   *)
(* of the records; of the batch in progress it says which layers are in    *)
(* the database, which issuers of the next are in memory, and that nothing *)
(* else is in memory only (BatchSoFar).                                    *)
(***************************************************************************)

(* Issuers a record may list although no run built them. *)
Trusted == planned \cup claimed

Built(R, P) == {i \in Issuer : <<i, Profile>> \in R \/ i \in P}

Outcome(r) ==
    /\ r.status = "executed" => r.execute /\ r.targets = r.batched
    /\ r.status = "dry_run" => ~r.execute /\ r.targets = r.batched
    /\ r.status = "partial" => r.batched # {}
    /\ r.status = "failed" => r.batched = {}

Attested(r, R, P) ==
    /\ r.execute => (r.batched \X r.layers) \cap Material \subseteq R
    /\ r.completed \cup r.batched \cup r.skipped \subseteq Built(R, P)
    /\ Outcome(r)

Records ==
    \A id \in RunId :
        /\ runs[id] # NoRun => Attested(runs[id], rows, Trusted)
        /\ stored[id] # NoRun => Attested(stored[id], rows, Trusted)

Underway ==
    /\ build.execute => build.record /\ build.at # "idle"
    /\ build.batched \subseteq build.targets /\ build.batch \subseteq build.targets
    /\ build.execute => (build.batched \X build.layers) \cap Material \subseteq rows
    /\ ~build.execute => build.batched \subseteq planned
    /\ build.inherited \cup build.skipped \subseteq Built(rows, Trusted)
    /\ build.at \in {"record", "answer"} => build.targets \subseteq build.batched

BatchSoFar ==
    build.at = "store" /\ build.execute =>
        /\ (build.batch \X (build.layers \ build.left)) \cap Material \subseteq rows
        /\ \A l \in Layer : Current(l) =>
              ((build.batch \ build.pending) \X {l}) \cap Material \subseteq mem
        /\ Profile \notin build.left =>
              \A x \in mem \ rows : Current(x[2]) /\ build.found # {}

IInv == TypeOK /\ Asked /\ Records /\ Underway /\ BatchSoFar /\ AnsweredIsDurable

LEMMA InitIInv == Init => IInv
<1> SUFFICES ASSUME Init PROVE IInv
  OBVIOUS
<1>1. build = Idle
  BY DEF Init
<1>2. Records
  BY DEF Init, Records
<1>3. Underway
  BY <1>1 DEF Underway, Idle
<1>4. BatchSoFar /\ AnsweredIsDurable
  BY <1>1 DEF BatchSoFar, AnsweredIsDurable, Idle
<1> QED
  BY InitType, <1>2, <1>3, <1>4 DEF IInv

(* What a record attests stays true while the database only grows.         *)
LEMMA AttestedStays ==
    ASSUME NEW r, NEW R, NEW R2, NEW P, NEW P2, R \subseteq R2, P \subseteq P2,
           Attested(r, R, P)
    PROVE  Attested(r, R2, P2)
BY DEF Attested, Built

LEMMA CommitGrows ==
    ASSUME NEW m, NEW rs, NEW d, CommitOK(m, rs, d) \/ CommitFailed(d)
    PROVE  rows \subseteq rows' /\ stored' \in {stored, rs}
BY DEF CommitOK, CommitFailed, Saved, SavedRuns

LEMMA AuditGrows ==
    ASSUME AuditOK \/ AuditFailed
    PROVE  rows \subseteq rows' /\ stored' \in {stored, runs}
BY CommitGrows DEF AuditOK, AuditFailed

(* The records, when a step adds none. *)
LEMMA RecordsStay ==
    ASSUME Records, rows \subseteq rows', planned \subseteq planned', claimed \subseteq claimed',
           runs' \in {runs, stored}, stored' \in {runs, stored}
    PROVE  Records'
<1>t. Trusted \subseteq Trusted'
  BY DEF Trusted
<1>1. ASSUME NEW id \in RunId, NEW r \in {runs[id], stored[id]}, r # NoRun
      PROVE  Attested(r, rows', Trusted')
  BY <1>t, <1>1, AttestedStays DEF Records
<1>2. ASSUME NEW id \in RunId
      PROVE  /\ runs'[id] # NoRun => Attested(runs'[id], rows', Trusted')
             /\ stored'[id] # NoRun => Attested(stored'[id], rows', Trusted')
  BY <1>1
<1> QED
  BY <1>2 DEF Records

(* The records, when a step records what the build did. *)
LEMMA RecordsWith ==
    ASSUME TypeOK, Asked, Records, Underway, build.at # "idle",
           NEW status \in {"executed", "dry_run", "partial", "failed"},
           Outcome(RunRecord(status)),
           runs' = Recorded(status), stored' \in {stored, runs'},
           rows \subseteq rows', planned' = planned /\ claimed' = claimed
    PROVE  Records'
<1>1. build.id \in RunId /\ build.layers \in Options /\ build \in Build
  BY DEF TypeOK, Asked
<1>2. Profile \in build.layers
  BY <1>1, LayerAssumption
<1>3. build.batched \subseteq Issuer
  BY <1>1 DEF Build
<1>4. build.batched \subseteq Built(rows, Trusted)
  BY <1>2, <1>3, LayerAssumption DEF Underway, Built, Items, Trusted
<1>5. Attested(RunRecord(status), rows, Trusted)
  BY <1>4 DEF Attested, RunRecord, Underway
<1>6. ASSUME NEW id \in RunId, NEW r \in {runs[id], stored[id], RunRecord(status)},
             r # NoRun
      PROVE  Attested(r, rows', Trusted')
  <2>1. Trusted \subseteq Trusted'
    BY DEF Trusted
  <2> QED
    BY <1>5, <1>6, <2>1, AttestedStays DEF Records
<1>7. \A id \in RunId : runs'[id] \in {runs[id], RunRecord(status)}
  BY DEF Recorded, TypeOK
<1>8. ASSUME NEW id \in RunId
      PROVE  /\ runs'[id] # NoRun => Attested(runs'[id], rows', Trusted')
             /\ stored'[id] # NoRun => Attested(stored'[id], rows', Trusted')
  BY <1>6, <1>7
<1> QED
  BY <1>8 DEF Records

(* The build, when a step only moves it to another point. *)
LEMMA UnderwayStays ==
    ASSUME TypeOK, Underway, rows \subseteq rows', planned \subseteq planned', claimed \subseteq claimed',
           NEW at, build.at # "idle", at # "idle", Goto(at),
           at \in {"record", "answer"} => build.targets \subseteq build.batched
    PROVE  Underway'
<1>1. /\ build'.at = at /\ build'.execute = build.execute /\ build'.record = build.record
      /\ build'.batched = build.batched /\ build'.batch = build.batch
      /\ build'.targets = build.targets /\ build'.layers = build.layers
      /\ build'.inherited = build.inherited /\ build'.skipped = build.skipped
  BY DEF TypeOK, Build, Goto
<1>2. Built(rows, Trusted) \subseteq Built(rows', Trusted')
  BY DEF Built, Trusted
<1> QED
  BY <1>1, <1>2 DEF Underway

(* No build. *)
LEMMA OverStep ==
    ASSUME build' = Idle
    PROVE  Underway' /\ BatchSoFar' /\ AnsweredIsDurable'
BY DEF Underway, BatchSoFar, AnsweredIsDurable, Idle

(* A step to a point outside a batch and before the answer. *)
LEMMA NotStoring ==
    ASSUME build'.at \notin {"store", "answer"}
    PROVE  BatchSoFar' /\ AnsweredIsDurable'
BY DEF BatchSoFar, AnsweredIsDurable

LEMMA GotoAt ==
    ASSUME TypeOK, NEW at, Goto(at)
    PROVE  build'.at = at
BY DEF TypeOK, Build, Goto

LEMMA RaiseStep ==
    ASSUME IInv, build.at # "idle", rows \subseteq rows', planned \subseteq planned', claimed \subseteq claimed',
           NEW at \in {"raising", "recording"}, Goto(at)
    PROVE  Underway' /\ BatchSoFar' /\ AnsweredIsDurable'
BY GotoAt, NotStoring, UnderwayStays DEF IInv

-----------------------------------------------------------------------------
(* One lemma for each kind of step; TypeOK and Asked are proved above. *)

Facts == Records /\ Underway /\ BatchSoFar /\ AnsweredIsDurable

LEMMA BeginStep ==
    ASSUME IInv, build.at = "idle",
           NEW id \in RunId, NEW execute \in BOOLEAN, NEW record \in BOOLEAN,
           NEW layers, NEW targets, NEW inherited, NEW skipped,
           inherited \cup skipped \subseteq Built(rows, Trusted'), claimed \subseteq claimed',
           Begin(id, execute, record, layers, targets, inherited, skipped)
    PROVE  Facts'
<1>1. /\ rows \subseteq rows' /\ stored' \in {stored, runs} /\ runs' = runs
      /\ planned' = planned
  BY AuditGrows DEF Begin
<1>2. Records'
  BY <1>1, RecordsStay DEF IInv
<1>3. CASE UNCHANGED build
  <2>1. Underway'
    BY <1>1, <1>3 DEF IInv, Underway, Built, Trusted
  <2>2. BatchSoFar' /\ AnsweredIsDurable'
    BY <1>3, NotStoring
  <2> QED
    BY <1>2, <2>1, <2>2 DEF Facts
<1>4. CASE build' = [Idle EXCEPT !.at = "batch", !.id = id, !.execute = execute,
                         !.record = execute \/ record, !.layers = layers,
                         !.targets = targets, !.inherited = inherited,
                         !.skipped = skipped]
  <2>1. /\ build'.at = "batch" /\ build'.batched = {} /\ build'.batch = {}
        /\ build'.inherited = inherited /\ build'.skipped = skipped
    BY <1>4, Zenon DEF Idle
  <2>2. build'.execute => build'.record
    BY <1>4, Zenon DEF Idle
  <2>3. Underway'
    <3>1. inherited \cup skipped \subseteq Built(rows', Trusted')
      BY <1>1 DEF Built
    <3> QED
      BY <2>1, <2>2, <3>1 DEF Underway
  <2> QED
    BY <1>2, <2>1, <2>3, NotStoring DEF Facts
<1> QED
  BY <1>3, <1>4 DEF Begin

LEMMA RetryStep ==
    ASSUME IInv, NEW s \in RunId, NEW id \in RunId, NEW mode \in {"all", "remaining"},
           NEW execute \in BOOLEAN, NEW record \in BOOLEAN, NEW layers \in Options,
           Retry(s, mode, id, execute, record, layers)
    PROVE  Facts'
<1> DEFINE completed == runs[s].completed \cup runs[s].batched
           skipped == IF mode = "remaining" THEN runs[s].targets \cap completed ELSE {}
<1>1. build.at = "idle" /\ runs[s] # NoRun
  BY DEF Retry
<1>c. claimed' = claimed
  BY DEF Retry
<1>2. completed \subseteq Built(rows, Trusted)
  BY <1>1 DEF IInv, Records, Attested
<1>3. (IF mode = "remaining" THEN completed ELSE {}) \cup skipped
         \subseteq Built(rows, Trusted)
  BY <1>2
<1> HIDE DEF completed, skipped
<1>4. CASE UNCHANGED <<mem, runs, build, planned>> /\ RetryAudited
  <2>1. rows \subseteq rows' /\ stored' \in {stored, runs}
    BY <1>4, CommitGrows DEF RetryAudited
  <2>2. Records'
    BY <1>c, <1>4, <2>1, RecordsStay DEF IInv
  <2>3. Underway'
    BY <1>c, <1>4, <2>1 DEF IInv, Underway, Built, Trusted
  <2> QED
    BY <1>1, <1>4, <2>2, <2>3, NotStoring DEF Facts
<1>5. CASE Begin(id, execute, record, layers, runs[s].targets \ skipped,
                 IF mode = "remaining" THEN completed ELSE {}, skipped)
  <2>1. planned' = planned
    BY <1>5 DEF Begin
  <2>2. Trusted' = Trusted
    BY <1>c, <2>1 DEF Trusted
  <2> QED
    BY <1>c, <1>1, <1>3, <1>5, <2>2, BeginStep
<1> QED
  BY <1>4, <1>5 DEF Retry, completed, skipped

LEMMA BeginBatchStep ==
    ASSUME IInv, NEW B \in SUBSET Issuer, BeginBatch(B)
    PROVE  Facts'
<1>1. UNCHANGED <<mem, rows, runs, stored, planned, claimed>> /\ B \subseteq build.targets
  BY DEF BeginBatch, data, history
<1>2. /\ build'.at = "store" /\ build'.execute = build.execute /\ build'.record = build.record
      /\ build'.batched = build.batched /\ build'.batch = B /\ build'.pending = B
      /\ build'.targets = build.targets /\ build'.layers = build.layers
      /\ build'.left = build.layers
      /\ build'.inherited = build.inherited /\ build'.skipped = build.skipped
  BY DEF BeginBatch, IInv, TypeOK, Build
<1>3. Records'
  BY <1>1, RecordsStay DEF IInv
<1>4. Underway'
  BY <1>1, <1>2 DEF IInv, Underway, BeginBatch, Trusted
<1>5. BatchSoFar'
  <2>1. Profile \in build.layers
    BY LayerAssumption DEF IInv, Asked, BeginBatch
  <2> QED
    BY <1>2, <2>1 DEF BatchSoFar
<1>6. AnsweredIsDurable'
  BY <1>2 DEF AnsweredIsDurable
<1> QED
  BY <1>3, <1>4, <1>5, <1>6 DEF Facts

(* Only one layer is the current one, and it stays so while left does. *)
LEMMA OneCurrent ==
    ASSUME NEW l \in Layer, NEW m \in Layer, Current(l), Current(m)
    PROVE  l = m
<1>1. Order[l] \in Nat /\ Order[m] \in Nat
  BY LayerAssumption
<1> QED
  BY <1>1 DEF Current

LEMMA StoreStep ==
    ASSUME IInv, NEW l \in Layer, NEW i \in Issuer, Store(l, i)
    PROVE  Facts'
<1>1. /\ rows \subseteq rows' /\ stored' \in {stored, runs} /\ runs' = runs
      /\ planned' = planned /\ claimed' = claimed
  BY CommitGrows DEF Store, history
<1>2. Records'
  BY <1>1, RecordsStay DEF IInv
<1>3. build.at = "store"
  BY DEF Store, Current
<1>4. CASE Goto("raising")
  BY <1>1, <1>2, <1>3, <1>4, RaiseStep DEF Facts
<1>5. CASE build' = [build EXCEPT !.pending = @ \ {i}, !.found = @ \cup Found(l, i)]
  <2>1. /\ build'.at = "store" /\ build'.execute = build.execute /\ build'.record = build.record
        /\ build'.batched = build.batched /\ build'.batch = build.batch
        /\ build'.pending = build.pending \ {i}
        /\ build'.found = build.found \cup Found(l, i)
        /\ build'.targets = build.targets /\ build'.layers = build.layers
        /\ build'.left = build.left
        /\ build'.inherited = build.inherited /\ build'.skipped = build.skipped
    BY <1>3, <1>5 DEF IInv, TypeOK, Build
  <2>2. Underway'
    BY <1>1, <1>3, <2>1 DEF IInv, Underway, Built, Trusted
  <2>c. \A m \in Layer : Current(m)' <=> Current(m)
    BY <1>3, <2>1 DEF Current
  <2>3. ASSUME build.execute
        PROVE  /\ (build.batch \X (build.layers \ build.left)) \cap Material \subseteq rows'
               /\ \A m \in Layer : Current(m)' =>
                     ((build'.batch \ build'.pending) \X {m}) \cap Material \subseteq mem'
               /\ Profile \notin build'.left =>
                     \A x \in mem' \ rows' : Current(x[2])' /\ build'.found # {}
    <3>1. (build.batch \X (build.layers \ build.left)) \cap Material \subseteq rows'
      BY <1>1, <1>3, <2>3 DEF IInv, BatchSoFar
    <3>m. mem' = mem \cup Found(l, i)
      BY <2>3 DEF Store
    <3>2. ASSUME NEW m \in Layer, Current(m)'
          PROVE  ((build'.batch \ build'.pending) \X {m}) \cap Material \subseteq mem'
      <4>1. m = l
        BY <2>c, <3>2, OneCurrent DEF Store
      <4>2. ((build.batch \ build.pending) \X {l}) \cap Material \subseteq mem
        BY <1>3, <2>3 DEF IInv, BatchSoFar, Store
      <4> QED
        BY <2>1, <4>1, <4>2, <3>m DEF Found
    <3>3. ASSUME Profile \notin build.left, NEW x \in mem' \ rows'
          PROVE  Current(x[2])' /\ build'.found # {}
      <4>1. CASE x \in mem
        <5>1. x \in mem \ rows
          BY <1>1, <3>3, <4>1
        <5>2. Current(x[2]) /\ build.found # {}
          BY <1>3, <2>3, <3>3, <5>1 DEF IInv, BatchSoFar
        <5>3. x[2] \in Layer
          BY <4>1 DEF IInv, TypeOK, Items
        <5> QED
          BY <2>1, <2>c, <5>2, <5>3
      <4>2. CASE x \in Found(l, i)
        <5>1. x[2] = l
          BY <4>2 DEF Found
        <5> QED
          BY <2>1, <2>c, <4>2, <5>1 DEF Store
      <4> QED
        BY <3>m, <3>3, <4>1, <4>2
    <3> QED
      BY <2>1, <3>1, <3>2, <3>3
  <2>4. BatchSoFar'
    BY <2>1, <2>3 DEF BatchSoFar
  <2>5. AnsweredIsDurable'
    BY <2>1 DEF AnsweredIsDurable
  <2> QED
    BY <1>2, <2>2, <2>4, <2>5 DEF Facts
<1> QED
  BY <1>4, <1>5 DEF Store

(* What the commits at the end of a layer write: if the second one is left *)
(* out there was nothing new, and everything old is there.                 *)
LEMMA LayerIsStored ==
    ASSUME IInv, NEW l \in Layer, Current(l), build.pending = {}, build.execute,
           SecondCommit(l) => Saved(mem, Marks(l)) \subseteq rows', rows \subseteq rows'
    PROVE  /\ (build.batch \X ((build.layers \ build.left) \cup {l})) \cap Material \subseteq rows'
           /\ Profile \notin build.left \ {l} => mem \subseteq rows'
<1>1. (build.batch \X {l}) \cap Material \subseteq mem
  BY DEF IInv, BatchSoFar, Current
<1>2. (build.batch \X (build.layers \ build.left)) \cap Material \subseteq rows
  BY DEF IInv, BatchSoFar, Current
<1>m. \A x \in mem : x[2] \in Layer
  BY DEF IInv, TypeOK, Items
<1>3. CASE l = Profile
  <2>1. SecondCommit(l) /\ Marks(l) = Layer
    BY <1>3 DEF SecondCommit, Marks
  <2>2. Target(Marks(l)) = Layer
    BY <2>1 DEF Target
  <2>3. mem \subseteq Saved(mem, Marks(l))
    BY <1>m, <2>2 DEF Saved
  <2> QED
    BY <1>1, <1>2, <2>1, <2>3
<1>4. CASE l # Profile
  <2>1. Profile \notin build.left
    <3>1. Order[Profile] \in Nat /\ Order[l] \in Nat /\ Order[Profile] < Order[l]
      BY <1>4, LayerAssumption
    <3>2. Profile \in build.left => Order[l] < Order[Profile]
      BY <1>4 DEF Current
    <3> QED
      BY <3>1, <3>2
  <2>2. \A x \in mem \ rows : Current(x[2]) /\ build.found # {}
    BY <2>1 DEF IInv, BatchSoFar, Current
  <2>3. ASSUME NEW x \in mem \ rows
        PROVE  x \in rows'
    <3>1. x[2] = l /\ SecondCommit(l)
      BY <1>m, <2>2, OneCurrent DEF SecondCommit
    <3>2. x[2] \in Target(Marks(l))
      BY <1>4, <3>1 DEF Target, Marks
    <3> QED
      BY <3>1, <3>2 DEF Saved
  <2>4. mem \subseteq rows'
    BY <2>3
  <2> QED
    BY <1>1, <1>2, <2>4
<1> QED
  BY <1>3, <1>4

LEMMA AdvanceStep ==
    ASSUME IInv, NEW l \in Layer, Current(l), build.pending = {}, Advance(l),
           rows \subseteq rows',
           SecondCommit(l) => Saved(mem, Marks(l)) \subseteq rows',
           mem' = mem, claimed' = claimed
    PROVE  Underway' /\ BatchSoFar' /\ AnsweredIsDurable' /\ planned \subseteq planned'
<1>1. planned \subseteq planned'
  BY DEF Advance
<1>2. Built(rows, Trusted) \subseteq Built(rows', Trusted')
  BY <1>1 DEF Built, Trusted
<1>3. build.execute =>
         /\ (build.batch \X ((build.layers \ build.left) \cup {l})) \cap Material \subseteq rows'
         /\ Profile \notin build.left \ {l} => mem \subseteq rows'
  BY LayerIsStored
<1>4. CASE build.left = {l}
  <2>1. /\ build'.at = "batch" /\ build'.execute = build.execute
        /\ build'.record = build.record /\ build'.batched = build.batched \cup build.batch
        /\ build'.batch = {} /\ build'.targets = build.targets
        /\ build'.layers = build.layers
        /\ build'.inherited = build.inherited /\ build'.skipped = build.skipped
    <3>1. build' = [build EXCEPT !.at = "batch", !.batched = @ \cup build.batch,
                        !.batch = {}, !.left = {}, !.pending = {},
                        !.found = {}]
      BY <1>4 DEF Advance
    <3>2. build \in Build
      BY DEF IInv, TypeOK
    <3> QED
      BY <3>1, <3>2 DEF Build
  <2>2. build.execute => (build'.batched \X build.layers) \cap Material \subseteq rows'
    <3>1. build.execute => (build.batched \X build.layers) \cap Material \subseteq rows'
      BY DEF IInv, Underway
    <3>2. build.layers \subseteq (build.layers \ build.left) \cup {l}
      BY <1>4
    <3> QED
      BY <1>3, <2>1, <3>1, <3>2
  <2>3. ~build.execute => build'.batched \subseteq planned'
    BY <1>4, <2>1 DEF IInv, Underway, Advance
  <2>4. Underway'
    BY <1>2, <2>1, <2>2, <2>3 DEF IInv, Underway
  <2> QED
    BY <1>1, <2>1, <2>4, NotStoring
<1>5. CASE build.left # {l}
  <2>1. /\ build'.at = "store" /\ build'.execute = build.execute
        /\ build'.record = build.record /\ build'.batched = build.batched
        /\ build'.batch = build.batch /\ build'.pending = build.batch
        /\ build'.targets = build.targets /\ build'.layers = build.layers
        /\ build'.left = build.left \ {l}
        /\ build'.inherited = build.inherited /\ build'.skipped = build.skipped
    BY <1>5 DEF IInv, TypeOK, Build, Advance, Current
  <2>2. Underway'
    BY <1>1, <1>2, <2>1 DEF IInv, Underway
  <2>3. build.layers \ (build.left \ {l}) \subseteq (build.layers \ build.left) \cup {l}
    OBVIOUS
  <2>4. BatchSoFar'
    BY <1>3, <2>1, <2>3 DEF BatchSoFar
  <2>5. AnsweredIsDurable'
    BY <2>1 DEF AnsweredIsDurable
  <2> QED
    BY <1>1, <2>2, <2>4, <2>5
<1> QED
  BY <1>4, <1>5

LEMMA CommitLayerStep ==
    ASSUME IInv, NEW l \in Layer, CommitLayer(l)
    PROVE  Facts'
<1>1. /\ rows \subseteq rows' /\ stored' \in {stored, runs} /\ runs' = runs
      /\ Current(l) /\ build.pending = {} /\ build.at = "store"
      /\ mem' = mem /\ claimed' = claimed
  BY DEF CommitLayer, CommitFailed, Saved, SavedRuns, Current
<1>2. CASE Goto("raising") /\ UNCHANGED planned
  <2>1. Records'
    BY <1>1, <1>2, RecordsStay DEF IInv
  <2> QED
    BY <1>1, <1>2, <2>1, RaiseStep DEF Facts
<1>3. CASE Advance(l) /\ (SecondCommit(l) => Saved(mem, Marks(l)) \subseteq rows')
  <2>1. Underway' /\ BatchSoFar' /\ AnsweredIsDurable' /\ planned \subseteq planned'
    BY <1>1, <1>3, AdvanceStep
  <2>2. Records'
    BY <1>1, <2>1, RecordsStay DEF IInv
  <2> QED
    BY <2>1, <2>2 DEF Facts
<1> QED
  BY <1>2, <1>3 DEF CommitLayer

LEMMA EndBatchesStep ==
    ASSUME IInv, EndBatches
    PROVE  Facts'
<1>1. /\ rows \subseteq rows' /\ stored' \in {stored, runs} /\ runs' = runs
      /\ planned' = planned /\ claimed' = claimed
  BY AuditGrows DEF EndBatches, history
<1>2. Records'
  BY <1>1, RecordsStay DEF IInv
<1>3. build.at = "batch" /\ build.targets \subseteq build.batched
  BY DEF EndBatches
<1>4. CASE Goto("raising")
  BY <1>1, <1>2, <1>3, <1>4, RaiseStep DEF Facts
<1>5. CASE Goto("record") /\ build.record
  <2>1. Underway'
    BY <1>1, <1>3, <1>5, UnderwayStays DEF IInv
  <2> QED
    BY <1>2, <1>5, <2>1, GotoAt, NotStoring DEF Facts, IInv
<1>6. CASE Goto("answer") /\ ~build.record
  <2>1. Underway'
    BY <1>1, <1>3, <1>6, UnderwayStays DEF IInv
  <2>2. build'.at = "answer" /\ ~build'.execute
    BY <1>6 DEF IInv, TypeOK, Build, Underway, Goto
  <2> QED
    BY <1>2, <2>1, <2>2 DEF Facts, BatchSoFar, AnsweredIsDurable
<1> QED
  BY <1>4, <1>5, <1>6 DEF EndBatches

LEMMA RecordRunStep ==
    ASSUME IInv, RecordRun
    PROVE  Facts'
<1> DEFINE status == IF build.execute THEN "executed" ELSE "dry_run"
<1>1. /\ rows \subseteq rows' /\ stored' \in {stored, runs'} /\ runs' = Recorded(status)
      /\ planned' = planned /\ claimed' = claimed /\ build.at = "record"
  BY CommitGrows DEF RecordRun, history
<1>2. Outcome(RunRecord(status))
  BY <1>1 DEF Outcome, RunRecord, IInv, Underway
<1>3. Records'
  BY <1>1, <1>2, RecordsWith DEF IInv
<1>4. CASE build' = Idle
  BY <1>3, <1>4, OverStep DEF Facts
<1>5. CASE CommitOK(mem, runs', dirty \cup {RunLog}) /\ Goto("answer")
  <2>1. Underway'
    BY <1>1, <1>5, UnderwayStays DEF IInv, Underway
  <2>2. /\ build'.at = "answer" /\ build'.id = build.id /\ build'.execute = build.execute
        /\ build'.targets = build.targets /\ build'.layers = build.layers
        /\ build'.batched = build.batched /\ build'.inherited = build.inherited
        /\ build'.skipped = build.skipped
    BY <1>5 DEF IInv, TypeOK, Build, Goto
  <2>3. BatchSoFar'
    BY <2>2 DEF BatchSoFar
  <2>4. ASSUME build'.execute
        PROVE  /\ (build'.targets \X build'.layers) \cap Material \subseteq rows'
               /\ stored'[build'.id] = RunRecord("executed")'
    <3>1. stored' = runs'
      BY <1>5 DEF CommitOK, SavedRuns, Target
    <3>2. runs'[build.id] = RunRecord("executed")
      BY <1>1, <2>2, <2>4 DEF IInv, Asked, TypeOK, Recorded
    <3>3. RunRecord("executed")' = RunRecord("executed")
      BY <2>2 DEF RunRecord
    <3>4. (build.targets \X build.layers) \cap Material \subseteq rows'
      BY <1>1, <2>2, <2>4 DEF IInv, Underway
    <3> QED
      BY <2>2, <3>1, <3>2, <3>3, <3>4
  <2>5. AnsweredIsDurable'
    BY <2>4 DEF AnsweredIsDurable
  <2> QED
    BY <1>3, <2>1, <2>3, <2>5 DEF Facts
<1> QED
  BY <1>4, <1>5 DEF RecordRun

LEMMA RecordFailureStep ==
    ASSUME IInv, RecordFailure
    PROVE  Facts'
<1> DEFINE status == FailureStatus(build.batched)
<1>1. /\ rows \subseteq rows' /\ stored' \in {stored, runs'}
      /\ planned' = planned /\ claimed' = claimed /\ build.at = "recording" /\ build' = Idle
  BY CommitGrows DEF RecordFailure, history
<1>2. CASE build.record
  <2>1. Outcome(RunRecord(status)) /\ status \in {"executed", "dry_run", "partial", "failed"}
    BY DEF Outcome, RunRecord, FailureStatus
  <2>2. runs' = Recorded(status)
    BY <1>2 DEF RecordFailure
  <2>3. Records'
    BY <1>1, <2>1, <2>2, RecordsWith DEF IInv
  <2> QED
    BY <1>1, <2>3, OverStep DEF Facts
<1>3. CASE runs' = runs
  <2>1. Records'
    BY <1>1, <1>3, RecordsStay DEF IInv
  <2> QED
    BY <1>1, <2>1, OverStep DEF Facts
<1> QED
  BY <1>2, <1>3 DEF RecordFailure

LEMMA NextFacts == IInv /\ [Next]_vars => Facts'
<1> SUFFICES ASSUME IInv, [Next]_vars PROVE Facts'
  OBVIOUS
<1>1. ASSUME NEW id \in RunId, NEW execute \in BOOLEAN, NEW record \in BOOLEAN,
             NEW L \in Options, NEW T \in SUBSET Issuer, NEW claim \in Claims,
             BuildBatch(id, execute, record, L, T, claim)
      PROVE  Facts'
  <2>1. claim.completed \cup claim.skipped \subseteq claimed' /\ claimed \subseteq claimed'
    BY <1>1 DEF BuildBatch
  <2>2. claim.completed \cup claim.skipped \subseteq Issuer
    BY LayerAssumption
  <2>3. claim.completed \cup claim.skipped \subseteq Built(rows, Trusted')
    BY <2>1, <2>2 DEF Built, Trusted
  <2> QED
    BY <1>1, <2>1, <2>3, BeginStep DEF BuildBatch
<1>2. ASSUME Raise PROVE Facts'
  <2>1. /\ UNCHANGED <<rows, runs, stored, planned, claimed>>
        /\ build.at = "store" /\ Goto("raising")
    BY <1>2 DEF Raise, data, history
  <2>2. Records'
    BY <2>1, RecordsStay DEF IInv
  <2> QED
    BY <2>1, <2>2, RaiseStep DEF Facts
<1>3. ASSUME CoverAfterFailure PROVE Facts'
  <2>1. /\ rows \subseteq rows' /\ stored' \in {stored, runs}
        /\ runs' = runs /\ planned' = planned /\ claimed' = claimed
        /\ build.at = "raising" /\ Goto("recording")
    BY <1>3, AuditGrows DEF CoverAfterFailure, history
  <2>2. Records'
    BY <2>1, RecordsStay DEF IInv
  <2> QED
    BY <2>1, <2>2, RaiseStep DEF Facts
<1>4. ASSUME Answer \/ Restart PROVE Facts'
  <2>1. /\ rows \subseteq rows' /\ stored' \in {stored, runs}
        /\ runs' \in {runs, stored} /\ planned' = planned /\ claimed' = claimed /\ build' = Idle
    BY <1>4, CommitGrows DEF Answer, Restart, Saved, history
  <2>2. Records'
    BY <2>1, RecordsStay DEF IInv
  <2> QED
    BY <2>1, <2>2, OverStep DEF Facts
<1>5. ASSUME OtherRequest PROVE Facts'
  <2>1. /\ rows \subseteq rows' /\ stored' \in {stored, runs}
        /\ runs' = runs /\ planned' = planned /\ claimed' = claimed /\ build' = build /\ build.at = "idle"
    BY <1>5, CommitGrows DEF OtherRequest, AuditOK, history
  <2>2. Records'
    BY <2>1, RecordsStay DEF IInv
  <2>3. Underway'
    BY <2>1 DEF IInv, Underway, Built, Trusted
  <2> QED
    BY <2>1, <2>2, <2>3, NotStoring DEF Facts
<1>6. ASSUME UNCHANGED vars PROVE Facts'
  BY <1>6 DEF vars, data, history, Facts, IInv, Records, Underway, BatchSoFar,
              AnsweredIsDurable, Current, RunRecord, Trusted
<1> QED
  BY <1>1, RetryStep, BeginBatchStep, StoreStep, <1>2, CommitLayerStep, EndBatchesStep,
     RecordRunStep, <1>4, <1>3, RecordFailureStep, <1>5, <1>6 DEF Next

LEMMA Invariance == Spec => []IInv
<1>1. IInv /\ [Next]_vars => TypeOK' /\ Asked'
  BY NextType, NextAsked DEF IInv
<1>2. IInv /\ [Next]_vars => IInv'
  BY <1>1, NextFacts DEF IInv, Facts
<1> QED
  BY InitIInv, <1>2, PTL DEF Spec

-----------------------------------------------------------------------------
(* What an executing run lists as done by its own batches is in the        *)
(* database, in every record, whatever commits failed or were lost.        *)
THEOREM BatchesAreDurable == Spec => []BatchedIsDurable
<1>1. IInv => BatchedIsDurable
  BY DEF IInv, Records, Attested, BatchedIsDurable
<1> QED
  BY Invariance, <1>1, PTL

(* However long a chain of failed and resumed runs, an issuer that one of  *)
(* them skips or lists as completed has its profile in the database,       *)
(* unless a dry run listed it first, or a request did of its own account.  *)
THEOREM ResumedIsBuilt == Spec => []CompletedIsBuilt
<1>1. IInv => CompletedIsBuilt
  BY DEF IInv, Records, Attested, Built, CompletedIsBuilt, Trusted
<1> QED
  BY Invariance, <1>1, PTL

(* The status of a record is what the batches of its run did. *)
THEOREM StatusIsTrue == Spec => []StatusTellsWhatRan
<1>1. IInv => StatusTellsWhatRan
  BY DEF IInv, Records, Attested, Outcome, StatusTellsWhatRan
<1> QED
  BY Invariance, <1>1, PTL

(* An executing build that is about to be answered is in the database,     *)
(* with its record.                                                        *)
THEOREM AnswersAreDurable == Spec => []AnsweredIsDurable
<1>1. IInv => AnsweredIsDurable
  BY DEF IInv
<1> QED
  BY Invariance, <1>1, PTL

=============================================================================
