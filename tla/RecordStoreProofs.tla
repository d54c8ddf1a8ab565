-------------------------- MODULE RecordStoreProofs --------------------------
(***************************************************************************)
(* Proofs about RecordStore, for every set of keys, collections, payloads  *)
(* and resource types, with or without the typed market-data table, and    *)
(* for logs of any length.                                                 *)
(***************************************************************************)
EXTENDS RecordStore, SequenceTheorems, TLAPS

USE KeyAssumption, PayloadAssumption, MarketDataAssumption, TypedBarsAssumption,
    UsageAssumption, ResourceAssumption, MaxAuditAssumption

-----------------------------------------------------------------------------
(* What one commit does, record by record *)

(* A commit of any scope leaves the hash cache equal to what _load would   *)
(* read back, if it was before.                                            *)
LEMMA CommitKeepsCache ==
    ASSUME NEW m \in [Key -> Content], NEW r \in [Key -> Content],
           NEW d \in SUBSET Collection
    PROVE  HashesAfter(m, Loaded(r), d) = Loaded(RowsAfter(m, Loaded(r), d, r))
<1>1. ASSUME NEW k \in Key, IsBar(k)
      PROVE  HashesAfter(m, Loaded(r), d)[k] = Absent
  BY <1>1 DEF HashesAfter, Loaded, BarsOf, Changed, CurrentKeys, Deleted, Deletable, IsBar
<1>2. ASSUME NEW k \in Key, ~IsBar(k)
      PROVE  HashesAfter(m, Loaded(r), d)[k] = RowsAfter(m, Loaded(r), d, r)[k]
  BY <1>2 DEF HashesAfter, RowsAfter, Loaded, BarsOf
<1> QED
  BY <1>1, <1>2 DEF HashesAfter, Loaded

(* Commits stay within the types. *)
LEMMA CommitTypes ==
    ASSUME NEW m \in [Key -> Content], NEW h \in [Key -> Content],
           NEW r \in [Key -> Content], NEW d \in SUBSET Collection
    PROVE  /\ RowsAfter(m, h, d, r) \in [Key -> Content]
           /\ HashesAfter(m, h, d) \in [Key -> Content]
           /\ MemAfter(m, d) \in [Key -> Content]
BY DEF RowsAfter, HashesAfter, MemAfter, Content

(* What the service holds when the records are m and the rows r. *)
ViewOf(m, r) == [k \in Key |-> IF IsBar(k) /\ m[k] = Absent THEN r[k] ELSE m[k]]

(* No commit, of whatever scope, changes what the service holds. *)
LEMMA CommitKeepsView ==
    ASSUME NEW m \in [Key -> Content], NEW r \in [Key -> Content],
           NEW d \in SUBSET Collection
    PROVE  ViewOf(MemAfter(m, d), RowsAfter(m, Loaded(r), d, r)) = ViewOf(m, r)
<1> SUFFICES ASSUME NEW k \in Key
             PROVE  ViewOf(MemAfter(m, d), RowsAfter(m, Loaded(r), d, r))[k] = ViewOf(m, r)[k]
  BY DEF ViewOf
<1>1. CASE ~IsBar(k)
  BY <1>1 DEF ViewOf, MemAfter, BarsOf
<1>2. CASE IsBar(k) /\ m[k] = Absent
  BY <1>2 DEF ViewOf, MemAfter, RowsAfter, BarsOf, CurrentKeys, Changed, Deleted,
              Deletable, IsBar
<1>3. CASE IsBar(k) /\ m[k] # Absent
  BY <1>3 DEF ViewOf, MemAfter, RowsAfter, BarsOf, CurrentKeys, Changed, Loaded
<1> QED
  BY <1>1, <1>2, <1>3

(* A commit only ever writes what the service holds. *)
LEMMA CommitWritesView ==
    ASSUME NEW m \in [Key -> Content], NEW r \in [Key -> Content],
           NEW d \in SUBSET Collection, NEW k \in Key,
           RowsAfter(m, Loaded(r), d, r)[k] # r[k]
    PROVE  RowsAfter(m, Loaded(r), d, r)[k] = ViewOf(m, r)[k]
<1>1. CASE k \in Changed(m, Loaded(r), Target(d))
  BY <1>1 DEF RowsAfter, ViewOf, Changed, CurrentKeys
<1>2. CASE k \notin Changed(m, Loaded(r), Target(d))
  <2>1. /\ k \in Deleted(m, Loaded(r), Target(d), d)
        /\ RowsAfter(m, Loaded(r), d, r)[k] = Absent
    BY <1>2 DEF RowsAfter
  <2>2. /\ d = {}
        /\ ~IsBar(k)
        /\ k \notin CurrentKeys(m, Target(d))
    BY <2>1 DEF Deleted, Deletable, IsBar
  <2>3. m[k] = Absent
    BY <2>2 DEF CurrentKeys, Target
  <2> QED
    BY <2>1, <2>2, <2>3 DEF ViewOf
<1> QED
  BY <1>1, <1>2

(* Records of "market_data" are never popped, so without the typed table   *)
(* a row of that collection has its record in memory.                      *)
BarsHaveRecords(m, r) ==
    \A k \in Key : CollectionOf[k] = MarketData /\ ~IsBar(k) /\ m[k] = Absent
                   => r[k] = Absent

(* A full commit makes everything the service holds durable. *)
LEMMA FullCommit ==
    ASSUME NEW m \in [Key -> Content], NEW r \in [Key -> Content],
           BarsHaveRecords(m, r)
    PROVE  RowsAfter(m, Loaded(r), {}, r) = ViewOf(m, r)
<1> SUFFICES ASSUME NEW k \in Key
             PROVE  RowsAfter(m, Loaded(r), {}, r)[k] = ViewOf(m, r)[k]
  BY DEF ViewOf, RowsAfter
<1> DEFINE cur == CurrentKeys(m, Target({}))
<1>0. k \in cur <=> m[k] # Absent
  BY DEF CurrentKeys, Target
<1>1. CASE m[k] # Absent
  BY <1>0, <1>1 DEF RowsAfter, Changed, Loaded, ViewOf, Deleted, Deletable
<1>2. CASE m[k] = Absent /\ IsBar(k)
  BY <1>0, <1>2 DEF RowsAfter, Changed, ViewOf, Deleted, Deletable, IsBar
<1>3. CASE m[k] = Absent /\ ~IsBar(k) /\ CollectionOf[k] = MarketData
  BY <1>0, <1>3 DEF RowsAfter, Changed, ViewOf, Deleted, Deletable, BarsHaveRecords
<1>4. CASE m[k] = Absent /\ ~IsBar(k) /\ CollectionOf[k] # MarketData
  BY <1>0, <1>4 DEF RowsAfter, Changed, ViewOf, Deleted, Deletable, Loaded, IsBar
<1> QED
  BY <1>1, <1>2, <1>3, <1>4

-----------------------------------------------------------------------------
(* Type correctness *)

LEMMA InitTypes == Init => TypeOK
BY EmptySeq DEF Init, TypeOK, Loaded, Content, Event

(* One commit keeps every type, whether it succeeds or is rolled back. *)
LEMMA CommitOKTypes ==
    ASSUME TypeOK, NEW m \in [Key -> Content], NEW d \in SUBSET Collection,
           NEW a \in Seq(Event), CommitOK(m, d, a)
    PROVE  /\ mem' \in [Key -> Content]
           /\ hashes' \in [Key -> Content]
           /\ rows' \in [Key -> Content]
           /\ dirty' \subseteq Collection
           /\ audit' \in Seq(Event)
           /\ persisted' \in Nat
           /\ auditRows' \in Seq(Event)
<1>1. persisted \in Nat /\ Len(a) \in Nat /\ auditRows \in Seq(Event)
  BY DEF TypeOK
<1>2. SubSeq(a, persisted + 1, Len(a)) \in Seq(Event)
  BY <1>1
<1>3. auditRows \o SubSeq(a, persisted + 1, Len(a)) \in Seq(Event)
  BY <1>1, <1>2
<1> QED
  BY <1>1, <1>3, CommitTypes DEF CommitOK, TypeOK

LEMMA CommitFailedTypes ==
    ASSUME TypeOK, NEW m \in [Key -> Content], NEW d \in SUBSET Collection,
           NEW a \in Seq(Event), CommitFailed(m, d, a)
    PROVE  /\ mem' \in [Key -> Content]
           /\ hashes' \in [Key -> Content]
           /\ rows' \in [Key -> Content]
           /\ dirty' \subseteq Collection
           /\ audit' \in Seq(Event)
           /\ persisted' \in Nat
           /\ auditRows' \in Seq(Event)
BY DEF CommitFailed, TypeOK, rowVars

LEMMA ViewType == TypeOK => View \in [Key -> Content]
BY DEF TypeOK, View

LEMMA NextTypes == TypeOK /\ [Next]_vars => TypeOK'
<1> SUFFICES ASSUME TypeOK, [Next]_vars
             PROVE  TypeOK'
  OBVIOUS
<1> USE DEF storeVars, rowVars, ghostVars
<1>1. ASSUME NEW m \in {"GET", "POST"}, Accept(m)
      PROVE  TypeOK'
  BY <1>1 DEF TypeOK, Accept
<1>2. CASE Deny
  <2> DEFINE a == Append(audit, Absent)
  <2>1. a \in Seq(Event) /\ mem \in [Key -> Content] /\ dirty \in SUBSET Collection
    BY DEF TypeOK, Event
  <2>2. CommitOK(mem, dirty, a) \/ CommitFailed(mem, dirty, a)
    BY <1>2 DEF Deny
  <2> QED
    BY <1>2, <2>1, <2>2, CommitOKTypes, CommitFailedTypes DEF Deny, TypeOK
<1>3. ASSUME NEW k \in Key, NEW v \in Payload, Put(k, v)
      PROVE  TypeOK'
  BY <1>3 DEF TypeOK, Put, Content
<1>4. ASSUME NEW k \in Key, Pop(k)
      PROVE  TypeOK'
  BY <1>4 DEF TypeOK, Pop, Content
<1>5. ASSUME NEW k \in Key, Audit(k)
      PROVE  TypeOK'
  <2> DEFINE a == Append(audit, k)
             d == MarkDirty(dirty, k)
  <2>1. a \in Seq(Event) /\ mem \in [Key -> Content] /\ d \in SUBSET Collection
    BY DEF TypeOK, Event, MarkDirty
  <2>2. /\ CommitOK(mem, d, a) \/ CommitFailed(mem, d, a)
        /\ pc' \in {"handler", "idle"}
    BY <1>5 DEF Audit
  <2> QED
    BY <1>5, <2>1, <2>2, CommitOKTypes, CommitFailedTypes DEF Audit, TypeOK
<1>6. CASE Raise
  BY <1>6 DEF TypeOK, Raise
<1>7. CASE Return
  BY <1>7 DEF TypeOK, Return
<1>8. CASE Flush
  <2>1. audit \in Seq(Event) /\ mem \in [Key -> Content] /\ {} \in SUBSET Collection
    BY DEF TypeOK
  <2> QED
    BY <1>8, <2>1, ViewType, CommitOKTypes DEF Flush, CommitAllOK, TypeOK
<1>9. CASE FlushFailed
  <2>1. audit \in Seq(Event) /\ mem \in [Key -> Content] /\ dirty \in SUBSET Collection
    BY DEF TypeOK
  <2> QED
    BY <1>9, <2>1, CommitFailedTypes DEF FlushFailed, CommitAllFailed, TypeOK
<1>10. ASSUME NEW v \in Payload, RecordUsage(v)
       PROVE  TypeOK'
  <2> DEFINE m == [mem EXCEPT ![UsageKey] = v]
             d == dirty \cup {CollectionOf[UsageKey]}
  <2>1. /\ audit \in Seq(Event)
        /\ mem \in [Key -> Content]
        /\ m \in [Key -> Content]
        /\ d \in SUBSET Collection
    BY DEF TypeOK, Content
  <2>2. /\ CommitOK(m, d, audit) \/ CommitFailed(mem, d, audit)
        /\ touched' \in {touched, touched \cup {UsageKey}}
    BY <1>10 DEF RecordUsage
  <2> QED
    BY <1>10, <2>1, <2>2, CommitOKTypes, CommitFailedTypes DEF RecordUsage, TypeOK
<1>11. CASE SkipUsage
  BY <1>11 DEF TypeOK, SkipUsage
<1>12. CASE Restart
  BY <1>12 DEF TypeOK, Restart, Loaded, Content
<1>13. CASE UNCHANGED vars
  BY <1>13 DEF TypeOK, vars
<1> QED
  BY <1>1, <1>2, <1>3, <1>4, <1>5, <1>6, <1>7, <1>8, <1>9, <1>10, <1>11, <1>12, <1>13
     DEF Next

(* Every reachable state is well typed: in particular the dirty set only   *)
(* ever holds collections, whatever resource types are audited.            *)
THEOREM TypeCorrect == Spec => []TypeOK
<1>1. Init => TypeOK
  BY InitTypes
<1>2. TypeOK /\ [Next]_vars => TypeOK'
  BY NextTypes
<1> QED
  BY <1>1, <1>2, PTL DEF Spec

-----------------------------------------------------------------------------
(* The inductive invariant.  AckedSurvives speaks of rows and promises     *)
(* only; to be preserved by the next commit it needs to know that the      *)
(* service still holds the promised value, that the hash cache is right    *)
(* about what may be skipped and deleted, and that no market-data row      *)
(* lacks a record.                                                         *)

Settled == \A k \in Key \ touched : rows[k] = View[k] /\ promised[k] = View[k]

IInv ==
    /\ TypeOK
    /\ CacheMatchesRows
    /\ BarsHaveRecords(mem, rows)
    /\ TelemetryNotAhead
    /\ Settled

(* A commit of the records m, whose types and cache are right, keeps the   *)
(* cache right, shows clients what they saw, moves no row but towards what *)
(* they saw, and makes a record durable that is in its scope.              *)
LEMMA CommitOKEffect ==
    ASSUME TypeOK, CacheMatchesRows,
           NEW m \in [Key -> Content], BarsHaveRecords(m, rows),
           NEW d \in SUBSET Collection, NEW a, CommitOK(m, d, a)
    PROVE  /\ CacheMatchesRows'
           /\ BarsHaveRecords(mem, rows)'
           /\ View' = ViewOf(m, rows)
           /\ \A k \in Key : rows'[k] # rows[k] => rows'[k] = ViewOf(m, rows)[k]
           /\ d = {} => rows' = ViewOf(m, rows)
           /\ \A k \in Key : ~IsBar(k) => mem'[k] = m[k]
           /\ \A k \in Key : /\ ~IsBar(k)
                             /\ m[k] = rows[k] \/ (m[k] # Absent /\ CollectionOf[k] \in d)
                             => rows'[k] = m[k]
<1>0. /\ hashes = Loaded(rows)
      /\ rows' = RowsAfter(m, Loaded(rows), d, rows)
      /\ hashes' = HashesAfter(m, Loaded(rows), d)
      /\ mem' = MemAfter(m, d)
      /\ rows \in [Key -> Content]
  BY DEF CacheMatchesRows, CommitOK, TypeOK
<1>1. CacheMatchesRows'
  BY <1>0, CommitKeepsCache DEF CacheMatchesRows
<1>2. View' = ViewOf(m, rows)
  <2>1. View' = ViewOf(mem', rows')
    BY DEF View, ViewOf
  <2> QED
    BY <2>1, <1>0, CommitKeepsView
<1>3. \A k \in Key : rows'[k] # rows[k] => rows'[k] = ViewOf(m, rows)[k]
  BY <1>0, CommitWritesView
<1>4. d = {} => rows' = ViewOf(m, rows)
  BY <1>0, FullCommit
<1>5. \A k \in Key : ~IsBar(k) => mem'[k] = m[k]
  BY <1>0 DEF MemAfter, BarsOf
<1>6. ASSUME NEW k \in Key, ~IsBar(k),
             m[k] = rows[k] \/ (m[k] # Absent /\ CollectionOf[k] \in d)
      PROVE  rows'[k] = m[k]
  <2>1. CASE k \in Changed(m, Loaded(rows), Target(d))
    BY <2>1, <1>0 DEF RowsAfter
  <2>2. CASE k \in Deleted(m, Loaded(rows), Target(d), d)
    <3>1. m[k] = Absent
      BY <2>2 DEF Deleted, Deletable, CurrentKeys, Target
    <3> QED
      BY <2>2, <3>1, <1>0 DEF RowsAfter
  <2>3. CASE /\ k \notin Changed(m, Loaded(rows), Target(d))
             /\ k \notin Deleted(m, Loaded(rows), Target(d), d)
    <3>1. rows'[k] = rows[k]
      BY <2>3, <1>0 DEF RowsAfter
    <3>2. CASE m[k] # rows[k]
      BY <3>2, <2>3, <1>6 DEF Changed, CurrentKeys, Target, Loaded
    <3> QED
      BY <3>1, <3>2
  <2> QED
    BY <2>1, <2>2, <2>3
<1>7. BarsHaveRecords(mem, rows)'
  <2> SUFFICES ASSUME NEW k \in Key, CollectionOf[k] = MarketData, ~IsBar(k),
                      mem'[k] = Absent
               PROVE  rows'[k] = Absent
    BY DEF BarsHaveRecords
  <2>1. m[k] = Absent /\ rows[k] = Absent
    BY <1>5 DEF BarsHaveRecords
  <2> QED
    BY <2>1, <1>6
<1> QED
  BY <1>1, <1>2, <1>3, <1>4, <1>5, <1>6, <1>7

(* A commit that fails leaves rows and cache as they were. *)
LEMMA CommitFailedEffect ==
    ASSUME CacheMatchesRows, NEW d, NEW a, CommitFailed(mem, d, a)
    PROVE  /\ CacheMatchesRows'
           /\ rows' = rows /\ mem' = mem /\ View' = View
BY DEF CommitFailed, rowVars, CacheMatchesRows, View

(* The usage metric is never a bar. *)
LEMMA UsageIsNoBar == ~IsBar(UsageKey) /\ UsageKey \in Key
BY DEF IsBar, Lazy

(* A commit of the records in memory, in any scope, with any outcome, as   *)
(* part of a step that makes no promise.                                   *)
LEMMA PlainCommit ==
    ASSUME IInv, NEW d \in SUBSET Collection, NEW a,
           CommitOK(mem, d, a) \/ CommitFailed(mem, d, a),
           UNCHANGED ghostVars
    PROVE  /\ CacheMatchesRows'
           /\ BarsHaveRecords(mem, rows)'
           /\ TelemetryNotAhead'
           /\ Settled'
<1> USE DEF IInv
<1>0. mem \in [Key -> Content] /\ ViewOf(mem, rows) = View
  BY DEF TypeOK, ViewOf, View
<1>1. CASE CommitOK(mem, d, a)
  <2>1. Settled'
    BY <1>0, <1>1, CommitOKEffect DEF Settled, ghostVars
  <2>2. TelemetryNotAhead'
    BY <1>0, <1>1, CommitOKEffect, UsageIsNoBar DEF TelemetryNotAhead
  <2> QED
    BY <1>0, <1>1, <2>1, <2>2, CommitOKEffect
<1>2. CASE CommitFailed(mem, d, a)
  BY <1>2, CommitFailedEffect DEF Settled, ghostVars, TelemetryNotAhead, BarsHaveRecords
<1> QED
  BY <1>1, <1>2

LEMMA InitInv == Init => IInv
BY InitTypes DEF Init, IInv, CacheMatchesRows, BarsHaveRecords, TelemetryNotAhead, Settled,
   Loaded, View, IsBar, Lazy

LEMMA NextInv == IInv /\ [Next]_vars => IInv'
<1> SUFFICES ASSUME IInv, [Next]_vars
             PROVE  /\ CacheMatchesRows'
                    /\ BarsHaveRecords(mem, rows)'
                    /\ TelemetryNotAhead'
                    /\ Settled'
  BY NextTypes DEF IInv
<1> DEFINE Goal == /\ CacheMatchesRows'
                   /\ BarsHaveRecords(mem, rows)'
                   /\ TelemetryNotAhead'
                   /\ Settled'
<1>0. /\ mem \in [Key -> Content] /\ dirty \in SUBSET Collection
      /\ {} \in SUBSET Collection /\ rows \in [Key -> Content]
      /\ TypeOK /\ CacheMatchesRows /\ BarsHaveRecords(mem, rows)
      /\ TelemetryNotAhead /\ Settled
  BY DEF IInv, TypeOK
<1>1. ASSUME UNCHANGED <<storeVars, rowVars, ghostVars>>
      PROVE  Goal
  BY <1>1, <1>0 DEF storeVars, rowVars, ghostVars, CacheMatchesRows, BarsHaveRecords,
                    TelemetryNotAhead, Settled, View
<1>2. CASE Deny
  BY <1>2, <1>0, PlainCommit DEF Deny
<1>3. ASSUME NEW k \in Key, NEW v \in Payload, Put(k, v)
      PROVE  Goal
  <2>1. /\ k # UsageKey
        /\ mem' = [mem EXCEPT ![k] = v]
        /\ touched' = touched \cup {k}
        /\ UNCHANGED <<hashes, rows, promised>>
    BY <1>3 DEF Put, rowVars
  <2>2. BarsHaveRecords(mem, rows)'
    BY <2>1, <1>0 DEF BarsHaveRecords
  <2>3. Settled'
    BY <2>1, <1>0 DEF Settled, View
  <2> QED
    BY <2>1, <2>2, <2>3, <1>0 DEF CacheMatchesRows, TelemetryNotAhead
<1>4. ASSUME NEW k \in Key, Pop(k)
      PROVE  Goal
  <2>1. /\ k # UsageKey /\ CollectionOf[k] # MarketData
        /\ mem' = [mem EXCEPT ![k] = Absent]
        /\ touched' = touched \cup {k}
        /\ UNCHANGED <<hashes, rows, promised>>
    BY <1>4 DEF Pop, rowVars
  <2>2. BarsHaveRecords(mem, rows)'
    BY <2>1, <1>0 DEF BarsHaveRecords
  <2>3. Settled'
    BY <2>1, <1>0 DEF Settled, View
  <2> QED
    BY <2>1, <2>2, <2>3, <1>0 DEF CacheMatchesRows, TelemetryNotAhead
<1>5. ASSUME NEW k \in Key, Audit(k)
      PROVE  Goal
  <2> DEFINE d == MarkDirty(dirty, k)
             a == Append(audit, k)
  <2>1. d \in SUBSET Collection
    BY <1>0 DEF MarkDirty
  <2>2. /\ CommitOK(mem, d, a) \/ CommitFailed(mem, d, a)
        /\ UNCHANGED ghostVars
    BY <1>5 DEF Audit
  <2> QED
    BY <2>1, <2>2, PlainCommit
<1>6. CASE Flush
  <2>1. CommitOK(mem, {}, audit) /\ promised' = View /\ touched' = {}
    BY <1>6 DEF Flush, CommitAllOK
  <2>2. ViewOf(mem, rows) = View
    BY DEF ViewOf, View
  <2>3. rows' = View /\ View' = View
    BY <2>1, <2>2, <1>0, CommitOKEffect
  <2>4. Settled'
    BY <2>1, <2>3 DEF Settled
  <2>5. TelemetryNotAhead'
    BY <2>1, <1>0, CommitOKEffect, UsageIsNoBar DEF TelemetryNotAhead
  <2> QED
    BY <2>1, <2>4, <2>5, <1>0, CommitOKEffect
<1>7. CASE FlushFailed
  BY <1>7, <1>0, PlainCommit DEF FlushFailed, CommitAllFailed
<1>8. ASSUME NEW v \in Payload, RecordUsage(v)
      PROVE  Goal
  <2> DEFINE m == [mem EXCEPT ![UsageKey] = v]
             d == dirty \cup {CollectionOf[UsageKey]}
  <2>1. CASE /\ CommitOK(m, d, audit)
             /\ touched' = touched \cup {UsageKey}
             /\ promised' = promised
    <3>1. /\ m \in [Key -> Content] /\ d \in SUBSET Collection
          /\ BarsHaveRecords(m, rows)
      BY <1>0, UsageIsNoBar DEF Content, BarsHaveRecords
    <3>2. \A k \in Key \ {UsageKey} : ViewOf(m, rows)[k] = View[k]
      BY <1>0 DEF ViewOf, View
    <3> HIDE DEF m, d
    <3>3. Settled'
      <4>1. /\ View' = ViewOf(m, rows)
            /\ \A k \in Key : rows'[k] # rows[k] => rows'[k] = ViewOf(m, rows)[k]
        BY <2>1, <3>1, <1>0, CommitOKEffect
      <4>2. SUFFICES ASSUME NEW k \in Key \ touched'
                     PROVE  rows'[k] = View'[k] /\ promised'[k] = View'[k]
        BY DEF Settled
      <4>3. k \in Key \ touched /\ k # UsageKey
        BY <2>1, <4>2
      <4>4. rows[k] = View[k] /\ promised[k] = View[k] /\ View'[k] = View[k]
        BY <4>1, <4>3, <3>2, <1>0 DEF Settled
      <4> QED
        BY <4>1, <4>3, <4>4, <2>1
    <3>4. m[UsageKey] # Absent /\ CollectionOf[UsageKey] \in d
      BY <1>0, UsageIsNoBar DEF m, d
    <3>5. TelemetryNotAhead'
      BY <2>1, <3>1, <3>4, <1>0, CommitOKEffect, UsageIsNoBar DEF TelemetryNotAhead
    <3> QED
      BY <2>1, <3>1, <3>3, <3>5, <1>0, CommitOKEffect
  <2>2. CASE CommitFailed(mem, d, audit) /\ UNCHANGED ghostVars
    <3>1. d \in SUBSET Collection
      BY <1>0
    <3> QED
      BY <2>2, <3>1, PlainCommit
  <2> QED
    BY <1>8, <2>1, <2>2 DEF RecordUsage, ghostVars
<1>9. CASE Restart
  <2>1. /\ mem' = Loaded(rows) /\ hashes' = Loaded(rows) /\ rows' = rows
        /\ promised' = [k \in Key |-> IF k \in touched THEN rows[k] ELSE promised[k]]
        /\ touched' = {}
    BY <1>9 DEF Restart, rowVars
  <2>2. View' = rows
    BY <2>1, <1>0 DEF View, Loaded
  <2>3. promised' = rows
    BY <2>1, <1>0 DEF Settled, IInv, TypeOK
  <2> QED
    BY <2>1, <2>2, <2>3, UsageIsNoBar
       DEF CacheMatchesRows, BarsHaveRecords, TelemetryNotAhead, Settled, Loaded
<1>10. CASE Raise \/ Return \/ SkipUsage \/ \E m \in {"GET", "POST"} : Accept(m)
  BY <1>10, <1>1 DEF Raise, Return, SkipUsage, Accept
<1>11. CASE UNCHANGED vars
  BY <1>11, <1>1 DEF vars
<1> QED
  BY <1>2, <1>3, <1>4, <1>5, <1>6, <1>7, <1>8, <1>9, <1>10, <1>11 DEF Next

LEMMA Inductive == Spec => []IInv
<1>1. Init => IInv
  BY InitInv
<1>2. IInv /\ [Next]_vars => IInv'
  BY NextInv
<1> QED
  BY <1>1, <1>2, PTL DEF Spec

(* The hash cache that decides what a commit may skip and delete is exact  *)
(* in every reachable state.                                               *)
THEOREM CacheIsExact == Spec => []CacheMatchesRows
<1>1. IInv => CacheMatchesRows
  BY DEF IInv
<1> QED
  BY <1>1, Inductive, PTL

(* A write answered with 200 stays durable until somebody writes the       *)
(* record again, through failed commits, failed requests and restarts.     *)
THEOREM AcknowledgedWritesSurvive == Spec => []AckedSurvives
<1>1. IInv => AckedSurvives
  BY DEF IInv, Settled, AckedSurvives
<1> QED
  BY <1>1, Inductive, PTL

(* The usage count in memory is the durable one. *)
THEOREM TelemetryIsDurable == Spec => []TelemetryNotAhead
<1>1. IInv => TelemetryNotAhead
  BY DEF IInv
<1> QED
  BY <1>1, Inductive, PTL

-----------------------------------------------------------------------------
(* The audit trail *)

(* A commit appends to the durable trail exactly what the log has beyond   *)
(* it.                                                                     *)
LEMMA TrailAfterCommit ==
    ASSUME AuditTrailIsPrefix, audit \in Seq(Event), auditRows \in Seq(Event),
           NEW m, NEW d, NEW a \in Seq(Event),
           Len(audit) <= Len(a), SubSeq(a, 1, Len(audit)) = audit,
           CommitOK(m, d, a)
    PROVE  AuditTrailIsPrefix'
<1>1. /\ persisted \in Nat /\ persisted <= Len(audit) /\ Len(audit) \in Nat
      /\ Len(a) \in Nat /\ auditRows = SubSeq(audit, 1, persisted)
  BY DEF AuditTrailIsPrefix
<1>2. SubSeq(audit, 1, persisted) = SubSeq(a, 1, persisted)
  <2>1. CASE persisted = 0
    BY <2>1, SubSeqEmpty
  <2>2. CASE persisted > 0
    BY <2>2, <1>1, SubSeqOfSubSeq
  <2> QED
    BY <2>1, <2>2, <1>1
<1>3. auditRows \o SubSeq(a, persisted + 1, Len(a)) = SubSeq(a, 1, Len(a))
  <2>1. /\ 1 \in 1 .. Len(a) + 1
        /\ persisted \in 1 - 1 .. Len(a)
        /\ Len(a) \in persisted .. Len(a)
    BY <1>1
  <2>2. SubSeq(a, 1, persisted) \o SubSeq(a, persisted + 1, Len(a)) = SubSeq(a, 1, Len(a))
    BY <2>1, ConcatAdjacentSubSeq
  <2> QED
    BY <2>2, <1>1, <1>2
<1>4. auditRows' = a /\ audit' = a /\ persisted' = Len(a)
  BY <1>3, SubSeqFull DEF CommitOK
<1> QED
  BY <1>4, <1>1, SubSeqFull DEF AuditTrailIsPrefix

LEMMA TrailAfterFailure ==
    ASSUME AuditTrailIsPrefix, audit \in Seq(Event), auditRows \in Seq(Event),
           NEW m, NEW d, NEW a \in Seq(Event),
           Len(audit) <= Len(a), SubSeq(a, 1, Len(audit)) = audit,
           CommitFailed(m, d, a)
    PROVE  AuditTrailIsPrefix'
<1>1. /\ persisted \in Nat /\ persisted <= Len(audit) /\ Len(audit) \in Nat
      /\ Len(a) \in Nat /\ auditRows = SubSeq(audit, 1, persisted)
  BY DEF AuditTrailIsPrefix
<1>2. SubSeq(audit, 1, persisted) = SubSeq(a, 1, persisted)
  <2>1. CASE persisted = 0
    BY <2>1, SubSeqEmpty
  <2>2. CASE persisted > 0
    BY <2>2, <1>1, SubSeqOfSubSeq
  <2> QED
    BY <2>1, <2>2, <1>1
<1> QED
  BY <1>1, <1>2 DEF AuditTrailIsPrefix, CommitFailed, rowVars

LEMMA NextTrail == TypeOK /\ AuditTrailIsPrefix /\ [Next]_vars => AuditTrailIsPrefix'
<1> SUFFICES ASSUME TypeOK, AuditTrailIsPrefix, [Next]_vars
             PROVE  AuditTrailIsPrefix'
  OBVIOUS
<1>0. /\ audit \in Seq(Event) /\ auditRows \in Seq(Event) /\ Len(audit) \in Nat
      /\ SubSeq(audit, 1, Len(audit)) = audit
  BY SubSeqFull DEF TypeOK
<1>1. ASSUME NEW e \in Event
      PROVE  /\ Append(audit, e) \in Seq(Event)
             /\ Len(audit) <= Len(Append(audit, e))
             /\ SubSeq(Append(audit, e), 1, Len(audit)) = audit
  <2>1. /\ Append(audit, e) \in Seq(Event)
        /\ Len(Append(audit, e)) = Len(audit) + 1
        /\ Append(audit, e) = audit \o <<e>>
    BY <1>0, <1>1, AppendProperties, AppendIsConcat
  <2>2. SubSeq(Append(audit, e), 1, Len(audit)) = audit
    <3>1. CASE Len(audit) = 0
      BY <3>1, <1>0, SubSeqEmpty, EmptySeq
    <3>2. CASE Len(audit) > 0
      BY <3>2, <2>1, <1>0, <1>1, SubSeqOfConcat1
    <3> QED
      BY <3>1, <3>2, <1>0
  <2> QED
    BY <2>1, <2>2, <1>0
<1>2. ASSUME UNCHANGED <<audit, persisted, auditRows>>
      PROVE  AuditTrailIsPrefix'
  BY <1>2 DEF AuditTrailIsPrefix
<1>3. CASE Deny
  <2>1. Absent \in Event
    BY DEF Event
  <2> QED
    BY <1>3, <1>0, <1>1, <2>1, TrailAfterCommit, TrailAfterFailure DEF Deny
<1>4. ASSUME NEW k \in Key, Audit(k)
      PROVE  AuditTrailIsPrefix'
  <2>1. k \in Event
    BY DEF Event
  <2>2. \/ CommitOK(mem, MarkDirty(dirty, k), Append(audit, k))
        \/ CommitFailed(mem, MarkDirty(dirty, k), Append(audit, k))
    BY <1>4 DEF Audit
  <2> QED
    BY <2>1, <2>2, <1>0, <1>1, TrailAfterCommit, TrailAfterFailure
<1>5. CASE Flush
  BY <1>5, <1>0, TrailAfterCommit DEF Flush, CommitAllOK
<1>6. CASE FlushFailed
  BY <1>6, <1>0, TrailAfterFailure DEF FlushFailed, CommitAllFailed
<1>7. ASSUME NEW v \in Payload, RecordUsage(v)
      PROVE  AuditTrailIsPrefix'
  <2> DEFINE m == [mem EXCEPT ![UsageKey] = v]
             d == dirty \cup {CollectionOf[UsageKey]}
  <2>1. CommitOK(m, d, audit) \/ CommitFailed(mem, d, audit)
    BY <1>7 DEF RecordUsage
  <2> QED
    BY <2>1, <1>0, TrailAfterCommit, TrailAfterFailure
<1>8. CASE Restart
  <2>1. /\ audit' = auditRows /\ auditRows' = auditRows /\ persisted' = Len(auditRows)
        /\ SubSeq(auditRows, 1, Len(auditRows)) = auditRows
    BY <1>8, <1>0, SubSeqFull DEF Restart, rowVars
  <2> QED
    BY <2>1, <1>0 DEF AuditTrailIsPrefix
<1>9. CASE \/ Raise \/ Return \/ SkipUsage
           \/ \E m \in {"GET", "POST"} : Accept(m)
           \/ \E k \in Key, v \in Payload : Put(k, v)
           \/ \E k \in Key : Pop(k)
  BY <1>9, <1>2 DEF Raise, Return, SkipUsage, Accept, Put, Pop, storeVars, rowVars
<1>10. CASE UNCHANGED vars
  BY <1>10, <1>2 DEF vars, storeVars, rowVars
<1> QED
  BY <1>3, <1>4, <1>5, <1>6, <1>7, <1>8, <1>9, <1>10 DEF Next

(* No audit event is skipped, repeated or reordered in the durable trail,  *)
(* whichever commits fail and wherever the process dies.                   *)
THEOREM AuditTrail == Spec => []AuditTrailIsPrefix
<1>1. Init => AuditTrailIsPrefix
  BY SubSeqEmpty, EmptySeq DEF Init, AuditTrailIsPrefix
<1>2. TypeOK /\ AuditTrailIsPrefix /\ [Next]_vars => AuditTrailIsPrefix'
  BY NextTrail
<1> QED
  BY <1>1, <1>2, TypeCorrect, PTL DEF Spec

-----------------------------------------------------------------------------
(* Bars and audited records *)

(* A commit of the records m writes every bar that m holds in its scope,   *)
(* and every other record of its scope: what is not Absent is in the rows. *)
LEMMA CommitWritesScope ==
    ASSUME TypeOK, CacheMatchesRows,
           NEW m \in [Key -> Content], BarsHaveRecords(m, rows),
           NEW d \in SUBSET Collection, NEW a, CommitOK(m, d, a),
           NEW k \in Key, CollectionOf[k] \in Target(d), m[k] # Absent
    PROVE  rows'[k] = m[k]
<1>1. /\ hashes = Loaded(rows) /\ rows \in [Key -> Content]
      /\ rows' = RowsAfter(m, Loaded(rows), d, rows)
      /\ k \in CurrentKeys(m, Target(d))
  BY DEF CacheMatchesRows, CommitOK, TypeOK, CurrentKeys
<1>2. CASE k \in Changed(m, Loaded(rows), Target(d))
  BY <1>1, <1>2 DEF RowsAfter
<1>3. CASE k \notin Changed(m, Loaded(rows), Target(d))
  <2>1. k \notin Deleted(m, Loaded(rows), Target(d), d)
    BY <1>1 DEF Deleted, Deletable
  <2>2. Loaded(rows)[k] = m[k]
    BY <1>1, <1>3 DEF Changed
  <2> QED
    BY <1>1, <1>3, <2>1, <2>2 DEF RowsAfter, Loaded
<1> QED
  BY <1>2, <1>3

(* A bar that a commit takes out of memory is in the typed table. *)
LEMMA CommitStoresBars ==
    ASSUME IInv, NEW m \in [Key -> Content], BarsHaveRecords(m, rows),
           NEW d \in SUBSET Collection, NEW a,
           CommitOK(m, d, a) \/ CommitFailed(m, d, a),
           NEW k \in Key, m[k] # Absent, mem'[k] = Absent
    PROVE  rows'[k] = m[k]
<1>1. CommitOK(m, d, a)
  BY DEF CommitFailed
<1>2. k \in BarsOf(m, Target(d))
  BY <1>1 DEF CommitOK, MemAfter
<1> QED
  BY <1>1, <1>2, CommitWritesScope DEF IInv, BarsOf, CurrentKeys

(* No commit, whatever its scope, drops a bar it did not write. *)
THEOREM BarsAreStored == Spec => BarsLeaveMemoryStored
<1>1. ASSUME IInv, [Next]_vars, ~Restart, NEW k \in Key,
             IsBar(k), mem[k] # Absent, mem'[k] = Absent
      PROVE  rows'[k] = mem[k]
  <2>0. /\ mem \in [Key -> Content] /\ dirty \in SUBSET Collection
        /\ {} \in SUBSET Collection /\ BarsHaveRecords(mem, rows)
        /\ CollectionOf[k] = MarketData /\ k # UsageKey
    BY <1>1, UsageIsNoBar DEF IInv, TypeOK, IsBar, Lazy
  <2>1. CASE Deny
    BY <1>1, <2>0, <2>1, CommitStoresBars DEF Deny
  <2>2. ASSUME NEW j \in Key, NEW v \in Payload, Put(j, v)
        PROVE  FALSE
    BY <1>1, <2>0, <2>2 DEF Put
  <2>3. ASSUME NEW j \in Key, Pop(j)
        PROVE  FALSE
    BY <1>1, <2>0, <2>3 DEF Pop
  <2>4. ASSUME NEW j \in Key, Audit(j)
        PROVE  rows'[k] = mem[k]
    <3>1. MarkDirty(dirty, j) \in SUBSET Collection
      BY <2>0 DEF MarkDirty
    <3> QED
      BY <1>1, <2>0, <2>4, <3>1, CommitStoresBars DEF Audit
  <2>5. CASE Flush
    BY <1>1, <2>0, <2>5, CommitStoresBars DEF Flush, CommitAllOK
  <2>6. CASE FlushFailed
    BY <1>1, <2>0, <2>6, CommitStoresBars DEF FlushFailed, CommitAllFailed
  <2>7. ASSUME NEW v \in Payload, RecordUsage(v)
        PROVE  rows'[k] = mem[k]
    <3> DEFINE m == [mem EXCEPT ![UsageKey] = v]
               d == dirty \cup {CollectionOf[UsageKey]}
    <3>1. /\ m \in [Key -> Content] /\ d \in SUBSET Collection
          /\ BarsHaveRecords(m, rows) /\ m[k] = mem[k]
      BY <2>0, UsageIsNoBar DEF Content, BarsHaveRecords
    <3>2. CommitOK(m, d, audit) \/ CommitFailed(mem, d, audit)
      BY <2>7 DEF RecordUsage
    <3> HIDE DEF m, d
    <3> QED
      BY <1>1, <2>0, <3>1, <3>2, CommitStoresBars
  <2>8. CASE \/ Raise \/ Return \/ SkipUsage
             \/ \E m \in {"GET", "POST"} : Accept(m)
             \/ UNCHANGED vars
    BY <1>1, <2>8 DEF Raise, Return, SkipUsage, Accept, storeVars, vars
  <2> QED
    BY <1>1, <2>1, <2>2, <2>3, <2>4, <2>5, <2>6, <2>7, <2>8 DEF Next
<1>2. IInv /\ [Next]_vars =>
        [\/ Restart
         \/ \A k \in Key : IsBar(k) /\ mem[k] # Absent /\ mem'[k] = Absent
                            => rows'[k] = mem[k]]_vars
  BY <1>1
<1> QED
  BY <1>2, Inductive, PTL DEF Spec, BarsLeaveMemoryStored

(* What the log has beyond the durable trail waits for a commit that must  *)
(* write its records: their collections are dirty, if their types name     *)
(* them.  The usage metric is not audited.                                 *)
Named(k) == CollectionOf[k] \in Candidates[FiledAs[k]]

Waiting ==
    \A i \in (Len(auditRows) + 1) .. Len(audit) :
        audit[i] # Absent =>
            audit[i] # UsageKey /\ (Named(audit[i]) => CollectionOf[audit[i]] \in dirty)

(* A log a that waits with the dirty set d. *)
WaitingIn(a, d) ==
    \A i \in (Len(auditRows) + 1) .. Len(a) :
        a[i] # Absent => a[i] # UsageKey /\ (Named(a[i]) => CollectionOf[a[i]] \in d)

LEMMA WaitingAfter ==
    ASSUME TypeOK, AuditTrailIsPrefix', NEW m, NEW d, NEW a \in Seq(Event),
           WaitingIn(a, d), CommitOK(m, d, a) \/ CommitFailed(m, d, a)
    PROVE  Waiting'
<1>1. CASE CommitOK(m, d, a)
  <2>1. Len(auditRows') = Len(audit') /\ Len(audit') \in Nat
    BY <1>1 DEF AuditTrailIsPrefix, CommitOK
  <2> QED
    BY <2>1 DEF Waiting
<1>2. CASE CommitFailed(m, d, a)
  BY <1>2 DEF CommitFailed, rowVars, Waiting, WaitingIn
<1> QED
  BY <1>1, <1>2

(* One more event keeps a log waiting, if its collection is marked. *)
LEMMA WaitingAppend ==
    ASSUME TypeOK, Waiting, NEW e \in Event, NEW d, dirty \subseteq d,
           e # Absent => e # UsageKey /\ (Named(e) => CollectionOf[e] \in d)
    PROVE  WaitingIn(Append(audit, e), d)
<1>1. /\ audit \in Seq(Event) /\ Len(audit) \in Nat /\ Len(auditRows) \in Nat
      /\ Len(Append(audit, e)) = Len(audit) + 1
      /\ \A i \in 1 .. Len(audit) : Append(audit, e)[i] = audit[i]
      /\ Append(audit, e)[Len(audit) + 1] = e
  BY DEF TypeOK
<1> QED
  BY <1>1 DEF Waiting, WaitingIn

LEMMA WaitingSame ==
    ASSUME Waiting, NEW d, dirty \subseteq d
    PROVE  WaitingIn(audit, d)
BY DEF Waiting, WaitingIn

LEMMA NextWaiting ==
    TypeOK /\ AuditTrailIsPrefix' /\ Waiting /\ [Next]_vars => Waiting'
<1> SUFFICES ASSUME TypeOK, AuditTrailIsPrefix', Waiting, [Next]_vars
             PROVE  Waiting'
  OBVIOUS
<1>0. /\ audit \in Seq(Event) /\ dirty \in SUBSET Collection
      /\ WaitingIn(audit, dirty)
      /\ \A e \in Event : Append(audit, e) \in Seq(Event)
  BY WaitingSame DEF TypeOK
<1>1. CASE UNCHANGED <<audit, auditRows, dirty>>
  BY <1>1 DEF Waiting
<1>2. CASE Deny
  <2>1. Absent \in Event /\ WaitingIn(Append(audit, Absent), dirty)
    BY WaitingAppend DEF Event
  <2> QED
    BY <1>0, <1>2, <2>1, WaitingAfter DEF Deny
<1>3. ASSUME NEW k \in Key, Audit(k)
      PROVE  Waiting'
  <2>1. k \in Event /\ WaitingIn(Append(audit, k), MarkDirty(dirty, k))
    BY <1>3, WaitingAppend DEF Event, Audit, MarkDirty, Named
  <2>2. \/ CommitOK(mem, MarkDirty(dirty, k), Append(audit, k))
        \/ CommitFailed(mem, MarkDirty(dirty, k), Append(audit, k))
    BY <1>3 DEF Audit
  <2> QED
    BY <1>0, <2>1, <2>2, WaitingAfter
<1>4. CASE Flush
  <2>1. Len(auditRows') = Len(audit') /\ Len(audit') \in Nat
    BY <1>0, <1>4 DEF AuditTrailIsPrefix, Flush, CommitAllOK, CommitOK
  <2> QED
    BY <2>1 DEF Waiting
<1>5. CASE FlushFailed
  BY <1>0, <1>5, WaitingAfter DEF FlushFailed, CommitAllFailed
<1>6. ASSUME NEW v \in Payload, RecordUsage(v)
      PROVE  Waiting'
  <2> DEFINE m == [mem EXCEPT ![UsageKey] = v]
             d == dirty \cup {CollectionOf[UsageKey]}
  <2>1. CommitOK(m, d, audit) \/ CommitFailed(mem, d, audit)
    BY <1>6 DEF RecordUsage
  <2>2. WaitingIn(audit, d)
    BY WaitingSame
  <2> HIDE DEF m, d
  <2> QED
    BY <1>0, <2>1, <2>2, WaitingAfter
<1>7. CASE Restart
  <2>1. audit' = auditRows' /\ Len(audit') \in Nat
    BY <1>7 DEF Restart, rowVars, TypeOK
  <2> QED
    BY <2>1 DEF Waiting
<1>8. CASE \/ Raise \/ Return \/ SkipUsage
           \/ \E m \in {"GET", "POST"} : Accept(m)
           \/ \E k \in Key, v \in Payload : Put(k, v)
           \/ \E k \in Key : Pop(k)
           \/ UNCHANGED vars
  BY <1>1, <1>8 DEF Raise, Return, SkipUsage, Accept, Put, Pop, storeVars, rowVars, vars
<1> QED
  BY <1>2, <1>3, <1>4, <1>5, <1>6, <1>7, <1>8 DEF Next

(* A commit that takes events to the trail writes their records, those of  *)
(* its scope at least.                                                     *)
LEMMA ScopeIsDurable ==
    ASSUME IInv, NEW m \in [Key -> Content], BarsHaveRecords(m, rows),
           NEW d \in SUBSET Collection, NEW a,
           CommitOK(m, d, a) \/ CommitFailed(m, d, a),
           auditRows' # auditRows,
           NEW k \in Key, CollectionOf[k] \in Target(d), m[k] = mem[k]
    PROVE  rows'[k] = View[k] \/ View[k] = Absent
<1>1. /\ CommitOK(m, d, a)
      /\ TypeOK /\ CacheMatchesRows
  BY DEF IInv, CommitFailed, rowVars
<1>2. CASE m[k] # Absent
  BY <1>1, <1>2, CommitWritesScope DEF View
<1>3. CASE m[k] = Absent /\ ~IsBar(k)
  BY <1>3 DEF View
<1>4. CASE m[k] = Absent /\ IsBar(k)
  <2>1. rows'[k] # rows[k] => rows'[k] = ViewOf(m, rows)[k]
    BY <1>1, CommitOKEffect
  <2> QED
    BY <1>4, <2>1 DEF ViewOf, View
<1> QED
  BY <1>2, <1>3, <1>4

(* No event is stored ahead of the record it attests, whatever failed      *)
(* before.                                                                 *)
THEOREM AuditedRecords == Spec => AuditedRecordDurable
<1> DEFINE Durable ==
      \A i \in (Len(auditRows) + 1) .. Len(auditRows') :
          LET k == auditRows'[i]
          IN (/\ k # Absent
              /\ \/ CollectionOf[k] \in Candidates[FiledAs[k]]
                 \/ /\ Candidates[FiledAs[k]] = {}
                    /\ i = Len(auditRows') /\ pc = "handler" /\ dirty = {})
             => rows'[k] = View[k] \/ View[k] = Absent
<1>1. ASSUME IInv, TypeOK', AuditTrailIsPrefix', Waiting, [Next]_vars
      PROVE  Durable
  <2> SUFFICES ASSUME NEW i \in (Len(auditRows) + 1) .. Len(auditRows'),
                      auditRows'[i] # Absent,
                      \/ Named(auditRows'[i])
                      \/ /\ Candidates[FiledAs[auditRows'[i]]] = {}
                         /\ i = Len(auditRows') /\ pc = "handler" /\ dirty = {}
               PROVE  \/ rows'[auditRows'[i]] = View[auditRows'[i]]
                      \/ View[auditRows'[i]] = Absent
    BY DEF Named
  <2> DEFINE k == auditRows'[i]
  <2>0. /\ mem \in [Key -> Content] /\ dirty \in SUBSET Collection
        /\ {} \in SUBSET Collection /\ BarsHaveRecords(mem, rows)
        /\ audit \in Seq(Event) /\ audit' \in Seq(Event) /\ auditRows' \in Seq(Event)
        /\ Len(audit) \in Nat /\ Len(auditRows) \in Nat
        /\ TypeOK /\ Event = Key \cup {Absent}
    BY <1>1 DEF IInv, TypeOK, Event
  <2>1. /\ i \in 1 .. Len(auditRows') /\ k \in Key
        /\ auditRows' # auditRows
        /\ i <= Len(audit') /\ k = audit'[i]
    BY <1>1, <2>0 DEF AuditTrailIsPrefix
  <2>2. ASSUME audit' = audit, pc # "handler"
        PROVE  k # UsageKey /\ CollectionOf[k] \in dirty
    BY <2>1, <2>2, <2>0, <1>1 DEF Waiting
  <2>3. CASE Deny
    <3>1. audit' = Append(audit, Absent)
      BY <2>3 DEF Deny, CommitOK, CommitFailed
    <3>2. k = audit[i] /\ i \in (Len(auditRows) + 1) .. Len(audit)
      <4>1. Len(audit') = Len(audit) + 1 /\ audit'[Len(audit) + 1] = Absent
        BY <3>1, <2>0
      <4>2. i # Len(audit) + 1
        BY <4>1, <2>1
      <4> QED
        BY <3>1, <4>1, <4>2, <2>0, <2>1
    <3>3. Named(k)
      BY <2>3 DEF Deny
    <3>4. CollectionOf[k] \in dirty
      BY <3>2, <3>3, <1>1 DEF Waiting
    <3> QED
      BY <1>1, <2>0, <2>1, <2>3, <3>4, ScopeIsDurable DEF Deny, Target
  <2>4. ASSUME NEW j \in Key, Audit(j)
        PROVE  rows'[k] = View[k] \/ View[k] = Absent
    <3> DEFINE d == MarkDirty(dirty, j)
    <3>1. d \in SUBSET Collection /\ dirty \subseteq d
      BY <2>0 DEF MarkDirty
    <3>2. audit' = Append(audit, j) /\ (CommitOK(mem, d, audit') \/ CommitFailed(mem, d, audit'))
      BY <2>4 DEF Audit, CommitOK, CommitFailed
    <3>3. CASE i <= Len(audit)
      <4>1. k = audit[i] /\ i \in (Len(auditRows) + 1) .. Len(audit)
        BY <3>2, <3>3, <2>0, <2>1
      <4>2. i # Len(auditRows')
        <5>1. CommitOK(mem, d, audit')
          BY <3>2, <2>1 DEF CommitFailed, rowVars
        <5>2. Len(auditRows') = Len(audit')
          BY <5>1, <1>1 DEF AuditTrailIsPrefix, CommitOK
        <5> QED
          BY <5>2, <3>2, <3>3, <2>0
      <4>3. Named(k)
        BY <4>2
      <4>4. CollectionOf[k] \in d
        BY <4>1, <4>3, <3>1, <2>1, <1>1 DEF Waiting
      <4> QED
        BY <1>1, <2>0, <2>1, <3>1, <3>2, <4>4, ScopeIsDurable DEF Target
    <3>4. CASE i > Len(audit)
      <4>1. k = j
        BY <3>2, <3>4, <2>0, <2>1
      <4>2. CollectionOf[k] \in Target(d)
        BY <4>1, <2>1, <2>0 DEF Target, MarkDirty, Named
      <4> QED
        BY <1>1, <2>0, <2>1, <3>1, <3>2, <4>2, ScopeIsDurable
    <3> QED
      BY <3>3, <3>4, <2>0
  <2>5. CASE Flush
    <3>1. CommitOK(mem, {}, audit)
      BY <2>5 DEF Flush, CommitAllOK
    <3>2. CollectionOf[k] \in Target({})
      BY <2>1 DEF Target
    <3> QED
      BY <1>1, <2>0, <2>1, <3>1, <3>2, ScopeIsDurable
  <2>6. ASSUME NEW v \in Payload, RecordUsage(v)
        PROVE  rows'[k] = View[k] \/ View[k] = Absent
    <3> DEFINE m == [mem EXCEPT ![UsageKey] = v]
               d == dirty \cup {CollectionOf[UsageKey]}
    <3>1. /\ m \in [Key -> Content] /\ d \in SUBSET Collection
          /\ BarsHaveRecords(m, rows)
      BY <2>0, UsageIsNoBar DEF Content, BarsHaveRecords
    <3>2. CommitOK(m, d, audit) /\ pc = "telemetry"
      BY <2>6, <2>1 DEF RecordUsage, CommitFailed, rowVars
    <3>3. k # UsageKey /\ CollectionOf[k] \in dirty
      BY <2>2, <3>2 DEF CommitOK
    <3>4. m[k] = mem[k] /\ CollectionOf[k] \in Target(d)
      BY <3>3, <2>0, <2>1 DEF Target
    <3> HIDE DEF m, d
    <3> QED
      BY <1>1, <2>1, <3>1, <3>2, <3>4, ScopeIsDurable
  <2>7. CASE \/ FlushFailed \/ Raise \/ Return \/ SkipUsage \/ Restart
             \/ \E m \in {"GET", "POST"} : Accept(m)
             \/ \E j \in Key, v \in Payload : Put(j, v)
             \/ \E j \in Key : Pop(j)
             \/ UNCHANGED vars
    BY <2>1, <2>7 DEF FlushFailed, CommitAllFailed, CommitFailed, Raise, Return,
       SkipUsage, Accept, Put, Pop, Restart, rowVars, vars
  <2> QED
    BY <1>1, <2>3, <2>4, <2>5, <2>6, <2>7 DEF Next
<1>2. Init => Waiting
  <2>1. Init => Len(audit) = 0 /\ Len(auditRows) = 0
    BY DEF Init
  <2> QED
    BY <2>1 DEF Waiting
<1>3. TypeOK /\ AuditTrailIsPrefix' /\ Waiting /\ [Next]_vars => Waiting'
  BY NextWaiting
<1>4. IInv /\ TypeOK' /\ AuditTrailIsPrefix' /\ Waiting /\ [Next]_vars => [Durable]_vars
  BY <1>1
<1> HIDE DEF Durable
<1>5. Spec => [][Durable]_vars
  BY <1>2, <1>3, <1>4, TypeCorrect, AuditTrail, Inductive, PTL DEF Spec
<1> QED
  BY <1>5 DEF Durable, AuditedRecordDurable

-----------------------------------------------------------------------------
(* The contract *)

(* A commit of the records in memory is a step of the contract that writes *)
(* nothing and persists some records.                                      *)
LEMMA CommitImplements ==
    ASSUME IInv, IInv', NEW d \in SUBSET Collection, NEW a,
           CommitOK(mem, d, a) \/ CommitFailed(mem, d, a),
           UNCHANGED ghostVars
    PROVE  Contract!WriteOrPersist
<1>0. /\ TypeOK /\ TypeOK' /\ CacheMatchesRows /\ BarsHaveRecords(mem, rows)
      /\ mem \in [Key -> Content] /\ rows' \in [Key -> Content]
      /\ ViewOf(mem, rows) = View /\ touched \in SUBSET Key
  BY DEF IInv, TypeOK, ViewOf, View
<1>1. View' \in [Key -> Content]
  BY <1>0 DEF TypeOK, View
<1>2. View' = View /\ \A k \in Key : rows'[k] # rows[k] => rows'[k] = View'[k]
  <2>1. CASE CommitOK(mem, d, a)
    BY <2>1, <1>0, CommitOKEffect
  <2>2. CASE CommitFailed(mem, d, a)
    BY <2>2, <1>0, CommitFailedEffect
  <2> QED
    BY <2>1, <2>2
<1> QED
  BY <1>0, <1>1, <1>2 DEF Contract!WriteOrPersist, ghostVars

LEMMA StepImplements == IInv /\ IInv' /\ [Next]_vars => [Contract!Next]_(Contract!vars)
<1> SUFFICES ASSUME IInv, IInv', [Next]_vars
             PROVE  Contract!Next \/ UNCHANGED Contract!vars
  OBVIOUS
<1>0. /\ TypeOK /\ TypeOK' /\ CacheMatchesRows /\ BarsHaveRecords(mem, rows)
      /\ mem \in [Key -> Content] /\ rows \in [Key -> Content]
      /\ dirty \in SUBSET Collection /\ {} \in SUBSET Collection
      /\ ViewOf(mem, rows) = View /\ View' \in [Key -> Content] /\ Settled
  BY DEF IInv, TypeOK, ViewOf, View
<1>1. ASSUME UNCHANGED <<storeVars, rowVars, ghostVars>>
      PROVE  UNCHANGED Contract!vars
  BY <1>1 DEF storeVars, rowVars, ghostVars, Contract!vars, View
<1>2. CASE Deny
  BY <1>2, <1>0, CommitImplements DEF Deny, Contract!Next
<1>3. ASSUME NEW k \in Key, NEW v \in Payload, Put(k, v)
      PROVE  Contract!WriteOrPersist
  BY <1>3, <1>0 DEF Put, rowVars, View, Contract!WriteOrPersist, TypeOK
<1>4. ASSUME NEW k \in Key, Pop(k)
      PROVE  Contract!WriteOrPersist
  BY <1>4, <1>0 DEF Pop, rowVars, View, Contract!WriteOrPersist, TypeOK
<1>5. ASSUME NEW k \in Key, Audit(k)
      PROVE  Contract!WriteOrPersist
  <2> DEFINE d == MarkDirty(dirty, k)
             a == Append(audit, k)
  <2>1. d \in SUBSET Collection
    BY <1>0 DEF MarkDirty
  <2>2. /\ CommitOK(mem, d, a) \/ CommitFailed(mem, d, a)
        /\ UNCHANGED ghostVars
    BY <1>5 DEF Audit
  <2> QED
    BY <2>1, <2>2, CommitImplements
<1>6. CASE Flush
  <2>1. CommitOK(mem, {}, audit) /\ promised' = View /\ touched' = {}
    BY <1>6 DEF Flush, CommitAllOK
  <2>2. rows' = View /\ View' = View
    BY <2>1, <1>0, CommitOKEffect
  <2> QED
    BY <2>1, <2>2 DEF Contract!Next, Contract!Acknowledge
<1>7. CASE FlushFailed
  BY <1>7, <1>0, CommitImplements DEF FlushFailed, CommitAllFailed, Contract!Next
<1>8. ASSUME NEW v \in Payload, RecordUsage(v)
      PROVE  Contract!WriteOrPersist
  <2> DEFINE m == [mem EXCEPT ![UsageKey] = v]
             d == dirty \cup {CollectionOf[UsageKey]}
  <2>1. CASE /\ CommitOK(m, d, audit)
             /\ touched' = touched \cup {UsageKey}
             /\ promised' = promised
    <3>1. /\ m \in [Key -> Content] /\ d \in SUBSET Collection
          /\ BarsHaveRecords(m, rows)
      BY <1>0, UsageIsNoBar DEF Content, BarsHaveRecords
    <3>2. \A k \in Key \ {UsageKey} : ViewOf(m, rows)[k] = View[k]
      BY <1>0 DEF ViewOf, View
    <3> HIDE DEF m, d
    <3>3. /\ View' = ViewOf(m, rows)
          /\ \A k \in Key : rows'[k] # rows[k] => rows'[k] = ViewOf(m, rows)[k]
      BY <2>1, <3>1, <1>0, CommitOKEffect
    <3>4. \A k \in Key : View'[k] # View[k] => k \in touched'
      BY <2>1, <3>2, <3>3
    <3>5. touched' \in SUBSET Key /\ touched \subseteq touched' /\ rows' \in [Key -> Content]
      BY <2>1, <1>0 DEF TypeOK
    <3> QED
      BY <2>1, <3>3, <3>4, <3>5, <1>0 DEF Contract!WriteOrPersist
  <2>2. CASE CommitFailed(mem, d, audit) /\ UNCHANGED ghostVars
    <3>1. d \in SUBSET Collection
      BY <1>0
    <3> QED
      BY <2>2, <3>1, CommitImplements
  <2> QED
    BY <1>8, <2>1, <2>2 DEF RecordUsage, ghostVars
<1>9. CASE Restart
  <2>1. /\ mem' = Loaded(rows) /\ rows' = rows
        /\ promised' = [k \in Key |-> IF k \in touched THEN rows[k] ELSE promised[k]]
        /\ touched' = {}
    BY <1>9 DEF Restart, rowVars
  <2>2. View' = rows
    BY <2>1, <1>0 DEF View, Loaded
  <2> QED
    BY <2>1, <2>2 DEF Contract!Next, Contract!Crash
<1>10. CASE Raise \/ Return \/ SkipUsage \/ \E m \in {"GET", "POST"} : Accept(m)
  BY <1>10, <1>1 DEF Raise, Return, SkipUsage, Accept
<1>11. CASE UNCHANGED vars
  BY <1>11, <1>1 DEF vars
<1> QED
  BY <1>2, <1>3, <1>4, <1>5, <1>6, <1>7, <1>8, <1>9, <1>10, <1>11 DEF Next, Contract!Next

(* The store, with its scoped commits, hash cache, failures and restarts,  *)
(* implements AcknowledgedStore.                                           *)
THEOREM ImplementsContract == Spec => ContractSpec
<1>1. Init => Contract!Init
  BY DEF Init, Contract!Init, View, Loaded, IsBar, Lazy
<1>2. IInv /\ IInv' /\ [Next]_vars => [Contract!Next]_(Contract!vars)
  BY StepImplements
<1> QED
  BY <1>1, <1>2, Inductive, PTL DEF Spec, ContractSpec, Contract!Spec
=============================================================================
