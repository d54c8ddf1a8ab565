----------------------------- MODULE RecordStore -----------------------------
(***************************************************************************)
(* The record store of the service, as one request at a time uses it:      *)
(* PostgreSQLStore (app/store.py), the request boundary                    *)
(* ApiRouter._dispatch_locked (app/api.py), SystemService._audit           *)
(* (app/services.py) and usage_metrics.record_usage.                       *)
(*                                                                         *)
(* Handlers work on the records in memory; PostgreSQL is kept up to date by *)
(* commits that write only what the hash cache says is new, only in the    *)
(* collections marked dirty, and that may fail as a whole.  The process    *)
(* may die between any two steps and reload its memory from the rows.      *)
(***************************************************************************)
EXTENDS RecordCommit, Naturals, Sequences

CONSTANTS
    UsageKey,       \* the usage metric of one feature
    Resource,       \* resource types named in audit events
    FiledAs,        \* [Key -> Resource], the type a record is audited under
    Candidates,     \* [Resource -> SUBSET Collection]
    MaxAudit        \* bound of the model: audit events in the log

ASSUME UsageAssumption ==
    /\ UsageKey \in Key
    /\ CollectionOf[UsageKey] # MarketData
    /\ \A k \in Key \ {UsageKey} : CollectionOf[k] # CollectionOf[UsageKey]
ASSUME ResourceAssumption ==
    /\ FiledAs \in [Key -> Resource]
    /\ Candidates \in [Resource -> SUBSET Collection]
ASSUME MaxAuditAssumption == MaxAudit \in Nat

VARIABLES
    mem,            \* the records of the store object, [Key -> Content]
    hashes,         \* _record_hashes
    dirty,          \* _dirty_collections
    audit,          \* audit_log: the events in order
    persisted,      \* how many of them are in _persisted_audit_ids
    rows,           \* ai_quant.records and ai_quant.market_data_bars
    auditRows,      \* ai_quant.audit_log
    pc,             \* where the request in progress is
    method,         \* its HTTP method
    (***********************************************************************)
    (* History: what clients were promised.                                *)
    (***********************************************************************)
    promised,       \* the records as the last 200 to a write left them
    touched         \* the keys written since, by whatever request

storeVars == <<mem, hashes, dirty, audit, persisted>>
rowVars == <<rows, auditRows>>
ghostVars == <<promised, touched>>
vars == <<storeVars, rowVars, pc, method, ghostVars>>

(* An audit event is represented by the record it names; the denial of a   *)
(* route names none.                                                       *)
Event == Key \cup {Absent}

TypeOK ==
    /\ mem \in [Key -> Content]
    /\ hashes \in [Key -> Content]
    /\ dirty \subseteq Collection
    /\ audit \in Seq(Event)
    /\ persisted \in Nat
    /\ rows \in [Key -> Content]
    /\ auditRows \in Seq(Event)
    /\ pc \in {"idle", "handler", "flush", "telemetry"}
    /\ method \in {"GET", "POST"}
    /\ promised \in [Key -> Content]
    /\ touched \subseteq Key

-----------------------------------------------------------------------------
(* mark_dirty_for_resource: the dirty set d with the collections           *)
(* _candidate_collections_for_resource finds for the type of record k.     *)
(* Some types have none ("mapping", "prompt", "card", "api_route").        *)
MarkDirty(d, k) == d \cup Candidates[FiledAs[k]]

(* What the service holds: the record in memory, or, for a bar that left   *)
(* memory, its row.  (Queries for bars read the typed table, so a bar is   *)
(* seen as soon as it is committed.)                                       *)
View == [k \in Key |-> IF IsBar(k) /\ mem[k] = Absent THEN rows[k] ELSE mem[k]]

Init ==
    /\ rows \in [Key -> Content]
    /\ auditRows = << >>
    /\ mem = Loaded(rows)
    /\ hashes = Loaded(rows)
    /\ dirty = {}
    /\ audit = << >>
    /\ persisted = 0
    /\ pc = "idle"
    /\ method = "GET"
    /\ promised = rows
    /\ touched = {}

-----------------------------------------------------------------------------
(* PostgreSQLStore.commit, on the records m and the log a, with the dirty  *)
(* set d.                                                                  *)

(* The transaction commits.  The new audit events are those after the      *)
(* persisted prefix: the log of a running service is only appended to, so  *)
(* the prefix test of the code holds.                                      *)
CommitOK(m, d, a) ==
    /\ rows' = RowsAfter(m, hashes, d, rows)
    /\ hashes' = HashesAfter(m, hashes, d)
    /\ mem' = MemAfter(m, d)
    /\ auditRows' = auditRows \o SubSeq(a, persisted + 1, Len(a))
    /\ audit' = a
    /\ persisted' = Len(a)
    /\ dirty' = {}

(* Seeded faults: the hash cache keeps what the rolled back transaction    *)
(* wrote; the persisted ids do; the dirty set is emptied all the same.     *)
FaultFailedKeepsHashes(m, d, a) ==
    /\ hashes' = HashesAfter(m, hashes, d)
    /\ mem' = m /\ dirty' = d /\ audit' = a
    /\ UNCHANGED persisted /\ UNCHANGED rowVars

FaultFailedKeepsPersisted(m, d, a) ==
    /\ persisted' = Len(a)
    /\ mem' = m /\ dirty' = d /\ audit' = a
    /\ UNCHANGED hashes /\ UNCHANGED rowVars

FaultFailedClearsDirty(m, d, a) ==
    /\ dirty' = {}
    /\ mem' = m /\ audit' = a
    /\ UNCHANGED <<hashes, persisted>> /\ UNCHANGED rowVars

(* It fails and is rolled back: the hash cache and the persisted ids are   *)
(* restored, the dirty set and the records stay.                           *)
CommitFailed(m, d, a) ==
    /\ mem' = m
    /\ dirty' = d
    /\ audit' = a
    /\ UNCHANGED <<hashes, persisted>>
    /\ UNCHANGED rowVars

(* Seeded fault: the boundary calls commit, with whatever is dirty. *)
FaultCommitAllOK == CommitOK(mem, dirty, audit)

(* commit_all empties the dirty set before commit reads it; a failure puts *)
(* it back.                                                                *)
CommitAllOK == CommitOK(mem, {}, audit)
CommitAllFailed == CommitFailed(mem, dirty, audit)

-----------------------------------------------------------------------------
(* A request *)

(* _dispatch_locked finds the handler and authorises the role. *)
Accept(m) ==
    /\ pc = "idle"
    /\ pc' = "handler"
    /\ method' = m
    /\ UNCHANGED storeVars /\ UNCHANGED rowVars /\ UNCHANGED ghostVars

(* A role that may not call the route: record_permission_denied audits the *)
(* denial under "api_route", which marks nothing dirty, and commits; the   *)
(* request ends in 403, or in 500 if that commit raises.                   *)
Deny ==
    /\ pc = "idle"
    /\ Len(audit) < MaxAudit
    /\ LET a == Append(audit, Absent)
       IN CommitOK(mem, dirty, a) \/ CommitFailed(mem, dirty, a)
    /\ UNCHANGED <<pc, method>> /\ UNCHANGED ghostVars

(* The handler stores a record in a collection dictionary. *)
Put(k, v) ==
    /\ pc = "handler"
    /\ k # UsageKey
    /\ View[k] # v
    /\ mem' = [mem EXCEPT ![k] = v]
    /\ touched' = touched \cup {k}
    /\ UNCHANGED <<hashes, dirty, audit, persisted, pc, method, promised>>
    /\ UNCHANGED rowVars

(* The handler pops a record (a forced re-structuring of a report pops its *)
(* viewpoints and forecasts).  Nothing pops market data.                   *)
Pop(k) ==
    /\ pc = "handler"
    /\ k # UsageKey
    /\ CollectionOf[k] # MarketData
    /\ mem[k] # Absent
    /\ mem' = [mem EXCEPT ![k] = Absent]
    /\ touched' = touched \cup {k}
    /\ UNCHANGED <<hashes, dirty, audit, persisted, pc, method, promised>>
    /\ UNCHANGED rowVars

(* The handler audits what it did to record k: _audit marks the candidate  *)
(* collections of its type, appends the event and commits.  A commit that  *)
(* raises ends the request with an error.                                  *)
Audit(k) ==
    /\ pc = "handler"
    /\ Len(audit) < MaxAudit
    /\ k # UsageKey
    /\ mem[k] # Absent
    /\ LET d == MarkDirty(dirty, k)
           a == Append(audit, k)
       IN \/ CommitOK(mem, d, a) /\ pc' = "handler"
          \/ CommitFailed(mem, d, a) /\ pc' = "idle"
    /\ UNCHANGED method /\ UNCHANGED ghostVars

(* The handler raises: a 4xx or 5xx, and what it stored so far stays in    *)
(* memory.                                                                 *)
Raise ==
    /\ pc = "handler"
    /\ pc' = "idle"
    /\ UNCHANGED method
    /\ UNCHANGED storeVars /\ UNCHANGED rowVars /\ UNCHANGED ghostVars

(* The handler returns; only a GET skips the flush. *)
Return ==
    /\ pc = "handler"
    /\ pc' = IF method = "GET" THEN "telemetry" ELSE "flush"
    /\ UNCHANGED method
    /\ UNCHANGED storeVars /\ UNCHANGED rowVars /\ UNCHANGED ghostVars

(* store.commit_all() at the boundary.  From here on the request succeeds: *)
(* record_usage never raises.                                              *)
Flush ==
    /\ pc = "flush"
    /\ CommitAllOK
    /\ pc' = "telemetry"
    /\ promised' = View
    /\ touched' = {}
    /\ UNCHANGED method

FlushFailed ==
    /\ pc = "flush"
    /\ CommitAllFailed
    /\ pc' = "idle"
    /\ UNCHANGED method /\ UNCHANGED ghostVars

(* Seeded fault: the metric is not put back when its commit fails. *)
FaultRecordUsage(v) ==
    /\ pc = "telemetry"
    /\ v # mem[UsageKey]
    /\ pc' = "idle"
    /\ LET d == dirty \cup {CollectionOf[UsageKey]}
           m == [mem EXCEPT ![UsageKey] = v]
       IN CommitOK(m, d, audit) \/ CommitFailed(m, d, audit)
    /\ touched' = touched \cup {UsageKey}
    /\ UNCHANGED <<method, promised>>

(* record_usage counts the request in the metric of its feature, marks     *)
(* usage_metrics dirty and commits; SystemService.record_usage swallows    *)
(* what it raises, after the metric was put back.                          *)
RecordUsage(v) ==
    /\ pc = "telemetry"
    /\ v # mem[UsageKey]
    /\ pc' = "idle"
    /\ LET d == dirty \cup {CollectionOf[UsageKey]}
       IN \/ /\ CommitOK([mem EXCEPT ![UsageKey] = v], d, audit)
             /\ touched' = touched \cup {UsageKey}
          \/ /\ CommitFailed(mem, d, audit)
             /\ UNCHANGED touched
    /\ UNCHANGED <<method, promised>>

(* A route of no feature is not counted. *)
SkipUsage ==
    /\ pc = "telemetry"
    /\ pc' = "idle"
    /\ UNCHANGED method
    /\ UNCHANGED storeVars /\ UNCHANGED rowVars /\ UNCHANGED ghostVars

(* The process dies and a new one loads the rows.  What was written since  *)
(* the last promise is as the database has it.                             *)
Restart ==
    /\ mem' = Loaded(rows)
    /\ hashes' = Loaded(rows)
    /\ dirty' = {}
    /\ audit' = auditRows
    /\ persisted' = Len(auditRows)
    /\ pc' = "idle"
    /\ promised' = [k \in Key |-> IF k \in touched THEN rows[k] ELSE promised[k]]
    /\ touched' = {}
    /\ UNCHANGED method /\ UNCHANGED rowVars

Next ==
    \/ \E m \in {"GET", "POST"} : Accept(m)
    \/ Deny
    \/ \E k \in Key, v \in Payload : Put(k, v)
    \/ \E k \in Key : Pop(k)
    \/ \E k \in Key : Audit(k)
    \/ Raise
    \/ Return
    \/ Flush
    \/ FlushFailed
    \/ \E v \in Payload : RecordUsage(v)
    \/ SkipUsage
    \/ Restart

Spec == Init /\ [][Next]_vars

-----------------------------------------------------------------------------
(***************************************************************************)
(* Properties                                                              *)
(***************************************************************************)

(* The skip in commit ("same hash as last time: nothing to write") is      *)
(* sound: after any mixture of scoped, full and failed commits and         *)
(* restarts the hash cache says exactly what the rows are.  Bars that went *)
(* to the typed table are not cached.                                      *)
CacheMatchesRows == hashes = Loaded(rows)

(* A write answered with 200 survives: whatever requests fail, raise or    *)
(* die afterwards, and however later commits are scoped, the row of a      *)
(* record nobody has written since is the one that was promised.           *)
AckedSurvives == \A k \in Key \ touched : rows[k] = promised[k]

(* Usage telemetry is all or nothing: the count in memory is never ahead   *)
(* of the durable one, also when its commit failed and the metric was put  *)
(* back.                                                                   *)
TelemetryNotAhead == mem[UsageKey] = rows[UsageKey]

(* The durable audit trail is a prefix of the log of the process, and the  *)
(* store knows how long it is: no event is skipped or stored twice by a    *)
(* commit that follows a failed one.                                       *)
AuditTrailIsPrefix ==
    /\ persisted = Len(auditRows)
    /\ persisted <= Len(audit)
    /\ auditRows = SubSeq(audit, 1, persisted)

(* An audit event never becomes durable ahead of the record it attests,    *)
(* also when the commit that should have stored both failed and a later    *)
(* request stores them.  Where the resource type has no candidate          *)
(* collection the code only achieves that for the event being audited, and *)
(* when nothing else is dirty: then _audit commits everything.             *)
AuditedRecordDurable ==
    [][\A i \in (Len(auditRows) + 1) .. Len(auditRows') :
          LET k == auditRows'[i]
          IN (/\ k # Absent
              /\ \/ CollectionOf[k] \in Candidates[FiledAs[k]]
                 \/ /\ Candidates[FiledAs[k]] = {}
                    /\ i = Len(auditRows') /\ pc = "handler" /\ dirty = {})
             => rows'[k] = View[k] \/ View[k] = Absent]_vars

(* A bar leaves memory only into the typed table: no commit, whatever its  *)
(* scope, drops a bar it did not write.  Only the death of the process     *)
(* loses one, with everything else that was not committed.                 *)
BarsLeaveMemoryStored ==
    [][\/ Restart
       \/ \A k \in Key : IsBar(k) /\ mem[k] # Absent /\ mem'[k] = Absent
                          => rows'[k] = mem[k]]_vars

(* The store keeps the contract of AcknowledgedStore: rows only ever take  *)
(* values the service holds, no commit changes what it holds of a record   *)
(* nobody wrote, a 200 to a write makes everything durable, a restart      *)
(* falls back to the rows.                                                 *)
Contract == INSTANCE AcknowledgedStore WITH
                view <- View, stable <- rows,
                promised <- promised, touched <- touched

ContractSpec == Contract!Spec
=============================================================================
