---------------------------- MODULE RecordCommit ----------------------------
(***************************************************************************)
(* What one call of PostgreSQLStore.commit writes, as operators on the     *)
(* four things it reads: the records in memory, the cache of payload       *)
(* hashes, the set of dirty collections and the rows of ai_quant.records.  *)
(* RecordStore uses them for commits that run alone; DispatchThreads uses  *)
(* them for the steps of commits that overlap.                             *)
(*                                                                         *)
(* A key is a <<collection, item_id>> pair of the source.  _payload_hash   *)
(* is the canonical JSON text of the payload itself, so the hash of a      *)
(* payload is represented by the payload: two payloads have the same hash  *)
(* exactly when they are equal.                                            *)
(***************************************************************************)

CONSTANTS
    Key,            \* the records a run may hold
    Collection,     \* COLLECTIONS
    CollectionOf,   \* [Key -> Collection]
    Payload,        \* record contents
    Absent,         \* no record, no hash, no row
    MarketData,     \* the collection "market_data"
    TypedBars       \* is there a table ai_quant.market_data_bars?

ASSUME KeyAssumption == CollectionOf \in [Key -> Collection]
ASSUME PayloadAssumption == Absent \notin Payload
ASSUME MarketDataAssumption == MarketData \in Collection
ASSUME TypedBarsAssumption == TypedBars \in BOOLEAN

Content == Payload \cup {Absent}

(* _lazy_collections: what _load leaves in the database.  Each commit      *)
(* looks for the typed table again; TypedBars stands for both answers,     *)
(* because the table is neither made nor dropped under a running service.  *)
Lazy == IF TypedBars THEN {MarketData} ELSE {}

IsBar(k) == CollectionOf[k] \in Lazy

(* target_collections: the dirty ones, or all of them if none is dirty. *)
Target(dirty) == IF dirty = {} THEN Collection ELSE dirty

(* current_keys: the records in memory of the collections in T. *)
CurrentKeys(mem, T) == {k \in Key : CollectionOf[k] \in T /\ mem[k] # Absent}

(* The keys whose payload hash is not the cached one. *)
Changed(mem, hashes, T) == {k \in CurrentKeys(mem, T) : hashes[k] # mem[k]}

(* deletable_previous_keys: cached as a row and not seen by this commit. *)
Deletable(hashes, current) ==
    {k \in Key : /\ hashes[k] # Absent
                 /\ CollectionOf[k] # MarketData
                 /\ CollectionOf[k] \notin Lazy
                 /\ k \notin current}

(* typed_market_data_keys: the bars of the commit, written or up to date. *)
BarsOf(mem, T) == {k \in CurrentKeys(mem, T) : IsBar(k)}

(* Seeded fault: a scoped commit deletes as a full one does. *)
FaultDeleted(mem, hashes, T, dirtyNow) == Deletable(hashes, CurrentKeys(mem, T))

(* The rows a commit of T deletes.  Deletion is decided by a second read   *)
(* of the dirty set, dirtyNow.                                             *)
Deleted(mem, hashes, T, dirtyNow) ==
    IF dirtyNow = {} THEN Deletable(hashes, CurrentKeys(mem, T)) ELSE {}

(* Rows (ai_quant.records and ai_quant.market_data_bars) after the         *)
(* transaction of a commit that nothing overlaps.                          *)
RowsAfter(mem, hashes, dirty, rows) ==
    LET T == Target(dirty)
    IN [k \in Key |-> IF k \in Changed(mem, hashes, T) THEN mem[k]
                      ELSE IF k \in Deleted(mem, hashes, T, dirty) THEN Absent
                      ELSE rows[k]]

(* _record_hashes after it: a row written is cached, a row deleted and a   *)
(* bar moved to the typed table are forgotten.                             *)
HashesAfter(mem, hashes, dirty) ==
    LET T == Target(dirty)
    IN [k \in Key |-> IF k \in BarsOf(mem, T) THEN Absent
                      ELSE IF k \in Changed(mem, hashes, T) THEN mem[k]
                      ELSE IF k \in Deleted(mem, hashes, T, dirty) THEN Absent
                      ELSE hashes[k]]

(* Seeded fault: bars leave memory whether or not this commit wrote them. *)
FaultMemAfter(mem, dirty) == [k \in Key |-> IF IsBar(k) THEN Absent ELSE mem[k]]

(* The records after it: bars in the typed table leave memory. *)
MemAfter(mem, dirty) ==
    [k \in Key |-> IF k \in BarsOf(mem, Target(dirty)) THEN Absent ELSE mem[k]]

(* _load: every collection but the lazy ones, and its hashes. *)
Loaded(rows) == [k \in Key |-> IF IsBar(k) THEN Absent ELSE rows[k]]
=============================================================================
