--------------------------- MODULE DispatchThreads ---------------------------
(***************************************************************************)
(* The threads of the HTTP server on one record store.  ThreadingHTTPServer *)
(* gives every request a thread; ApiRouter.dispatch (app/api.py) puts most *)
(* requests under _dispatch_lock and those of /api/dynamic-allocation      *)
(* under _dynamic_allocation_lock only.  A commit takes several steps, so  *)
(* two that overlap see each other's half-done work in the store object.   *)
(*                                                                         *)
(* An allocation request that is answered counts itself with record_usage  *)
(* if it gets the dispatch lock at once.  An allocation request whose role *)
(* is refused audits the refusal, and that commits, under the allocation   *)
(* lock alone.  The audit log has commits of its own rules and is the      *)
(* subject of RecordStore; here an audited refusal is the commit it makes. *)
(***************************************************************************)
EXTENDS RecordCommit, Naturals

CONSTANTS
    Request,        \* requests, each with its thread
    UsageKey,       \* the usage metric the requests are counted in
    Kinds,          \* kinds of request that may arrive
    None            \* nobody holds the lock; nothing to write

AllKinds == {"write", "denied", "allocation", "allocation_denied"}

ASSUME KindsAssumption == Kinds \subseteq AllKinds
ASSUME UsageKeyAssumption == UsageKey \in Key
ASSUME NoneAssumption == None \notin Request \cup Content \cup AllKinds

(* Bars of the typed table leave memory after a commit; they are the       *)
(* subject of RecordStore, and no request here writes one.                 *)
ASSUME NoBarsAssumption == \A k \in Key : ~IsBar(k)

VARIABLES
    pc,             \* where each request is
    kind,           \* what it is
    cont,           \* what follows the commit it is in
    dispatchLock,   \* its holder, or None
    allocationLock, \* its holder, or None
    (***********************************************************************)
    (* The store object, shared by all threads, and the rows.              *)
    (***********************************************************************)
    mem, hashes, dirty, rows,
    (***********************************************************************)
    (* Locals of commit, commit_all and record_usage.                      *)
    (***********************************************************************)
    before,         \* record_hashes_before
    pending,        \* commit_all's copy of the dirty set
    current,        \* current_keys
    writes,         \* rows written in the open transaction
    previous,       \* previous_metric
    (***********************************************************************)
    (* History: what clients were promised.                                *)
    (***********************************************************************)
    promised, touched

locks == <<dispatchLock, allocationLock>>
store == <<mem, hashes, dirty>>
locals == <<before, pending, current, writes, previous>>
ghosts == <<promised, touched>>
vars == <<pc, kind, cont, locks, store, rows, locals, ghosts>>

Label == {"new", "allocation", "try", "handler", "flush", "usage",
          "scan", "delete", "txn", "clear", "done"}

NoWrites == [k \in Key |-> None]
Written(r) == {k \in Key : writes[r][k] # None}
InCommit(r) == pc[r] \in {"scan", "delete", "txn", "clear"}

TypeOK ==
    /\ pc \in [Request -> Label]
    /\ kind \in [Request -> Kinds \cup {None}]
    /\ cont \in [Request -> {"none", "flushed", "counted", "refused"}]
    /\ dispatchLock \in Request \cup {None}
    /\ allocationLock \in Request \cup {None}
    /\ mem \in [Key -> Content] /\ hashes \in [Key -> Content]
    /\ rows \in [Key -> Content]
    /\ dirty \subseteq Collection
    /\ before \in [Request -> [Key -> Content]]
    /\ pending \in [Request -> SUBSET Collection]
    /\ current \in [Request -> SUBSET Key]
    /\ writes \in [Request -> [Key -> Content \cup {None}]]
    /\ previous \in [Request -> Content]
    /\ promised \in [Key -> Content]
    /\ touched \subseteq Key

Init ==
    /\ pc = [r \in Request |-> "new"]
    /\ kind = [r \in Request |-> None]
    /\ cont = [r \in Request |-> "none"]
    /\ dispatchLock = None
    /\ allocationLock = None
    /\ rows \in [Key -> Content]
    /\ mem = rows /\ hashes = rows /\ promised = rows
    /\ dirty = {} /\ touched = {}
    /\ before = [r \in Request |-> rows]
    /\ pending = [r \in Request |-> {}]
    /\ current = [r \in Request |-> {}]
    /\ writes = [r \in Request |-> NoWrites]
    /\ previous = [r \in Request |-> Absent]

Goto(r, label) == pc' = [pc EXCEPT ![r] = label]

-----------------------------------------------------------------------------
(* dispatch *)

(* Release what the request holds and answer. *)
Answer(r) ==
    /\ Goto(r, "done")
    /\ dispatchLock' = IF dispatchLock = r THEN None ELSE dispatchLock
    /\ allocationLock' = IF allocationLock = r THEN None ELSE allocationLock

(* An ordinary request waits for the dispatch lock; then _dispatch_locked  *)
(* calls its handler, or refuses the role.                                 *)
Dispatch(r) ==
    /\ pc[r] = "new"
    /\ dispatchLock = None
    /\ \E k \in Kinds \cap {"write", "denied"} :
          /\ kind' = [kind EXCEPT ![r] = k]
          /\ IF k = "write"
             THEN /\ Goto(r, "handler")
                  /\ UNCHANGED <<cont, before>>
             ELSE /\ Goto(r, "scan")
                  /\ cont' = [cont EXCEPT ![r] = "refused"]
                  /\ before' = [before EXCEPT ![r] = hashes]
    /\ dispatchLock' = r
    /\ UNCHANGED <<allocationLock, store, rows, pending, current, writes, previous, ghosts>>

(* An allocation request takes the allocation lock and runs or is refused; *)
(* a refusal is audited, and committed, right there.                       *)
DispatchAllocation(r) ==
    /\ pc[r] = "new"
    /\ allocationLock = None
    /\ \E k \in Kinds \cap {"allocation", "allocation_denied"} :
          /\ kind' = [kind EXCEPT ![r] = k]
          /\ IF k = "allocation"
             THEN /\ Goto(r, "allocation")
                  /\ UNCHANGED <<cont, before>>
             ELSE /\ Goto(r, "scan")
                  /\ cont' = [cont EXCEPT ![r] = "refused"]
                  /\ before' = [before EXCEPT ![r] = hashes]
    /\ allocationLock' = r
    /\ UNCHANGED <<dispatchLock, store, rows, pending, current, writes, previous, ghosts>>

(* The allocation application has answered (it does not touch the store);  *)
(* a failure is answered at once.                                          *)
AllocationReturns(r) ==
    /\ pc[r] = "allocation"
    /\ allocationLock' = None
    /\ Goto(r, "try") \/ Goto(r, "done")
    /\ UNCHANGED <<kind, cont, dispatchLock, store, rows, locals, ghosts>>

(* Seeded faults: the usage of allocation requests is recorded without the *)
(* dispatch lock; the request waits for it.                                *)
FaultTryWithoutLock(r) ==
    /\ pc[r] = "try"
    /\ Goto(r, "usage")
    /\ UNCHANGED <<kind, cont, locks, store, rows, locals, ghosts>>

FaultTryBlocks(r) ==
    /\ pc[r] = "try"
    /\ dispatchLock = None
    /\ dispatchLock' = r /\ Goto(r, "usage")
    /\ UNCHANGED <<kind, cont, allocationLock, store, rows, locals, ghosts>>

(* _dispatch_lock.acquire(blocking=False): usage is counted only if nobody *)
(* is dispatching.                                                         *)
TryUsage(r) ==
    /\ pc[r] = "try"
    /\ IF dispatchLock = None
       THEN dispatchLock' = r /\ Goto(r, "usage")
       ELSE UNCHANGED dispatchLock /\ Goto(r, "done")
    /\ UNCHANGED <<kind, cont, allocationLock, store, rows, locals, ghosts>>

(* The handler stores a record and leaves its persistence to the boundary. *)
Handle(r) ==
    /\ pc[r] = "handler"
    /\ \E k \in Key \ {UsageKey}, v \in Payload :
          /\ mem[k] # v
          /\ mem' = [mem EXCEPT ![k] = v]
          /\ touched' = touched \cup {k}
    /\ Goto(r, "flush")
    /\ UNCHANGED <<kind, cont, locks, hashes, dirty, rows, locals, promised>>

(* The handler raises before it stored anything: 4xx or 5xx. *)
HandlerRaises(r) ==
    /\ pc[r] = "handler"
    /\ Answer(r)
    /\ UNCHANGED <<kind, cont, store, rows, locals, ghosts>>

-----------------------------------------------------------------------------
(* commit, commit_all, record_usage *)

(* Seeded fault: the boundary calls commit with whatever is dirty. *)
FaultFlush(r) ==
    /\ pc[r] = "flush"
    /\ before' = [before EXCEPT ![r] = hashes]
    /\ cont' = [cont EXCEPT ![r] = "flushed"]
    /\ Goto(r, "scan")
    /\ UNCHANGED <<kind, locks, store, rows, pending, current, writes, previous, ghosts>>

(* commit_all sets the dirty set aside and calls commit, which first       *)
(* copies the hash cache.                                                  *)
Flush(r) ==
    /\ pc[r] = "flush"
    /\ pending' = [pending EXCEPT ![r] = dirty]
    /\ dirty' = {}
    /\ before' = [before EXCEPT ![r] = hashes]
    /\ cont' = [cont EXCEPT ![r] = "flushed"]
    /\ Goto(r, "scan")
    /\ UNCHANGED <<kind, locks, mem, hashes, rows, current, writes, previous, ghosts>>

(* record_usage counts the request, marks usage_metrics dirty and commits. *)
Count(r) ==
    /\ pc[r] = "usage"
    /\ \E v \in Payload :
          /\ mem[UsageKey] # v
          /\ mem' = [mem EXCEPT ![UsageKey] = v]
    /\ previous' = [previous EXCEPT ![r] = mem[UsageKey]]
    /\ dirty' = dirty \cup {CollectionOf[UsageKey]}
    /\ touched' = touched \cup {UsageKey}
    /\ before' = [before EXCEPT ![r] = hashes]
    /\ cont' = [cont EXCEPT ![r] = "counted"]
    /\ Goto(r, "scan")
    /\ UNCHANGED <<kind, locks, hashes, rows, pending, current, writes, promised>>

(* A row written by one open transaction is locked for the others. *)
Unlocked(r, K) == \A q \in Request \ {r} : Written(q) \cap K = {}

(* The records of the target collections: what changed is written and its  *)
(* hash cached, before the transaction is known to commit.                 *)
Scan(r) ==
    /\ pc[r] = "scan"
    /\ LET T == Target(dirty)
           W == Changed(mem, hashes, T)
       IN /\ Unlocked(r, W)
          /\ current' = [current EXCEPT ![r] = CurrentKeys(mem, T)]
          /\ writes' = [writes EXCEPT ![r] = [k \in Key |-> IF k \in W THEN mem[k] ELSE None]]
          /\ hashes' = [k \in Key |-> IF k \in W THEN mem[k] ELSE hashes[k]]
    /\ Goto(r, "delete")
    /\ UNCHANGED <<kind, cont, locks, mem, dirty, rows, before, pending, previous, ghosts>>

(* Seeded fault: a scoped commit deletes as a full one does. *)
FaultDeleteRows(r) ==
    /\ pc[r] = "delete"
    /\ LET D == Deletable(hashes, current[r])
       IN /\ writes' = [writes EXCEPT ![r] = [k \in Key |-> IF k \in D THEN Absent ELSE @[k]]]
          /\ hashes' = [k \in Key |-> IF k \in D THEN Absent ELSE hashes[k]]
    /\ Goto(r, "txn")
    /\ UNCHANGED <<kind, cont, locks, mem, dirty, rows, before, pending, current,
                   previous, ghosts>>

(* The dirty set is read again: if it is empty now, every cached row that  *)
(* the scan did not meet is deleted.                                       *)
DeleteRows(r) ==
    /\ pc[r] = "delete"
    /\ LET D == IF dirty = {} THEN Deletable(hashes, current[r]) ELSE {}
       IN /\ Unlocked(r, D)
          /\ writes' = [writes EXCEPT ![r] = [k \in Key |-> IF k \in D THEN Absent ELSE @[k]]]
          /\ hashes' = [k \in Key |-> IF k \in D THEN Absent ELSE hashes[k]]
    /\ Goto(r, "txn")
    /\ UNCHANGED <<kind, cont, locks, mem, dirty, rows, before, pending, current,
                   previous, ghosts>>

(* The transaction commits. *)
CommitTransaction(r) ==
    /\ pc[r] = "txn"
    /\ rows' = [k \in Key |-> IF k \in Written(r) THEN writes[r][k] ELSE rows[k]]
    /\ writes' = [writes EXCEPT ![r] = NoWrites]
    /\ Goto(r, "clear")
    /\ UNCHANGED <<kind, cont, locks, store, before, pending, current, previous, ghosts>>

(* Seeded fault: the hash cache is not restored. *)
FaultFail(r) ==
    /\ pc[r] \in {"scan", "delete", "txn"}
    /\ writes' = [writes EXCEPT ![r] = NoWrites]
    /\ dirty' = IF cont[r] = "flushed" THEN dirty \cup pending[r] ELSE dirty
    /\ mem' = IF cont[r] = "counted" THEN [mem EXCEPT ![UsageKey] = previous[r]] ELSE mem
    /\ Answer(r)
    /\ UNCHANGED <<kind, cont, hashes, rows, before, pending, current, previous, ghosts>>

(* Something in commit raises: the connection, a statement, the commit of  *)
(* the transaction, or a dictionary that another thread resized during the *)
(* scan.  The hash cache of the beginning is put back; commit_all puts the *)
(* dirty set back, record_usage its metric.                                *)
Fail(r) ==
    /\ pc[r] \in {"scan", "delete", "txn"}
    /\ hashes' = before[r]
    /\ writes' = [writes EXCEPT ![r] = NoWrites]
    /\ dirty' = IF cont[r] = "flushed" THEN dirty \cup pending[r] ELSE dirty
    /\ mem' = IF cont[r] = "counted" THEN [mem EXCEPT ![UsageKey] = previous[r]] ELSE mem
    /\ Answer(r)
    /\ UNCHANGED <<kind, cont, rows, before, pending, current, previous, ghosts>>

(* The dirty set is emptied, and the caller of commit goes on: after the   *)
(* flush the request is certain to be answered 200.                        *)
Clear(r) ==
    /\ pc[r] = "clear"
    /\ dirty' = {}
    /\ IF cont[r] = "flushed"
       THEN /\ promised' = mem /\ touched' = {}
            /\ Goto(r, "usage")
            /\ UNCHANGED locks
       ELSE /\ Answer(r)
            /\ UNCHANGED ghosts
    /\ UNCHANGED <<kind, cont, mem, hashes, rows, locals>>

(* The process dies, in whatever state its threads are, and is started     *)
(* again: open transactions are rolled back, the store is loaded from the  *)
(* rows, and the requests that were under way get no answer.               *)
Crash ==
    /\ pc' = [r \in Request |-> IF pc[r] = "new" THEN "new" ELSE "done"]
    /\ dispatchLock' = None /\ allocationLock' = None
    /\ mem' = Loaded(rows) /\ hashes' = Loaded(rows) /\ dirty' = {}
    /\ writes' = [r \in Request |-> NoWrites]
    /\ promised' = [k \in Key |-> IF k \in touched THEN rows[k] ELSE promised[k]]
    /\ touched' = {}
    /\ UNCHANGED <<kind, cont, rows, before, pending, current, previous>>

(* All requests have been answered. *)
AllAnswered ==
    /\ \A r \in Request : pc[r] = "done"
    /\ UNCHANGED vars

(* Everything but the ordinary handlers, which take as long as they take   *)
(* (a daily mainline run: ten minutes).                                    *)
Step(r) ==
    \/ Dispatch(r)
    \/ DispatchAllocation(r)
    \/ AllocationReturns(r)
    \/ TryUsage(r)
    \/ Flush(r)
    \/ Count(r)
    \/ Scan(r)
    \/ DeleteRows(r)
    \/ CommitTransaction(r)
    \/ Fail(r)
    \/ Clear(r)

Next ==
    \/ \E r \in Request : Step(r) \/ Handle(r) \/ HandlerRaises(r)
    \/ Crash
    \/ AllAnswered

Spec == Init /\ [][Next]_vars

(* The threads run, transactions end, and the allocation application       *)
(* answers; nothing is said of the ordinary handlers.                      *)
FairSpec == Spec /\ \A r \in Request : WF_vars(Step(r))

-----------------------------------------------------------------------------
(***************************************************************************)
(* Properties                                                              *)
(***************************************************************************)

(* No allocation request was refused so far.  A refusal commits without    *)
(* the dispatch lock and breaks the three properties below.                *)
Unrefused == \A r \in Request : kind[r] # "allocation_denied"

(* Write boundaries on the shared store are serialised                     *)
(* (tests/test_usage_metrics.py: "dispatch serializes shared store write   *)
(* boundaries"): no two threads are inside commit at once.                 *)
CommitsSerialized ==
    Unrefused => \A q, r \in Request : InCommit(q) /\ InCommit(r) => q = r

(* When no commit is under way the hash cache is what the rows are, so     *)
(* that the next commit writes and deletes the right rows.                 *)
CacheSettled ==
    Unrefused /\ (\A r \in Request : ~InCommit(r)) => hashes = rows

(* A write answered with 200 is durable (app/api.py: "Flush business       *)
(* mutations before usage telemetry narrows the dirty scope"), whatever    *)
(* the other threads are doing, until the record is written again.         *)
AckedSurvives == \A k \in Key \ touched : rows[k] = promised[k]

(* It is, whatever fails, as long as no refusal commits beside the lock.   *)
AckedUnlessRefused == Unrefused => AckedSurvives

(* Taken together, and with the process dying at any point: the threads    *)
(* give their clients what RecordStore gives them one at a time, the       *)
(* contract of AcknowledgedStore, as long as no refusal commits beside the *)
(* lock.                                                                   *)
Contract == INSTANCE AcknowledgedStore WITH view <- mem, stable <- rows

ContractUnlessRefused ==
    Contract!Init /\ [][Unrefused' => Contract!Next]_(Contract!vars)

(* How many more steps a request takes at the most, from where it is: a    *)
(* business commit is followed by the five steps of the usage commit.      *)
StepsLeft ==
    [new |-> 13, handler |-> 12, flush |-> 11, allocation |-> 8, try |-> 7, usage |-> 6,
     scan |-> 5, delete |-> 4, txn |-> 3, clear |-> 2, done |-> 0]

Remaining(r) ==
    StepsLeft[pc[r]] + (IF InCommit(r) /\ cont[r] = "flushed" THEN 5 ELSE 0)

(* Nothing is retried and nothing polls: whatever fails or dies, a request *)
(* is over after 13 steps of its own, the ten of its business commit and   *)
(* its usage commit included.  So waiting is all that can keep a request   *)
(* from its answer.                                                        *)
RequestsAreShort ==
    [][\A r \in Request : pc'[r] # pc[r] => Remaining(r)' < Remaining(r)]_vars

(* A request to the allocation workspace is answered although an ordinary  *)
(* handler may hold the dispatch lock for ever                             *)
(* (tests/dynamic_allocation/test_runtime.py).                             *)
AllocationAnswered ==
    \A r \in Request :
        kind[r] \in {"allocation", "allocation_denied"} ~> pc[r] = "done"
=============================================================================
