------------------------ MODULE DispatchThreadsProofs ------------------------
(***************************************************************************)
(* Proofs about DispatchThreads, for any number of requests, records and   *)
(* collections, and any kinds of request.                                  *)
(*                                                                         *)
(* As long as no allocation request was refused, a request between its     *)
(* handler and its answer holds the dispatch lock (Guarded), so what the   *)
(* locals of its commit say of the store (InStep) is disturbed by nobody.  *)
(***************************************************************************)
EXTENDS DispatchThreads, TLAPS

-----------------------------------------------------------------------------
(***************************************************************************)
(* Type correctness                                                        *)
(***************************************************************************)

LEMMA InitType == Init => TypeOK
BY NoneAssumption DEF Init, TypeOK, Label, NoWrites, Content

LEMMA UsageInCollection == UsageKey \in Key /\ CollectionOf[UsageKey] \in Collection
BY UsageKeyAssumption, KeyAssumption

(* A restart has every row in memory. *)
LEMMA LoadsAllRows ==
    ASSUME TypeOK
    PROVE  Loaded(rows) = rows
BY NoBarsAssumption DEF Loaded, TypeOK

(* Where a request goes to. *)
LEMMA GotoType ==
    ASSUME TypeOK, NEW r \in Request, NEW label \in Label, Goto(r, label)
    PROVE  pc' \in [Request -> Label] /\ pc'[r] = label
           /\ \A q \in Request \ {r} : pc'[q] = pc[q]
BY DEF TypeOK, Goto

LEMMA AnswerType ==
    ASSUME TypeOK, NEW r \in Request, Answer(r)
    PROVE  /\ pc' \in [Request -> Label] /\ pc'[r] = "done"
           /\ \A q \in Request \ {r} : pc'[q] = pc[q]
           /\ dispatchLock' \in Request \cup {None}
           /\ allocationLock' \in Request \cup {None}
<1>1. "done" \in Label
  BY DEF Label
<1>2. /\ dispatchLock' \in {dispatchLock, None}
      /\ allocationLock' \in {allocationLock, None}
  BY DEF Answer
<1> QED
  BY <1>1, <1>2, GotoType DEF Answer, TypeOK

LEMMA NextType == TypeOK /\ [Next]_vars => TypeOK'
<1> SUFFICES ASSUME TypeOK, [Next]_vars PROVE TypeOK'
  OBVIOUS
<1> USE DEF store, locals, locks, ghosts
<1>l. {"new", "allocation", "try", "handler", "flush", "usage",
       "scan", "delete", "txn", "clear", "done"} = Label
  BY DEF Label
<1>1. ASSUME NEW r \in Request, Dispatch(r) PROVE TypeOK'
  <2>1. pc' \in [Request -> Label]
    BY <1>1, <1>l, GotoType DEF Dispatch
  <2>2. /\ kind' \in [Request -> Kinds \cup {None}]
        /\ cont' \in [Request -> {"none", "flushed", "counted", "refused"}]
        /\ before' \in [Request -> [Key -> Content]]
    <3>1. /\ \E k \in Kinds : kind' = [kind EXCEPT ![r] = k]
          /\ cont' = cont \/ cont' = [cont EXCEPT ![r] = "refused"]
          /\ before' = before \/ before' = [before EXCEPT ![r] = hashes]
      BY <1>1 DEF Dispatch
    <3>2. kind' \in [Request -> Kinds \cup {None}]
      BY <3>1 DEF TypeOK
    <3>3. cont' \in [Request -> {"none", "flushed", "counted", "refused"}]
      BY <3>1 DEF TypeOK
    <3>4. before' \in [Request -> [Key -> Content]]
      BY <3>1 DEF TypeOK
    <3> QED
      BY <3>2, <3>3, <3>4
  <2> QED
    BY <1>1, <2>1, <2>2 DEF Dispatch, TypeOK
<1>2. ASSUME NEW r \in Request, DispatchAllocation(r) PROVE TypeOK'
  <2>1. pc' \in [Request -> Label]
    BY <1>2, <1>l, GotoType DEF DispatchAllocation
  <2>2. /\ kind' \in [Request -> Kinds \cup {None}]
        /\ cont' \in [Request -> {"none", "flushed", "counted", "refused"}]
        /\ before' \in [Request -> [Key -> Content]]
    <3>1. /\ \E k \in Kinds : kind' = [kind EXCEPT ![r] = k]
          /\ cont' = cont \/ cont' = [cont EXCEPT ![r] = "refused"]
          /\ before' = before \/ before' = [before EXCEPT ![r] = hashes]
      BY <1>2 DEF DispatchAllocation
    <3>2. kind' \in [Request -> Kinds \cup {None}]
      BY <3>1 DEF TypeOK
    <3>3. cont' \in [Request -> {"none", "flushed", "counted", "refused"}]
      BY <3>1 DEF TypeOK
    <3>4. before' \in [Request -> [Key -> Content]]
      BY <3>1 DEF TypeOK
    <3> QED
      BY <3>2, <3>3, <3>4
  <2> QED
    BY <1>2, <2>1, <2>2 DEF DispatchAllocation, TypeOK
<1>3. ASSUME NEW r \in Request, AllocationReturns(r) PROVE TypeOK'
  BY <1>3, <1>l, GotoType DEF AllocationReturns, TypeOK
<1>4. ASSUME NEW r \in Request, TryUsage(r) PROVE TypeOK'
  BY <1>4, <1>l, GotoType DEF TryUsage, TypeOK
<1>5. ASSUME NEW r \in Request, Handle(r) PROVE TypeOK'
  <2>1. pc' \in [Request -> Label]
    BY <1>5, <1>l, GotoType DEF Handle
  <2>2. mem' \in [Key -> Content] /\ touched' \subseteq Key
    BY <1>5 DEF Handle, TypeOK, Content
  <2> QED
    BY <1>5, <2>1, <2>2 DEF Handle, TypeOK
<1>6. ASSUME NEW r \in Request, HandlerRaises(r) PROVE TypeOK'
  BY <1>6, AnswerType DEF HandlerRaises, TypeOK
<1>7. ASSUME NEW r \in Request, Flush(r) PROVE TypeOK'
  <2>1. pc' \in [Request -> Label]
    BY <1>7, <1>l, GotoType DEF Flush
  <2>2. /\ cont' \in [Request -> {"none", "flushed", "counted", "refused"}]
        /\ before' \in [Request -> [Key -> Content]]
        /\ pending' \in [Request -> SUBSET Collection]
    BY <1>7 DEF Flush, TypeOK
  <2> QED
    BY <1>7, <2>1, <2>2 DEF Flush, TypeOK
<1>8. ASSUME NEW r \in Request, Count(r) PROVE TypeOK'
  <2>1. pc' \in [Request -> Label]
    BY <1>8, <1>l, GotoType DEF Count
  <2>2. /\ cont' \in [Request -> {"none", "flushed", "counted", "refused"}]
        /\ before' \in [Request -> [Key -> Content]]
        /\ previous' \in [Request -> Content]
    BY <1>8, UsageInCollection DEF Count, TypeOK
  <2>3. mem' \in [Key -> Content] /\ touched' \subseteq Key /\ dirty' \subseteq Collection
    BY <1>8, UsageInCollection DEF Count, TypeOK, Content
  <2> QED
    BY <1>8, <2>1, <2>2, <2>3 DEF Count, TypeOK
<1>9. ASSUME NEW r \in Request, Scan(r) PROVE TypeOK'
  <2>1. pc' \in [Request -> Label]
    BY <1>9, <1>l, GotoType DEF Scan
  <2>2. hashes' \in [Key -> Content]
    BY <1>9 DEF Scan, TypeOK
  <2>3. current' \in [Request -> SUBSET Key]
    BY <1>9 DEF Scan, TypeOK, CurrentKeys
  <2>4. writes' \in [Request -> [Key -> Content \cup {None}]]
    <3> DEFINE W == Changed(mem, hashes, Target(dirty))
               w == [k \in Key |-> IF k \in W THEN mem[k] ELSE None]
    <3>1. w \in [Key -> Content \cup {None}]
      BY DEF TypeOK
    <3>2. writes' = [writes EXCEPT ![r] = w]
      BY <1>9 DEF Scan
    <3> HIDE DEF w
    <3> QED
      BY <3>1, <3>2 DEF TypeOK
  <2> QED
    BY <1>9, <2>1, <2>2, <2>3, <2>4 DEF Scan, TypeOK
<1>10. ASSUME NEW r \in Request, DeleteRows(r) PROVE TypeOK'
  <2>1. pc' \in [Request -> Label]
    BY <1>10, <1>l, GotoType DEF DeleteRows
  <2> DEFINE D == IF dirty = {} THEN Deletable(hashes, current[r]) ELSE {}
             w == [k \in Key |-> IF k \in D THEN Absent ELSE writes[r][k]]
  <2>2. /\ writes' = [writes EXCEPT ![r] = w]
        /\ hashes' = [k \in Key |-> IF k \in D THEN Absent ELSE hashes[k]]
    BY <1>10 DEF DeleteRows
  <2>3. hashes' \in [Key -> Content] /\ w \in [Key -> Content \cup {None}]
    BY <2>2 DEF TypeOK, Content
  <2> HIDE DEF w, D
  <2>4. writes' \in [Request -> [Key -> Content \cup {None}]]
    BY <2>2, <2>3 DEF TypeOK
  <2> QED
    BY <1>10, <2>1, <2>3, <2>4 DEF DeleteRows, TypeOK
<1>11. ASSUME NEW r \in Request, CommitTransaction(r) PROVE TypeOK'
  <2>1. pc' \in [Request -> Label]
    BY <1>11, <1>l, GotoType DEF CommitTransaction
  <2>2. rows' \in [Key -> Content]
    BY <1>11 DEF CommitTransaction, TypeOK, Written
  <2>3. NoWrites \in [Key -> Content \cup {None}]
    BY DEF NoWrites
  <2>4. writes' \in [Request -> [Key -> Content \cup {None}]]
    BY <1>11, <2>3 DEF CommitTransaction, TypeOK
  <2> QED
    BY <1>11, <2>1, <2>2, <2>4 DEF CommitTransaction, TypeOK
<1>12. ASSUME NEW r \in Request, Fail(r) PROVE TypeOK'
  <2>1. NoWrites \in [Key -> Content \cup {None}]
    BY DEF NoWrites
  <2>2. writes' \in [Request -> [Key -> Content \cup {None}]]
    BY <1>12, <2>1 DEF Fail, TypeOK
  <2>3. mem' \in [Key -> Content]
    <3>1. previous[r] \in Content
      BY DEF TypeOK
    <3>2. mem' = mem \/ mem' = [mem EXCEPT ![UsageKey] = previous[r]]
      BY <1>12 DEF Fail
    <3> QED
      BY <3>1, <3>2 DEF TypeOK
  <2>4. hashes' \in [Key -> Content] /\ dirty' \subseteq Collection
    BY <1>12 DEF Fail, TypeOK
  <2> QED
    BY <1>12, <2>2, <2>3, <2>4, AnswerType DEF Fail, TypeOK
<1>13. ASSUME NEW r \in Request, Clear(r) PROVE TypeOK'
  <2>1. CASE cont[r] = "flushed"
    <3>1. pc' \in [Request -> Label]
      BY <1>13, <2>1, <1>l, GotoType DEF Clear
    <3> QED
      BY <1>13, <2>1, <3>1 DEF Clear, TypeOK
  <2>2. CASE cont[r] # "flushed"
    BY <1>13, <2>2, AnswerType DEF Clear, TypeOK
  <2> QED
    BY <2>1, <2>2
<1>14. ASSUME UNCHANGED vars PROVE TypeOK'
  BY <1>14 DEF vars, TypeOK
<1>15. ASSUME Crash PROVE TypeOK'
  <2>1. pc' \in [Request -> Label]
    BY <1>15 DEF Crash, TypeOK, Label
  <2>2. NoWrites \in [Key -> Content \cup {None}]
    BY DEF NoWrites
  <2>3. writes' \in [Request -> [Key -> Content \cup {None}]]
    BY <1>15, <2>2 DEF Crash
  <2>4. mem' = rows /\ hashes' = rows
    BY <1>15, LoadsAllRows DEF Crash
  <2>5. promised' \in [Key -> Content]
    BY <1>15 DEF Crash, TypeOK
  <2> QED
    BY <1>15, <2>1, <2>3, <2>4, <2>5 DEF Crash, TypeOK
<1> QED
  BY <1>1, <1>2, <1>3, <1>4, <1>5, <1>6, <1>7, <1>8, <1>9, <1>10, <1>11, <1>12, <1>13,
     <1>14, <1>15 DEF Next, Step, AllAnswered

(* The locals of every thread and the store keep their types, also when    *)
(* commits overlap.                                                        *)
THEOREM TypeCorrect == Spec => []TypeOK
<1> QED
  BY InitType, NextType, PTL DEF Spec

-----------------------------------------------------------------------------
(***************************************************************************)
(* Commits one at a time                                                   *)
(***************************************************************************)

Guarded == {"handler", "flush", "usage", "scan", "delete", "txn", "clear"}

(* The dispatch lock is held from the handler to the answer. *)
Holds == \A r \in Request : pc[r] \in Guarded => dispatchLock = r

(* A transaction is open between the scan and the end of the commit; the   *)
(* hash cache is then ahead of the rows by what it writes.                 *)
Open(r) == pc[r] \in {"delete", "txn"}

Ahead(r) ==
    /\ \A k \in Key : hashes[k] = IF writes[r][k] # None THEN writes[r][k] ELSE rows[k]
    /\ \A k \in Key : writes[r][k] # None => writes[r][k] = mem[k]

(* What a request in its commit knows. *)
InStep(r) ==
    /\ Open(r) => Ahead(r)
    /\ ~Open(r) => writes[r] = NoWrites
    /\ pc[r] \in {"scan", "delete", "txn"} => before[r] = rows
    /\ pc[r] = "delete" => current[r] = CurrentKeys(mem, Target(dirty))
    /\ InCommit(r) /\ cont[r] = "flushed" => dirty = {}
    /\ pc[r] \in {"delete", "txn", "clear"} /\ cont[r] = "flushed" => hashes = mem
    /\ InCommit(r) /\ cont[r] = "counted" =>
          /\ UsageKey \in touched
          /\ pc[r] # "clear" /\ previous[r] = Absent => rows[UsageKey] = Absent

(* The store between the commits. *)
Settled ==
    /\ (\A r \in Request : ~Open(r)) => hashes = rows
    /\ \A k \in Key : mem[k] = Absent => rows[k] = Absent
    /\ \A k \in Key \ touched : rows[k] = promised[k] /\ mem[k] = promised[k]

Alone == Holds /\ (\A r \in Request : InStep(r)) /\ Settled

(* A request that has not begun has no kind. *)
Fresh == \A r \in Request : pc[r] = "new" => kind[r] = None

IInv == TypeOK /\ Fresh /\ (Unrefused => Alone)

LEMMA InitAlone == Init => Alone
<1> SUFFICES ASSUME Init PROVE Alone
  OBVIOUS
<1>1. \A r \in Request : pc[r] = "new" /\ writes[r] = NoWrites
  BY DEF Init
<1>2. Holds /\ Settled
  BY <1>1 DEF Init, Holds, Guarded, Settled
<1>3. \A r \in Request : InStep(r)
  BY <1>1 DEF InStep, Open, InCommit
<1> QED
  BY <1>2, <1>3 DEF Alone

(* No other request is between its handler and its answer.                 *)
LEMMA OthersWait ==
    ASSUME Holds, NEW r \in Request, pc[r] \in Guarded
    PROVE  \A q \in Request \ {r} : pc[q] \notin Guarded
BY DEF Holds

LEMMA NobodyInside ==
    ASSUME TypeOK, Holds, dispatchLock = None
    PROVE  \A q \in Request : pc[q] \notin Guarded
BY NoneAssumption DEF Holds

(* A request that is not Guarded knows nothing that others can disturb.    *)
LEMMA OutsideStays ==
    ASSUME NEW q \in Request, InStep(q), pc[q] \notin Guarded,
           pc'[q] = pc[q], writes'[q] = writes[q]
    PROVE  InStep(q)'
BY DEF InStep, Open, InCommit, Guarded

(* A kind is given to a request that begins, and to no other. *)
LEMMA NextFresh ==
    ASSUME TypeOK, Fresh, [Next]_vars
    PROVE  Fresh' /\ (Unrefused' => Unrefused)
<1>1. CASE UNCHANGED kind /\ \A r \in Request : pc'[r] = "new" => pc[r] = "new"
  BY <1>1 DEF Fresh, Unrefused
<1>2. ASSUME NEW r \in Request, Dispatch(r) \/ DispatchAllocation(r)
      PROVE  Fresh' /\ (Unrefused' => Unrefused)
  <2>1. PICK k \in Kinds : kind' = [kind EXCEPT ![r] = k]
    BY <1>2 DEF Dispatch, DispatchAllocation
  <2>2. kind[r] = None
    BY <1>2 DEF Fresh, Dispatch, DispatchAllocation
  <2>3. \A q \in Request \ {r} : kind'[q] = kind[q]
    BY <2>1 DEF TypeOK
  <2>4. \A q \in Request : pc'[q] = "new" => q # r /\ pc[q] = "new"
    BY <1>2 DEF Dispatch, DispatchAllocation, Goto, TypeOK
  <2>5. kind[r] # "allocation_denied"
    BY <2>2, NoneAssumption DEF AllKinds
  <2> QED
    BY <2>3, <2>4, <2>5 DEF Fresh, Unrefused
<1>3. ASSUME NEW r \in Request,
             \/ AllocationReturns(r) \/ TryUsage(r) \/ Handle(r) \/ HandlerRaises(r)
             \/ Flush(r) \/ Count(r) \/ Scan(r) \/ DeleteRows(r) \/ CommitTransaction(r)
             \/ Fail(r) \/ Clear(r)
      PROVE  UNCHANGED kind /\ \A q \in Request : pc'[q] = "new" => pc[q] = "new"
  <2>1. UNCHANGED kind
    BY <1>3 DEF AllocationReturns, TryUsage, Handle, HandlerRaises, Flush, Count, Scan,
                DeleteRows, CommitTransaction, Fail, Clear
  <2>2. \E label \in Label \ {"new"} : Goto(r, label)
    BY <1>3 DEF AllocationReturns, TryUsage, Handle, HandlerRaises, Flush, Count, Scan,
                DeleteRows, CommitTransaction, Fail, Clear, Answer, Label
  <2> QED
    BY <2>1, <2>2 DEF Goto, TypeOK
<1>4. CASE UNCHANGED vars
  BY <1>4, <1>1 DEF vars
<1>5. CASE Crash
  BY <1>5, <1>1 DEF Crash
<1> QED
  BY <1>1, <1>2, <1>3, <1>4, <1>5 DEF Next, Step, AllAnswered

-----------------------------------------------------------------------------
(* One lemma for each action, before and after which none is refused. *)

(* The others, and the lock, when request r is where the lock is held. *)
LEMMA OthersStay ==
    ASSUME TypeOK, Alone, NEW r \in Request, pc[r] \in Guarded,
           \A q \in Request \ {r} : pc'[q] = pc[q] /\ writes'[q] = writes[q],
           pc'[r] \in Guarded => dispatchLock' = r
    PROVE  Holds' /\ \A q \in Request \ {r} : InStep(q)'
<1>1. \A q \in Request \ {r} : pc[q] \notin Guarded
  BY OthersWait DEF Alone
<1>2. Holds'
  BY <1>1 DEF Holds
<1>3. ASSUME NEW q \in Request \ {r} PROVE InStep(q)'
  BY <1>1, OutsideStays DEF Alone
<1> QED
  BY <1>2, <1>3

LEMMA DispatchStep ==
    ASSUME TypeOK, Alone, NEW r \in Request, Dispatch(r)
    PROVE  Alone'
<1>1. \A q \in Request : pc[q] \notin Guarded
  BY NobodyInside DEF Alone, Dispatch
<1>2. UNCHANGED <<mem, hashes, dirty, rows, writes, promised, touched>> /\ dispatchLock' = r
  BY DEF Dispatch, store, ghosts
<1>3. \A q \in Request \ {r} : pc'[q] = pc[q]
  BY DEF Dispatch, Goto, TypeOK
<1>4. hashes = rows /\ writes[r] = NoWrites
  BY <1>1 DEF Alone, Settled, Guarded, Open, InStep
<1>5. \/ pc'[r] = "handler"
      \/ pc'[r] = "scan" /\ cont'[r] = "refused" /\ before'[r] = hashes
  BY DEF Dispatch, Goto, TypeOK
<1>6. InStep(r)'
  BY <1>2, <1>4, <1>5 DEF InStep, Open, InCommit
<1>7. \A q \in Request \ {r} : InStep(q)'
  BY <1>1, <1>2, <1>3, OutsideStays DEF Alone
<1>8. Holds'
  BY <1>1, <1>2, <1>3 DEF Holds
<1>9. Settled'
  BY <1>2, <1>4 DEF Alone, Settled
<1> QED
  BY <1>6, <1>7, <1>8, <1>9 DEF Alone

(* A step outside what the lock guards: another request may be inside. *)
LEMMA OutsideStep ==
    ASSUME TypeOK, Alone, NEW r \in Request, pc[r] \notin Guarded,
           NEW label \in Label \ Guarded, Goto(r, label),
           UNCHANGED <<cont, dispatchLock, store, rows, locals, promised, touched>>
    PROVE  Alone'
<1>1. pc'[r] = label /\ \A q \in Request \ {r} : pc'[q] = pc[q]
  BY GotoType
<1>2. Holds'
  BY <1>1 DEF Alone, Holds, store
<1>3. InStep(r)'
  BY <1>1 DEF Alone, InStep, Open, InCommit, Guarded, store, locals
<1>4. ASSUME NEW q \in Request \ {r} PROVE InStep(q)'
  BY <1>1 DEF Alone, InStep, Open, InCommit, Ahead, store, locals
<1>5. \A q \in Request : Open(q)' <=> Open(q)
  BY <1>1 DEF Open, Guarded
<1>6. Settled'
  BY <1>5 DEF Alone, Settled, store, locals
<1> QED
  BY <1>2, <1>3, <1>4, <1>6 DEF Alone

LEMMA TryUsageStep ==
    ASSUME TypeOK, Alone, NEW r \in Request, TryUsage(r)
    PROVE  Alone'
<1>1. CASE dispatchLock = None
  <2>1. \A q \in Request : pc[q] \notin Guarded
    BY <1>1, NobodyInside DEF Alone
  <2>2. pc'[r] = "usage" /\ dispatchLock' = r /\ \A q \in Request \ {r} : pc'[q] = pc[q]
    BY <1>1 DEF TryUsage, Goto, TypeOK
  <2>3. UNCHANGED <<cont, store, rows, locals, ghosts>>
    BY DEF TryUsage
  <2>4. Holds'
    BY <2>1, <2>2 DEF Holds
  <2>5. \A q \in Request \ {r} : InStep(q)'
    BY <2>1, <2>2, <2>3, OutsideStays DEF Alone, locals
  <2>6. InStep(r)'
    BY <2>1, <2>2, <2>3 DEF Alone, InStep, Open, InCommit, Guarded, locals
  <2>7. \A q \in Request : ~Open(q) /\ ~Open(q)'
    BY <2>1, <2>2 DEF Open, Guarded
  <2>8. Settled'
    BY <2>3, <2>7 DEF Alone, Settled, store, ghosts
  <2> QED
    BY <2>4, <2>5, <2>6, <2>8 DEF Alone
<1>2. CASE dispatchLock # None
  <2>1. "done" \in Label \ Guarded /\ "try" \notin Guarded
    BY DEF Label, Guarded
  <2> QED
    BY <1>2, <2>1, OutsideStep DEF TryUsage, ghosts
<1> QED
  BY <1>1, <1>2

(* The store, when only request r is inside and its transaction is not     *)
(* open before or after the step.                                          *)
LEMMA StoreStays ==
    ASSUME TypeOK, Alone, NEW r \in Request, pc[r] \in Guarded, ~Open(r)
    PROVE  hashes = rows /\ \A q \in Request : ~Open(q)
<1>1. \A q \in Request \ {r} : pc[q] \notin Guarded
  BY OthersWait DEF Alone
<1>2. \A q \in Request : ~Open(q)
  BY <1>1 DEF Open, Guarded
<1> QED
  BY <1>2 DEF Alone, Settled

LEMMA HandleStep ==
    ASSUME TypeOK, Alone, NEW r \in Request, Handle(r)
    PROVE  Alone'
<1>1. pc[r] \in Guarded /\ ~Open(r)
  BY DEF Handle, Guarded, Open
<1>2. pc'[r] = "flush" /\ \A q \in Request \ {r} : pc'[q] = pc[q]
  BY DEF Handle, Goto, TypeOK
<1>3. UNCHANGED <<dispatchLock, hashes, dirty, rows, writes, promised>>
  BY DEF Handle, locks, locals
<1>4. Holds' /\ \A q \in Request \ {r} : InStep(q)'
  <2>1. dispatchLock' = r
    BY <1>1, <1>3 DEF Alone, Holds
  <2> QED
    BY <1>1, <1>2, <1>3, <2>1, OthersStay
<1>5. InStep(r)'
  BY <1>1, <1>2, <1>3 DEF Alone, InStep, Open, InCommit
<1>6. hashes = rows
  BY <1>1, StoreStays
<1>7. PICK k \in Key, v \in Payload :
          mem' = [mem EXCEPT ![k] = v] /\ touched' = touched \cup {k}
  BY DEF Handle
<1>8. Settled'
  <2>1. \A j \in Key : mem'[j] = IF j = k THEN v ELSE mem[j]
    BY <1>7 DEF TypeOK
  <2>2. v # Absent
    BY PayloadAssumption
  <2> QED
    BY <1>3, <1>6, <1>7, <2>1, <2>2 DEF Alone, Settled
<1> QED
  BY <1>4, <1>5, <1>8 DEF Alone

LEMMA HandlerRaisesStep ==
    ASSUME TypeOK, Alone, NEW r \in Request, HandlerRaises(r)
    PROVE  Alone'
<1>1. pc[r] \in Guarded /\ ~Open(r)
  BY DEF HandlerRaises, Guarded, Open
<1>2. pc'[r] = "done" /\ \A q \in Request \ {r} : pc'[q] = pc[q]
  BY AnswerType DEF HandlerRaises
<1>3. UNCHANGED <<cont, store, rows, locals, ghosts>>
  BY DEF HandlerRaises
<1>4. Holds' /\ \A q \in Request \ {r} : InStep(q)'
  BY <1>1, <1>2, <1>3, OthersStay DEF Guarded, locals
<1>5. InStep(r)'
  BY <1>1, <1>2, <1>3 DEF Alone, InStep, Open, InCommit, locals
<1>6. hashes = rows
  BY <1>1, StoreStays
<1>7. Settled'
  BY <1>3, <1>6 DEF Alone, Settled, store, ghosts
<1> QED
  BY <1>4, <1>5, <1>7 DEF Alone

LEMMA FlushStep ==
    ASSUME TypeOK, Alone, NEW r \in Request, Flush(r)
    PROVE  Alone'
<1>1. pc[r] \in Guarded /\ ~Open(r)
  BY DEF Flush, Guarded, Open
<1>2. pc'[r] = "scan" /\ \A q \in Request \ {r} : pc'[q] = pc[q]
  BY DEF Flush, Goto, TypeOK
<1>3. UNCHANGED <<dispatchLock, mem, hashes, rows, writes, ghosts>> /\ dirty' = {}
  BY DEF Flush, locks
<1>4. Holds' /\ \A q \in Request \ {r} : InStep(q)'
  <2>1. dispatchLock' = r
    BY <1>1, <1>3 DEF Alone, Holds
  <2> QED
    BY <1>1, <1>2, <1>3, <2>1, OthersStay
<1>5. hashes = rows
  BY <1>1, StoreStays
<1>6. InStep(r)'
  <2>1. before'[r] = hashes /\ cont'[r] = "flushed"
    BY DEF Flush, TypeOK
  <2> QED
    BY <1>1, <1>2, <1>3, <1>5, <2>1 DEF Alone, InStep, Open, InCommit
<1>7. Settled'
  BY <1>3, <1>5 DEF Alone, Settled, ghosts
<1> QED
  BY <1>4, <1>6, <1>7 DEF Alone

LEMMA CountStep ==
    ASSUME TypeOK, Alone, NEW r \in Request, Count(r)
    PROVE  Alone'
<1>1. pc[r] \in Guarded /\ ~Open(r)
  BY DEF Count, Guarded, Open
<1>2. pc'[r] = "scan" /\ \A q \in Request \ {r} : pc'[q] = pc[q]
  BY DEF Count, Goto, TypeOK
<1>3. UNCHANGED <<dispatchLock, hashes, rows, writes, promised>>
  BY DEF Count, locks
<1>4. Holds' /\ \A q \in Request \ {r} : InStep(q)'
  <2>1. dispatchLock' = r
    BY <1>1, <1>3 DEF Alone, Holds
  <2> QED
    BY <1>1, <1>2, <1>3, <2>1, OthersStay
<1>5. hashes = rows
  BY <1>1, StoreStays
<1>6. /\ before'[r] = hashes /\ cont'[r] = "counted" /\ previous'[r] = mem[UsageKey]
      /\ touched' = touched \cup {UsageKey}
  BY DEF Count, TypeOK
<1>7. mem[UsageKey] = Absent => rows[UsageKey] = Absent
  BY UsageInCollection DEF Alone, Settled
<1>8. InStep(r)'
  BY <1>1, <1>2, <1>3, <1>5, <1>6, <1>7 DEF Alone, InStep, Open, InCommit
<1>9. Settled'
  <2>1. PICK v \in Payload : mem' = [mem EXCEPT ![UsageKey] = v]
    BY DEF Count
  <2>2. \A j \in Key : mem'[j] = IF j = UsageKey THEN v ELSE mem[j]
    BY <2>1 DEF TypeOK
  <2>3. v # Absent
    BY PayloadAssumption
  <2> QED
    BY <1>3, <1>5, <1>6, <2>2, <2>3 DEF Alone, Settled
<1> QED
  BY <1>4, <1>8, <1>9 DEF Alone

LEMMA ScanStep ==
    ASSUME TypeOK, Alone, NEW r \in Request, Scan(r)
    PROVE  Alone'
<1> DEFINE T == Target(dirty)
           W == Changed(mem, hashes, T)
           w == [k \in Key |-> IF k \in W THEN mem[k] ELSE None]
<1>1. pc[r] = "scan" /\ pc[r] \in Guarded /\ ~Open(r)
  BY DEF Scan, Guarded, Open
<1>2. pc'[r] = "delete" /\ \A q \in Request \ {r} : pc'[q] = pc[q]
  BY DEF Scan, Goto, TypeOK
<1>3. UNCHANGED <<cont, dispatchLock, mem, dirty, rows, before, previous, promised, touched>>
  BY DEF Scan, locks, ghosts
<1>4. /\ writes'[r] = w /\ \A q \in Request \ {r} : writes'[q] = writes[q]
      /\ current'[r] = CurrentKeys(mem, T)
      /\ hashes' = [k \in Key |-> IF k \in W THEN mem[k] ELSE hashes[k]]
  BY DEF Scan, TypeOK
<1>5. Holds' /\ \A q \in Request \ {r} : InStep(q)'
  <2>1. dispatchLock' = r
    BY <1>1, <1>3 DEF Alone, Holds
  <2> QED
    BY <1>1, <1>2, <1>4, <2>1, OthersStay
<1>6. hashes = rows
  BY <1>1, StoreStays
<1>7. \A k \in Key : mem[k] # None
  BY NoneAssumption DEF TypeOK
<1>8. Ahead(r)'
  <2>1. \A k \in Key : hashes'[k] = IF writes'[r][k] # None THEN writes'[r][k] ELSE rows'[k]
    BY <1>3, <1>4, <1>6, <1>7
  <2>2. \A k \in Key : writes'[r][k] # None => writes'[r][k] = mem'[k]
    BY <1>3, <1>4
  <2> QED
    BY <2>1, <2>2 DEF Ahead
<1>9. cont[r] = "flushed" => hashes' = mem
  <2>1. SUFFICES ASSUME cont[r] = "flushed" PROVE hashes' = mem
    OBVIOUS
  <2>2. T = Collection
    BY <1>1, <2>1 DEF Alone, InStep, InCommit, Target
  <2>3. ASSUME NEW k \in Key PROVE hashes'[k] = mem[k]
    <3>1. CASE mem[k] = Absent
      BY <1>4, <1>6, <3>1 DEF Alone, Settled, Changed, CurrentKeys
    <3>2. CASE mem[k] # Absent
      BY <1>4, <2>2, <3>2, KeyAssumption DEF Changed, CurrentKeys
    <3> QED
      BY <3>1, <3>2
  <2> QED
    BY <1>4, <2>3 DEF TypeOK
<1>10. InStep(r)'
  <2>1. /\ current'[r] = CurrentKeys(mem', Target(dirty'))
        /\ before'[r] = rows'
    BY <1>1, <1>3, <1>4 DEF Alone, InStep
  <2>2. cont'[r] = "flushed" => dirty' = {}
    BY <1>1, <1>3 DEF Alone, InStep, InCommit
  <2>3. cont'[r] = "flushed" => hashes' = mem'
    BY <1>3, <1>9
  <2>4. cont'[r] = "counted" =>
           UsageKey \in touched' /\ (previous'[r] = Absent => rows'[UsageKey] = Absent)
    BY <1>1, <1>3 DEF Alone, InStep, InCommit
  <2> QED
    BY <1>2, <1>8, <2>1, <2>2, <2>3, <2>4 DEF InStep, Open, InCommit
<1>11. Settled'
  BY <1>2, <1>3 DEF Alone, Settled, Open
<1> QED
  BY <1>5, <1>10, <1>11 DEF Alone

LEMMA DeleteRowsStep ==
    ASSUME TypeOK, Alone, NEW r \in Request, DeleteRows(r)
    PROVE  Alone'
<1> DEFINE D == IF dirty = {} THEN Deletable(hashes, current[r]) ELSE {}
           w == [k \in Key |-> IF k \in D THEN Absent ELSE writes[r][k]]
<1>1. pc[r] = "delete" /\ pc[r] \in Guarded /\ Open(r)
  BY DEF DeleteRows, Guarded, Open
<1>2. pc'[r] = "txn" /\ \A q \in Request \ {r} : pc'[q] = pc[q]
  BY DEF DeleteRows, Goto, TypeOK
<1>3. UNCHANGED <<cont, dispatchLock, mem, dirty, rows, before, previous, promised, touched>>
  BY DEF DeleteRows, locks, ghosts
<1>4. /\ writes'[r] = w /\ \A q \in Request \ {r} : writes'[q] = writes[q]
      /\ hashes' = [k \in Key |-> IF k \in D THEN Absent ELSE hashes[k]]
  BY DEF DeleteRows, TypeOK
<1>5. Holds' /\ \A q \in Request \ {r} : InStep(q)'
  <2>1. dispatchLock' = r
    BY <1>1, <1>3 DEF Alone, Holds
  <2> QED
    BY <1>1, <1>2, <1>4, <2>1, OthersStay
<1>6. \A k \in D : mem[k] = Absent
  <2>1. ASSUME dirty = {}, NEW k \in Key, k \notin current[r]
        PROVE  mem[k] = Absent
    <3>1. current[r] = CurrentKeys(mem, Collection)
      BY <1>1, <2>1 DEF Alone, InStep, Target
    <3> QED
      BY <2>1, <3>1, KeyAssumption DEF CurrentKeys
  <2> QED
    BY <2>1 DEF Deletable
<1>7. Ahead(r)
  BY <1>1 DEF Alone, InStep
<1>8. Absent # None
  BY NoneAssumption DEF Content
<1> HIDE DEF D
<1>9. Ahead(r)'
  <2>1. \A k \in Key : hashes'[k] = IF writes'[r][k] # None THEN writes'[r][k] ELSE rows'[k]
    BY <1>3, <1>4, <1>7, <1>8 DEF Ahead
  <2>2. \A k \in Key : writes'[r][k] # None => writes'[r][k] = mem'[k]
    BY <1>3, <1>4, <1>6, <1>7 DEF Ahead
  <2> QED
    BY <2>1, <2>2 DEF Ahead
<1>10. cont[r] = "flushed" => hashes' = mem
  <2>1. SUFFICES ASSUME hashes = mem PROVE hashes' = mem
    BY <1>1 DEF Alone, InStep
  <2>2. \A k \in Key : hashes'[k] = mem[k]
    BY <1>4, <1>6, <2>1
  <2> QED
    BY <1>4, <2>2 DEF TypeOK
<1>11. InStep(r)'
  <2>1. before'[r] = rows'
    BY <1>1, <1>3 DEF Alone, InStep
  <2>2. cont'[r] = "flushed" => dirty' = {}
    BY <1>1, <1>3 DEF Alone, InStep, InCommit
  <2>3. cont'[r] = "flushed" => hashes' = mem'
    BY <1>3, <1>10
  <2>4. cont'[r] = "counted" =>
           UsageKey \in touched' /\ (previous'[r] = Absent => rows'[UsageKey] = Absent)
    BY <1>1, <1>3 DEF Alone, InStep, InCommit
  <2> QED
    BY <1>2, <1>9, <2>1, <2>2, <2>3, <2>4 DEF InStep, Open, InCommit
<1>12. Settled'
  BY <1>2, <1>3 DEF Alone, Settled, Open
<1> QED
  BY <1>5, <1>11, <1>12 DEF Alone

LEMMA CommitTransactionStep ==
    ASSUME TypeOK, Alone, NEW r \in Request, CommitTransaction(r)
    PROVE  Alone'
<1>1. pc[r] = "txn" /\ pc[r] \in Guarded /\ Open(r)
  BY DEF CommitTransaction, Guarded, Open
<1>2. pc'[r] = "clear" /\ \A q \in Request \ {r} : pc'[q] = pc[q]
  BY DEF CommitTransaction, Goto, TypeOK
<1>3. UNCHANGED <<cont, dispatchLock, mem, hashes, dirty, before, previous, promised, touched>>
  BY DEF CommitTransaction, locks, ghosts, store
<1>4. /\ writes'[r] = NoWrites /\ \A q \in Request \ {r} : writes'[q] = writes[q]
      /\ rows' = [k \in Key |-> IF writes[r][k] # None THEN writes[r][k] ELSE rows[k]]
  BY DEF CommitTransaction, TypeOK, Written
<1>5. Holds' /\ \A q \in Request \ {r} : InStep(q)'
  <2>1. dispatchLock' = r
    BY <1>1, <1>3 DEF Alone, Holds
  <2> QED
    BY <1>1, <1>2, <1>4, <2>1, OthersStay
<1>6. Ahead(r)
  BY <1>1 DEF Alone, InStep
<1>7. rows' = hashes
  BY <1>4, <1>6 DEF Ahead, TypeOK
<1>8. \A k \in Key : rows'[k] \in {rows[k], mem[k]}
  BY <1>4, <1>6 DEF Ahead
<1>9. InStep(r)'
  BY <1>1, <1>2, <1>3, <1>4 DEF Alone, InStep, Open, InCommit
<1>10. Settled'
  BY <1>3, <1>7, <1>8 DEF Alone, Settled
<1> QED
  BY <1>5, <1>9, <1>10 DEF Alone

LEMMA FailStep ==
    ASSUME TypeOK, Alone, NEW r \in Request, Fail(r)
    PROVE  Alone'
<1>1. pc[r] \in {"scan", "delete", "txn"} /\ pc[r] \in Guarded /\ InCommit(r)
  BY DEF Fail, Guarded, InCommit
<1>2. pc'[r] = "done" /\ \A q \in Request \ {r} : pc'[q] = pc[q]
  BY AnswerType DEF Fail
<1>3. UNCHANGED <<cont, rows, before, previous, promised, touched>> /\ hashes' = rows
  BY <1>1 DEF Fail, ghosts, Alone, InStep
<1>4. writes'[r] = NoWrites /\ \A q \in Request \ {r} : writes'[q] = writes[q]
  BY DEF Fail, TypeOK
<1>5. Holds' /\ \A q \in Request \ {r} : InStep(q)'
  BY <1>1, <1>2, <1>4, OthersStay DEF Guarded
<1>6. InStep(r)'
  BY <1>2, <1>4 DEF InStep, Open, InCommit
<1>7. Settled'
  <2>1. CASE mem' = mem
    BY <1>3, <2>1 DEF Alone, Settled
  <2>2. CASE cont[r] = "counted" /\ mem' = [mem EXCEPT ![UsageKey] = previous[r]]
    <3>1. \A k \in Key : mem'[k] = IF k = UsageKey THEN previous[r] ELSE mem[k]
      BY <2>2 DEF TypeOK
    <3>2. UsageKey \in touched /\ (previous[r] = Absent => rows[UsageKey] = Absent)
      BY <1>1, <2>2 DEF Alone, InStep
    <3> QED
      BY <1>3, <3>1, <3>2 DEF Alone, Settled
  <2> QED
    BY <2>1, <2>2 DEF Fail
<1> QED
  BY <1>5, <1>6, <1>7 DEF Alone

LEMMA ClearStep ==
    ASSUME TypeOK, Alone, NEW r \in Request, Clear(r)
    PROVE  Alone'
<1>1. pc[r] = "clear" /\ pc[r] \in Guarded /\ ~Open(r) /\ InCommit(r)
  BY DEF Clear, Guarded, Open, InCommit
<1>2. pc'[r] \in {"usage", "done"} /\ \A q \in Request \ {r} : pc'[q] = pc[q]
  BY AnswerType DEF Clear, Goto, TypeOK
<1>3. UNCHANGED <<cont, mem, hashes, rows, locals>>
  BY DEF Clear
<1>4. hashes = rows
  BY <1>1, StoreStays
<1>5. Holds' /\ \A q \in Request \ {r} : InStep(q)'
  <2>1. pc'[r] \in Guarded => dispatchLock' = r
    <3>1. CASE cont[r] = "flushed"
      BY <1>1, <3>1 DEF Alone, Holds, Clear, locks
    <3>2. CASE cont[r] # "flushed"
      BY <3>2, AnswerType DEF Clear, Guarded
    <3> QED
      BY <3>1, <3>2
  <2> QED
    BY <1>1, <1>2, <1>3, <2>1, OthersStay DEF locals
<1>6. InStep(r)'
  BY <1>1, <1>2, <1>3 DEF Alone, InStep, Open, InCommit, locals
<1>7. Settled'
  <2>1. CASE cont[r] = "flushed"
    <3>1. promised' = mem /\ touched' = {} /\ hashes = mem
      BY <1>1, <2>1 DEF Clear, Alone, InStep
    <3> QED
      BY <1>3, <1>4, <3>1 DEF Alone, Settled
  <2>2. CASE UNCHANGED ghosts
    BY <1>3, <1>4, <2>2 DEF Alone, Settled, ghosts
  <2> QED
    BY <2>1, <2>2 DEF Clear
<1> QED
  BY <1>5, <1>6, <1>7 DEF Alone

(* After a crash nobody is inside, and what was touched counts as lost. *)
LEMMA CrashStep ==
    ASSUME TypeOK, Alone, Crash
    PROVE  Alone'
<1>1. \A r \in Request : pc'[r] \in {"new", "done"} /\ writes'[r] = NoWrites
  BY DEF Crash
<1>2. Holds'
  BY <1>1 DEF Holds, Guarded
<1>3. \A r \in Request : InStep(r)'
  BY <1>1 DEF InStep, Open, InCommit
<1>4. mem' = rows /\ hashes' = rows /\ rows' = rows
  BY LoadsAllRows DEF Crash
<1>5. \A k \in Key : promised'[k] = rows[k]
  BY DEF Crash, Alone, Settled
<1>6. Settled'
  BY <1>4, <1>5 DEF Settled
<1> QED
  BY <1>2, <1>3, <1>6 DEF Alone

LEMMA NextAlone ==
    ASSUME TypeOK, Alone, [Next]_vars, Unrefused'
    PROVE  Alone'
<1>1. ASSUME NEW r \in Request, DispatchAllocation(r) PROVE Alone'
  <2>1. PICK k \in Kinds \cap {"allocation", "allocation_denied"} :
           /\ kind' = [kind EXCEPT ![r] = k]
           /\ k = "allocation" => Goto(r, "allocation") /\ UNCHANGED <<cont, before>>
    BY <1>1 DEF DispatchAllocation
  <2>2. k = "allocation"
    BY <2>1 DEF Unrefused, TypeOK
  <2>3. "allocation" \in Label \ Guarded /\ pc[r] \notin Guarded
    BY <1>1 DEF DispatchAllocation, Label, Guarded
  <2>4. UNCHANGED <<cont, dispatchLock, store, rows, locals, promised, touched>>
    BY <1>1, <2>1, <2>2 DEF DispatchAllocation, locals, ghosts
  <2> QED
    BY <2>1, <2>2, <2>3, <2>4, OutsideStep
<1>2. ASSUME NEW r \in Request, AllocationReturns(r) PROVE Alone'
  <2>1. {"try", "done"} \subseteq Label \ Guarded /\ pc[r] \notin Guarded
    BY <1>2 DEF AllocationReturns, Label, Guarded
  <2>2. UNCHANGED <<cont, dispatchLock, store, rows, locals, promised, touched>>
    BY <1>2 DEF AllocationReturns, ghosts
  <2> QED
    BY <1>2, <2>1, <2>2, OutsideStep DEF AllocationReturns
<1>3. ASSUME UNCHANGED vars PROVE Alone'
  BY <1>3 DEF vars, locks, store, locals, ghosts, Alone, Holds, InStep, Settled, Open,
              Ahead, InCommit
<1> QED
  BY <1>1, <1>2, <1>3, DispatchStep, TryUsageStep, HandleStep, HandlerRaisesStep,
     FlushStep, CountStep, ScanStep, DeleteRowsStep, CommitTransactionStep, FailStep,
     ClearStep, CrashStep DEF Next, Step, AllAnswered

LEMMA Invariance == Spec => []IInv
<1>1. Init => IInv
  <2>1. Init => Fresh
    BY DEF Init, Fresh
  <2> QED
    BY <2>1, InitType, InitAlone DEF IInv
<1>2. IInv /\ [Next]_vars => IInv'
  BY NextType, NextFresh, NextAlone DEF IInv
<1> QED
  BY <1>1, <1>2, PTL DEF Spec

-----------------------------------------------------------------------------
(* Two threads are never inside commit at once, however many there are, as *)
(* long as no allocation request is refused.                               *)
THEOREM OneCommitAtATime == Spec => []CommitsSerialized
<1>1. ASSUME Alone, NEW q \in Request, NEW r \in Request, InCommit(q), InCommit(r)
      PROVE  q = r
  BY <1>1 DEF Alone, Holds, Guarded, InCommit
<1>2. IInv => CommitsSerialized
  BY <1>1 DEF IInv, CommitsSerialized
<1> QED
  BY Invariance, <1>2, PTL

(* Whatever fails, the hash cache is what the rows are when no commit is   *)
(* under way.                                                              *)
THEOREM CacheIsSettled == Spec => []CacheSettled
<1>1. ASSUME Alone, \A r \in Request : ~InCommit(r)
      PROVE  hashes = rows
  BY <1>1 DEF Alone, Settled, Open, InCommit
<1>2. IInv => CacheSettled
  BY <1>1 DEF IInv, CacheSettled
<1> QED
  BY Invariance, <1>2, PTL

(* What was answered with 200 stays in the database until it is written    *)
(* again, whatever the other threads do and whichever commits fail.        *)
THEOREM AckedStays == Spec => []AckedUnlessRefused
<1>1. IInv => AckedUnlessRefused
  BY DEF IInv, AckedUnlessRefused, AckedSurvives, Alone, Settled
<1> QED
  BY Invariance, <1>1, PTL

-----------------------------------------------------------------------------
(***************************************************************************)
(* The contract, and the number of steps                                   *)
(***************************************************************************)

(* What a request writes without telling anybody. *)
LEMMA MayWrite ==
    ASSUME TypeOK', UNCHANGED promised, touched \subseteq touched',
           \A k \in Key : mem'[k] # mem[k] => k \in touched',
           \A k \in Key : rows'[k] # rows[k] => rows'[k] = mem'[k]
    PROVE  Contract!WriteOrPersist
BY DEF TypeOK, Contract!WriteOrPersist, Content

LEMMA ContractStep ==
    ASSUME IInv, IInv', [Next]_vars, Unrefused'
    PROVE  Contract!Next \/ UNCHANGED Contract!vars
<1>1. TypeOK /\ TypeOK' /\ Alone
  BY NextFresh DEF IInv
<1>2. CASE UNCHANGED <<mem, rows, promised, touched>>
  BY <1>2 DEF Contract!vars
<1>3. ASSUME NEW r \in Request, Handle(r) PROVE Contract!WriteOrPersist
  <2>1. PICK k \in Key, v \in Payload :
            mem' = [mem EXCEPT ![k] = v] /\ touched' = touched \cup {k}
    BY <1>3 DEF Handle
  <2>2. UNCHANGED <<rows, promised>>
    BY <1>3 DEF Handle
  <2>3. \A j \in Key : mem'[j] # mem[j] => j = k
    BY <1>1, <2>1 DEF TypeOK
  <2> QED
    BY <1>1, <2>1, <2>2, <2>3, MayWrite
<1>4. ASSUME NEW r \in Request, Count(r) PROVE Contract!WriteOrPersist
  <2>1. PICK v \in Payload : mem' = [mem EXCEPT ![UsageKey] = v]
    BY <1>4 DEF Count
  <2>2. UNCHANGED <<rows, promised>> /\ touched' = touched \cup {UsageKey}
    BY <1>4 DEF Count
  <2>3. \A j \in Key : mem'[j] # mem[j] => j = UsageKey
    BY <1>1, <2>1 DEF TypeOK
  <2> QED
    BY <1>1, <2>2, <2>3, MayWrite
<1>5. ASSUME NEW r \in Request, CommitTransaction(r) PROVE Contract!WriteOrPersist
  <2>1. Ahead(r)
    BY <1>1, <1>5 DEF Alone, InStep, Open, CommitTransaction
  <2>2. UNCHANGED <<mem, promised, touched>>
    BY <1>5 DEF CommitTransaction, store, ghosts
  <2>3. \A k \in Key : rows'[k] # rows[k] => rows'[k] = mem[k]
    BY <1>5, <2>1 DEF CommitTransaction, Written, Ahead
  <2> QED
    BY <1>1, <2>2, <2>3, MayWrite
<1>6. ASSUME NEW r \in Request, Fail(r) PROVE Contract!WriteOrPersist
  <2>1. UNCHANGED <<rows, promised, touched>>
    BY <1>6 DEF Fail, ghosts
  <2>2. \A k \in Key : mem'[k] # mem[k] => k = UsageKey /\ cont[r] = "counted"
    BY <1>1, <1>6 DEF Fail, TypeOK
  <2>3. cont[r] = "counted" => UsageKey \in touched
    BY <1>1, <1>6 DEF Fail, Alone, InStep, InCommit
  <2> QED
    BY <1>1, <2>1, <2>2, <2>3, MayWrite
<1>7. ASSUME NEW r \in Request, Clear(r), cont[r] = "flushed"
      PROVE  Contract!Acknowledge
  <2>1. pc[r] = "clear" /\ pc[r] \in Guarded /\ ~Open(r)
    BY <1>7 DEF Clear, Guarded, Open
  <2>2. hashes = mem /\ hashes = rows
    BY <1>1, <1>7, <2>1, StoreStays DEF Alone, InStep
  <2> QED
    BY <1>7, <2>2 DEF Clear, Contract!Acknowledge
<1>8. ASSUME Crash PROVE Contract!Crash
  BY <1>1, <1>8, LoadsAllRows DEF Crash, Contract!Crash
<1>9. ASSUME NEW r \in Request,
             \/ Dispatch(r) \/ DispatchAllocation(r) \/ AllocationReturns(r) \/ TryUsage(r)
             \/ HandlerRaises(r) \/ Flush(r) \/ Scan(r) \/ DeleteRows(r)
             \/ Clear(r) /\ cont[r] # "flushed"
      PROVE  UNCHANGED <<mem, rows, promised, touched>>
  BY <1>9 DEF Dispatch, DispatchAllocation, AllocationReturns, TryUsage, HandlerRaises,
              Flush, Scan, DeleteRows, Clear, store, ghosts
<1>10. CASE UNCHANGED vars
  BY <1>10, <1>2 DEF vars, store, ghosts
<1> QED
  BY <1>2, <1>3, <1>4, <1>5, <1>6, <1>7, <1>8, <1>9, <1>10
  DEF Next, Step, AllAnswered, Contract!Next

(* The threads implement the contract of the store, AcknowledgedStore,     *)
(* whatever fails and whenever the process dies, as long as no allocation  *)
(* request is refused.                                                     *)
THEOREM ThreadsKeepContract == Spec => ContractUnlessRefused
<1>1. Init => Contract!Init
  BY DEF Init, Contract!Init
<1>2. IInv /\ IInv' /\ [Next]_vars => [Unrefused' => Contract!Next]_(Contract!vars)
  BY ContractStep
<1> QED
  BY Invariance, <1>1, <1>2, PTL DEF Spec, ContractUnlessRefused

LEMMA MeasureStep ==
    ASSUME TypeOK, [Next]_vars, NEW q \in Request, pc'[q] # pc[q]
    PROVE  Remaining(q)' < Remaining(q)
<1>1. ASSUME NEW r \in Request, Step(r) \/ Handle(r) \/ HandlerRaises(r)
      PROVE  q = r
  <2>1. \E label \in Label : Goto(r, label)
    BY <1>1 DEF Step, Dispatch, DispatchAllocation, AllocationReturns, TryUsage, Handle,
                HandlerRaises, Flush, Count, Scan, DeleteRows, CommitTransaction, Fail,
                Clear, Answer, Label
  <2> QED
    BY <2>1, GotoType
<1>2. CASE Crash
  <2>1. pc'[q] = "done" /\ pc[q] \in Label \ {"done"}
    BY <1>2 DEF Crash, TypeOK
  <2> QED
    BY <2>1 DEF Remaining, StepsLeft, InCommit, Label
<1>3. CASE Dispatch(q) \/ DispatchAllocation(q)
  <2>1. pc[q] = "new"
    BY <1>3 DEF Dispatch, DispatchAllocation
  <2>2. \/ pc'[q] \in {"handler", "allocation"}
        \/ pc'[q] = "scan" /\ cont'[q] = "refused"
    BY <1>3 DEF Dispatch, DispatchAllocation, Goto, TypeOK
  <2> QED
    BY <2>1, <2>2 DEF Remaining, StepsLeft, InCommit
<1>4. CASE AllocationReturns(q) \/ TryUsage(q)
  BY <1>4 DEF AllocationReturns, TryUsage, Goto, TypeOK, Remaining, StepsLeft, InCommit
<1>5. CASE Handle(q) \/ HandlerRaises(q)
  BY <1>5 DEF Handle, HandlerRaises, Answer, Goto, TypeOK, Remaining, StepsLeft, InCommit
<1>6. CASE Flush(q) \/ Count(q)
  <2>1. \/ pc[q] = "flush" /\ cont'[q] = "flushed"
        \/ pc[q] = "usage" /\ cont'[q] = "counted"
    BY <1>6 DEF Flush, Count, TypeOK
  <2>2. pc'[q] = "scan"
    BY <1>6 DEF Flush, Count, Goto, TypeOK
  <2> QED
    BY <2>1, <2>2 DEF Remaining, StepsLeft, InCommit
<1>7. CASE Scan(q) \/ DeleteRows(q) \/ CommitTransaction(q)
  <2>1. /\ cont' = cont
        /\ \/ pc[q] = "scan" /\ pc'[q] = "delete"
           \/ pc[q] = "delete" /\ pc'[q] = "txn"
           \/ pc[q] = "txn" /\ pc'[q] = "clear"
    BY <1>7 DEF Scan, DeleteRows, CommitTransaction, Goto, TypeOK
  <2> QED
    BY <2>1 DEF Remaining, StepsLeft, InCommit
<1>8. CASE Fail(q) \/ Clear(q)
  <2>1. /\ pc[q] \in {"scan", "delete", "txn", "clear"}
        /\ \/ pc'[q] = "done"
           \/ pc[q] = "clear" /\ cont[q] = "flushed" /\ pc'[q] = "usage"
    BY <1>8 DEF Fail, Clear, Answer, Goto, TypeOK
  <2> QED
    BY <2>1 DEF Remaining, StepsLeft, InCommit
<1>9. ~UNCHANGED vars
  BY DEF vars
<1> QED
  BY <1>1, <1>2, <1>3, <1>4, <1>5, <1>6, <1>7, <1>8, <1>9 DEF Next, Step, AllAnswered

(* No request takes a step that does not bring it nearer to its end.       *)
THEOREM RequestsEnd == Spec => RequestsAreShort
<1>1. TypeOK /\ [Next]_vars =>
         [\A r \in Request : pc'[r] # pc[r] => Remaining(r)' < Remaining(r)]_vars
  BY MeasureStep
<1> QED
  BY TypeCorrect, <1>1, PTL DEF Spec, RequestsAreShort
=============================================================================
