----------------------------- MODULE PaperLedger -----------------------------
(***************************************************************************)
(* The paper ledger, JsonlPaperSnapshotRepository of                       *)
(* app/dynamic_allocation/paper/repository.py: a JSONL file that several   *)
(* processes append decisions to (daily run, paper run) and replay         *)
(* (operations and performance reports).  flock keeps them apart; the file *)
(* is validated as a whole before every use; a process may be killed, the  *)
(* disk may be full, the power may go.                                     *)
(*                                                                         *)
(* The file is a sequence of pieces: whole records, the newlines after     *)
(* them and torn records.  SHA-256 is collision free, so a hash stands for *)
(* what it was computed from: the hash of a record is the sequence of the  *)
(* snapshots up to it.  The run id of a snapshot is computed from all of   *)
(* its content (paper/snapshot.py), so snapshots with equal run ids are    *)
(* equal and the "immutable paper snapshot conflict" cannot occur; content *)
(* and record hashes of a whole record are what was written, so only the   *)
(* link to the previous record is worth checking.                          *)
(***************************************************************************)
EXTENDS Naturals, Sequences

CONSTANTS
    Process,        \* processes using the ledger
    Snapshot,       \* decisions (PaperDecisionSnapshot)
    Newline,        \* the end of a line
    Torn,           \* a record some bytes of which are missing
    None            \* nobody holds the lock; nothing to append

ASSUME PiecesAssumption ==
    /\ Newline # Torn
    /\ None \notin Process \cup Snapshot

VARIABLES
    file,           \* the ledger as processes read it
    disk,           \* the part of it that fsync has made durable
    lock,           \* holder of LOCK_EX, or None
    pc,             \* where each process is
    snapshot,       \* the snapshot it appends
    (***********************************************************************)
    (* History: the appends that were answered with appended = True.       *)
    (***********************************************************************)
    promised

vars == <<file, disk, lock, pc, snapshot, promised>>

GENESIS_HASH == << >>

Record == [previous : Seq(Snapshot), snapshot : Snapshot]

Piece == Record \cup {Newline, Torn}

ASSUME RecordAssumption == Newline \notin Record /\ Torn \notin Record

TypeOK ==
    /\ file \in Seq(Piece)
    /\ disk \in Seq(Piece)
    /\ lock \in Process \cup {None}
    /\ pc \in [Process -> {"idle", "locked", "write", "sync"}]
    /\ snapshot \in [Process -> Snapshot \cup {None}]
    /\ promised \subseteq Snapshot

RecordHash(r) == Append(r.previous, r.snapshot)

(* In a readable file the records are the pieces in odd places. *)
Places(f) == {i \in 1 .. Len(f) : i % 2 = 1}

(* expected_previous, for the record in place i. *)
ExpectedPrevious(f, i) == IF i = 1 THEN GENESIS_HASH ELSE RecordHash(f[i - 2])

(* Every line is one whole record; the last one may lack its newline. *)
Lines(f) ==
    \A i \in 1 .. Len(f) : IF i \in Places(f) THEN f[i] \notin {Newline, Torn}
                                               ELSE f[i] = Newline

(* _read_and_validate does not raise: lines parse, no run id comes twice,  *)
(* the hashes are chained.  (Blank lines are skipped; nothing writes one.) *)
Valid(f) ==
    /\ Lines(f)
    /\ \A i \in Places(f) : f[i].previous = ExpectedPrevious(f, i)
    /\ \A i, j \in Places(f) : f[i].snapshot = f[j].snapshot => i = j

(* replay: the snapshots of a valid file. *)
Replayed(f) == {f[i].snapshot : i \in Places(f)}

(* The pieces that are records. *)
Records(f) == {i \in 1 .. Len(f) : f[i] \notin {Newline, Torn}}

Latest(f) == CHOOSE i \in Records(f) : \A j \in Records(f) : j <= i

(* Seeded fault: the records follow the first one. *)
FaultLastHash(f) ==
    IF Records(f) = {} THEN GENESIS_HASH
    ELSE RecordHash(f[CHOOSE i \in Records(f) : \A j \in Records(f) : i <= j])

(* previous_hash of the record to append: the hash of the last record. *)
LastHash(f) ==
    IF Records(f) = {} THEN GENESIS_HASH ELSE RecordHash(f[Latest(f)])

Init ==
    /\ file = << >>
    /\ disk = << >>
    /\ lock = None
    /\ pc = [p \in Process |-> "idle"]
    /\ snapshot = [p \in Process |-> None]
    /\ promised = {}

-----------------------------------------------------------------------------
(* append *)

(* Seeded fault: the file is not locked. *)
FaultLock(p) ==
    /\ pc[p] = "idle"
    /\ pc' = [pc EXCEPT ![p] = "locked"]
    /\ \E s \in Snapshot : snapshot' = [snapshot EXCEPT ![p] = s]
    /\ lock' = p
    /\ UNCHANGED <<file, disk, promised>>

(* The file is opened and locked exclusively.  Readers hold LOCK_SH while  *)
(* they replay; what they read is the file of one moment without a writer. *)
Lock(p) ==
    /\ pc[p] = "idle"
    /\ lock = None
    /\ lock' = p
    /\ pc' = [pc EXCEPT ![p] = "locked"]
    /\ \E s \in Snapshot : snapshot' = [snapshot EXCEPT ![p] = s]
    /\ UNCHANGED <<file, disk, promised>>

(* The process is through with the ledger: the file is closed. *)
Release(p) ==
    /\ lock' = None
    /\ pc' = [pc EXCEPT ![p] = "idle"]
    /\ snapshot' = [snapshot EXCEPT ![p] = None]

(* Seeded fault: the run ids are not compared. *)
FaultDecideRepeats(p) ==
    /\ pc[p] = "locked"
    /\ IF Valid(file)
       THEN pc' = [pc EXCEPT ![p] = "write"] /\ UNCHANGED <<lock, snapshot>>
       ELSE Release(p)
    /\ UNCHANGED <<file, disk, promised>>

(* The file is validated: it raises if it is not valid, and a snapshot     *)
(* that is already there is a no-op (appended = False).                    *)
Decide(p) ==
    /\ pc[p] = "locked"
    /\ IF Valid(file) /\ snapshot[p] \notin Replayed(file)
       THEN pc' = [pc EXCEPT ![p] = "write"] /\ UNCHANGED <<lock, snapshot>>
       ELSE Release(p)
    /\ UNCHANGED <<file, disk, promised>>

(* The record that is appended. *)
NewRecord(p) == [previous |-> LastHash(file), snapshot |-> snapshot[p]]

(* write and flush: the record and its newline are in the file, though not *)
(* yet on the disk.                                                        *)
Write(p) ==
    /\ pc[p] = "write"
    /\ file' = file \o <<NewRecord(p), Newline>>
    /\ pc' = [pc EXCEPT ![p] = "sync"]
    /\ UNCHANGED <<disk, lock, snapshot, promised>>

(* The disk is full, or the process is killed while it writes: a part of   *)
(* the line stays in the file and the lock is released.                    *)
WriteInterrupted(p) ==
    /\ pc[p] = "write"
    /\ \E part \in {<<Torn>>, <<NewRecord(p)>>} : file' = file \o part
    /\ Release(p)
    /\ UNCHANGED <<disk, promised>>

(* Seeded fault: the answer does not wait for fsync. *)
FaultSync(p) ==
    /\ pc[p] = "sync"
    /\ promised' = promised \cup {snapshot[p]}
    /\ Release(p)
    /\ UNCHANGED <<file, disk>>

(* fsync, and the answer appended = True. *)
Sync(p) ==
    /\ pc[p] = "sync"
    /\ disk' = file
    /\ promised' = promised \cup {snapshot[p]}
    /\ Release(p)
    /\ UNCHANGED file

(* The process is killed between two steps, or fsync raises. *)
Kill(p) ==
    /\ pc[p] # "idle"
    /\ Release(p)
    /\ UNCHANGED <<file, disk, promised>>

(* The power goes: of what was not synced a first part survives, and one   *)
(* record of it may be torn.  All processes are gone.                      *)
PowerLoss ==
    /\ \E n \in Len(disk) .. Len(file) :
          LET kept == SubSeq(file, 1, n)
          IN \E f \in {kept} \cup (IF n < Len(file) THEN {Append(kept, Torn)} ELSE {}) :
                /\ file' = f
                /\ disk' = f
    /\ lock' = None
    /\ pc' = [p \in Process |-> "idle"]
    /\ snapshot' = [p \in Process |-> None]
    /\ UNCHANGED promised

Next ==
    \/ \E p \in Process :
          \/ Lock(p)
          \/ Decide(p)
          \/ Write(p)
          \/ WriteInterrupted(p)
          \/ Sync(p)
          \/ Kill(p)
    \/ PowerLoss

Spec == Init /\ [][Next]_vars

-----------------------------------------------------------------------------
(***************************************************************************)
(* Properties                                                              *)
(***************************************************************************)

(* No silent loss: a replay that does not raise returns every snapshot     *)
(* whose append was answered with appended = True, whatever was killed,    *)
(* torn or lost since.                                                     *)
PromisedReplayed == Valid(file) => promised \subseteq Replayed(file)

(* What was answered stays on the disk, in its line of the file: an append *)
(* never rewrites, and no crash takes it away.                             *)
PromisedOnDisk ==
    \A s \in promised :
        \E i \in 1 .. Len(disk) : disk[i] \notin {Newline, Torn} /\ disk[i].snapshot = s

(* Processes that append the same and different snapshots, are killed and  *)
(* retried never break the chain or store a run twice: as long as every    *)
(* line is whole the ledger is valid.                                      *)
WholeLinesAreValid == Lines(file) => Valid(file)

(* A ledger that does not validate is left as it is: nobody appends to it, *)
(* so it can still be repaired.                                            *)
InvalidIsLeftAlone == [][~Valid(file) => file' = file \/ PowerLoss]_vars

(* The hash of a record commits to the decisions up to it, each and no     *)
(* other, also in a file that does not validate any more: what was         *)
(* replaced, dropped or repeated before it would show.                     *)
HashesTellHistory ==
    \A i \in Records(file) :
        LET hash == RecordHash(file[i])
        IN {hash[n] : n \in 1 .. Len(hash)} = {file[j].snapshot : j \in Records(file) \cap 1 .. i}

(* All of it: a file of lines, appended to by processes that are killed    *)
(* and lose power, is the log of DecisionLog; the last hash tells which.   *)
Log == INSTANCE DecisionLog
           WITH log <- LastHash(file), stable <- LastHash(disk), readable <- Valid(file)

LogSpec == Log!Spec

(* "duplicate identical run ids are explicit no-ops" (paper/repository.py, *)
(* JsonlPaperSnapshotRepository): the retry of an append that was answered *)
(* does not raise.                                                         *)
RetryIsNoOp ==
    \A p \in Process : pc[p] = "locked" /\ snapshot[p] \in promised => Valid(file)
=============================================================================
