-------------------------- MODULE PaperLedgerProofs --------------------------
(***************************************************************************)
(* Proofs about PaperLedger, for any number of processes and snapshots.    *)
(*                                                                         *)
(* The argument: whoever is not idle holds the lock, so the file a process *)
(* validated is the file it writes to, and the line it wrote is there when *)
(* it syncs; what is on the disk is a first part of the file.  For the     *)
(* chain the invariant has to speak of every first part of the file that   *)
(* consists of whole lines, because that is what a power loss may leave.   *)
(***************************************************************************)
EXTENDS DailyAllocation, SequenceTheorems, TLAPS

(* A lock holder's view of the world. *)
Exclusive ==
    \A p \in Process : pc[p] # "idle" => lock = p /\ snapshot[p] \in Snapshot

Validated ==
    \A p \in Process : pc[p] = "write" => Valid(file) /\ snapshot[p] \notin Replayed(file)

(* Snapshot s is in a record of f. *)
Stored(s, f) == \E i \in 1 .. Len(f) : f[i] \notin {Newline, Torn} /\ f[i].snapshot = s

Written == \A p \in Process : pc[p] = "sync" => Stored(snapshot[p], file)

(* f is a first part of g. *)
Begins(f, g) == Len(f) <= Len(g) /\ \A i \in 1 .. Len(f) : f[i] = g[i]

(* The first i pieces of f are whole lines. *)
WholeUpTo(f, i) ==
    \A j \in 1 .. i : IF j % 2 = 1 THEN f[j] \notin {Newline, Torn} ELSE f[j] = Newline

Chained(f) ==
    \A i \in 1 .. Len(f) :
        i % 2 = 1 /\ WholeUpTo(f, i) =>
            /\ f[i].previous = ExpectedPrevious(f, i)
            /\ \A j \in 1 .. i - 1 : j % 2 = 1 => f[j].snapshot # f[i].snapshot

IInv ==
    /\ TypeOK
    /\ Exclusive
    /\ Validated
    /\ Written
    /\ Begins(disk, file)
    /\ PromisedOnDisk
    /\ Chained(file)

-----------------------------------------------------------------------------
LEMMA Parity ==
    ASSUME NEW n \in Nat
    PROVE  /\ n % 2 \in {0, 1}
           /\ (n + 1) % 2 = 1 <=> n % 2 = 0
           /\ (n + 2) % 2 = n % 2
BY SMT

(* The records of a file and their hashes. *)
LEMMA RecordsType ==
    ASSUME NEW f \in Seq(Piece), NEW i \in Records(f)
    PROVE  /\ i \in Nat /\ i \in 1 .. Len(f) /\ f[i] \in Record
           /\ RecordHash(f[i]) \in Seq(Snapshot)
<1>1. i \in Nat /\ i \in 1 .. Len(f) /\ f[i] \in Record
  BY DEF Records, Piece
<1> QED BY <1>1 DEF Record, RecordHash

LEMMA LatestIs ==
    ASSUME NEW f \in Seq(Piece), NEW k \in Records(f), \A j \in Records(f) : j <= k
    PROVE  Latest(f) = k /\ LastHash(f) = RecordHash(f[k])
<1>1. \A i \in Records(f) : i \in Nat
  BY RecordsType
<1>2. \A i \in Records(f) : (\A j \in Records(f) : j <= i) => i = k
  BY <1>1
<1>3. Latest(f) = k
  BY <1>2 DEF Latest
<1> QED BY <1>3 DEF LastHash

(* In a valid file the records are in the odd places. *)
LEMMA ValidLatest ==
    ASSUME NEW f \in Seq(Piece), Valid(f), Len(f) # 0
    PROVE  /\ Records(f) = Places(f)
           /\ LastHash(f) = RecordHash(f[IF Len(f) % 2 = 1 THEN Len(f) ELSE Len(f) - 1])
           /\ (IF Len(f) % 2 = 1 THEN Len(f) ELSE Len(f) - 1) \in Records(f)
<1> DEFINE k == IF Len(f) % 2 = 1 THEN Len(f) ELSE Len(f) - 1
<1>0. Len(f) \in Nat /\ Len(f) >= 1
  OBVIOUS
<1>1. Records(f) = Places(f)
  BY PiecesAssumption DEF Valid, Lines, Records, Places
<1>2. k \in 1 .. Len(f) /\ k % 2 = 1
  <2>1. CASE Len(f) % 2 = 1
    BY <1>0, <2>1
  <2>2. CASE Len(f) % 2 # 1
    <3>1. Len(f) % 2 = 0 /\ Len(f) # 1
      <4>1. 1 % 2 = 1
        BY SMT
      <4> QED BY <1>0, <2>2, <4>1, Parity
    <3>2. Len(f) - 1 \in Nat /\ Len(f) - 1 >= 1
      BY <1>0, <3>1
    <3>3. (Len(f) - 1) % 2 = 1
      BY <1>0, <3>1, SMT
    <3> QED BY <2>2, <3>2, <3>3
  <2> QED BY <2>1, <2>2
<1>3. k \in Records(f)
  BY <1>1, <1>2 DEF Places
<1>4. \A j \in Records(f) : j <= k
  <2> SUFFICES ASSUME NEW j \in Places(f) PROVE j <= k
    BY <1>1
  <2>1. j \in Nat /\ j <= Len(f) /\ j % 2 = 1
    BY DEF Places
  <2> QED BY <1>0, <2>1
<1> QED BY <1>1, <1>3, <1>4, LatestIs

(* What validates is chained. *)
LEMMA WholeAndChainedIsValid ==
    ASSUME NEW f \in Seq(Piece), Lines(f), Chained(f)
    PROVE  Valid(f)
<1>1. ASSUME NEW i \in Places(f) PROVE WholeUpTo(f, i)
  BY <1>1 DEF Lines, Places, WholeUpTo
<1>2. \A i \in Places(f) : /\ f[i].previous = ExpectedPrevious(f, i)
                           /\ \A j \in 1 .. i - 1 : j % 2 = 1 => f[j].snapshot # f[i].snapshot
  BY <1>1 DEF Chained, Places
<1>3. ASSUME NEW i \in Places(f), NEW j \in Places(f), f[i].snapshot = f[j].snapshot
      PROVE  i = j
  <2>1. i \in Nat /\ j \in Nat /\ i >= 1 /\ j >= 1 /\ i % 2 = 1 /\ j % 2 = 1
    BY DEF Places
  <2>2. ~(i < j)
    BY <1>2, <1>3, <2>1
  <2>3. ~(j < i)
    BY <1>2, <1>3, <2>1
  <2> QED BY <2>1, <2>2, <2>3
<1> QED BY <1>2, <1>3 DEF Valid

(* A first part of a chained file is chained, and a torn record does not   *)
(* change that.                                                            *)
LEMMA ChainedPart ==
    ASSUME NEW f \in Seq(Piece), NEW g \in Seq(Piece), Chained(g), Len(f) <= Len(g) + 1,
           \A i \in 1 .. Len(f) : f[i] = Torn \/ (i <= Len(g) /\ f[i] = g[i])
    PROVE  Chained(f)
<1> SUFFICES ASSUME NEW i \in 1 .. Len(f), i % 2 = 1, WholeUpTo(f, i)
             PROVE  /\ f[i].previous = ExpectedPrevious(f, i)
                    /\ \A j \in 1 .. i - 1 : j % 2 = 1 => f[j].snapshot # f[i].snapshot
  BY DEF Chained
<1>1. \A j \in 1 .. i : f[j] # Torn
  BY PiecesAssumption DEF WholeUpTo
<1>2. \A j \in 1 .. i : j <= Len(g) /\ f[j] = g[j]
  BY <1>1
<1>3. i \in 1 .. Len(g) /\ WholeUpTo(g, i)
  BY <1>2 DEF WholeUpTo
<1>4. /\ g[i].previous = ExpectedPrevious(g, i)
      /\ \A j \in 1 .. i - 1 : j % 2 = 1 => g[j].snapshot # g[i].snapshot
  BY <1>3 DEF Chained
<1>5. i # 1 => i - 2 \in 1 .. i
  BY SMT
<1>6. ExpectedPrevious(g, i) = ExpectedPrevious(f, i)
  BY <1>2, <1>5 DEF ExpectedPrevious
<1> QED BY <1>2, <1>4, <1>6

(* A record appended to a valid file, and its newline or not, keep it      *)
(* chained.                                                                *)
LEMMA ChainedAppend ==
    ASSUME NEW f \in Seq(Piece), NEW g \in Seq(Piece), NEW s \in Snapshot,
           Valid(f), Chained(f), s \notin Replayed(f),
           Len(f) < Len(g), Len(g) <= Len(f) + 2,
           \A i \in 1 .. Len(f) : g[i] = f[i],
           g[Len(f) + 1] = [previous |-> LastHash(f), snapshot |-> s],
           Len(g) = Len(f) + 2 => g[Len(f) + 2] = Newline
    PROVE  Chained(g)
<1> SUFFICES ASSUME NEW i \in 1 .. Len(g), i % 2 = 1, WholeUpTo(g, i)
             PROVE  /\ g[i].previous = ExpectedPrevious(g, i)
                    /\ \A j \in 1 .. i - 1 : j % 2 = 1 => g[j].snapshot # g[i].snapshot
  BY DEF Chained
<1> DEFINE n == Len(f)
<1>0. n \in Nat /\ i \in Nat
  OBVIOUS
<1>1. CASE i <= n
  <2>1. i \in 1 .. Len(f) /\ WholeUpTo(f, i)
    BY <1>1 DEF WholeUpTo
  <2>2. /\ f[i].previous = ExpectedPrevious(f, i)
        /\ \A j \in 1 .. i - 1 : j % 2 = 1 => f[j].snapshot # f[i].snapshot
    BY <2>1 DEF Chained
  <2>3. \A j \in 1 .. i : g[j] = f[j]
    BY <1>0, <1>1
  <2>4. i # 1 => i - 2 \in 1 .. i
    BY <1>0, SMT
  <2>5. ExpectedPrevious(g, i) = ExpectedPrevious(f, i)
    BY <2>3, <2>4 DEF ExpectedPrevious
  <2>6. i \in 1 .. i /\ \A j \in 1 .. i - 1 : j \in 1 .. i
    BY <1>0
  <2> QED BY <2>2, <2>3, <2>5, <2>6
<1>2. CASE i = n + 1
  <2>1. g[i].previous = LastHash(f) /\ g[i].snapshot = s
    BY <1>2
  <2>2. n % 2 = 0
    BY <1>0, <1>2, Parity
  <2>3. LastHash(f) = ExpectedPrevious(g, i)
    <3>1. CASE n = 0
      BY <1>2, <3>1 DEF LastHash, Records, ExpectedPrevious
    <3>2. CASE n # 0
      <4>1. n - 1 \in 1 .. n /\ i - 2 = n - 1
        BY <1>0, <1>2, <3>2
      <4>2. LastHash(f) = RecordHash(f[n - 1])
        BY <2>2, <3>2, ValidLatest
      <4> QED BY <1>2, <3>2, <4>1, <4>2 DEF ExpectedPrevious
    <3> QED BY <3>1, <3>2
  <2>4. \A j \in 1 .. i - 1 : j % 2 = 1 => g[j].snapshot # s
    BY <1>2 DEF Replayed, Places
  <2> QED BY <2>1, <2>3, <2>4
<1>3. CASE i = n + 2
  BY <1>3 DEF WholeUpTo
<1> QED BY <1>0, <1>1, <1>2, <1>3

-----------------------------------------------------------------------------
LEMMA StoredGrows ==
    ASSUME NEW s, NEW f, NEW g, Len(f) \in Nat, Len(g) \in Nat, Begins(f, g), Stored(s, f)
    PROVE  Stored(s, g)
BY DEF Stored, Begins

(* What a part appended to the file leaves of the invariant. *)
LEMMA Appended ==
    ASSUME TypeOK, Begins(disk, file), NEW part \in Seq(Piece), file' = file \o part
    PROVE  /\ file' \in Seq(Piece)
           /\ Len(file') = Len(file) + Len(part)
           /\ \A i \in 1 .. Len(file) : file'[i] = file[i]
           /\ \A i \in 1 .. Len(part) : file'[Len(file) + i] = part[i]
           /\ Begins(disk, file')
           /\ Begins(file, file')
<1>1. /\ file \o part \in Seq(Piece)
      /\ Len(file \o part) = Len(file) + Len(part)
      /\ \A i \in 1 .. Len(file) + Len(part) :
            (file \o part)[i] = IF i <= Len(file) THEN file[i] ELSE part[i - Len(file)]
  BY ConcatProperties DEF TypeOK
<1>2. Len(file) \in Nat /\ Len(part) \in Nat /\ Len(disk) \in Nat
  BY DEF TypeOK
<1> QED BY <1>1, <1>2 DEF Begins

LEMMA LastHashType ==
    ASSUME NEW f \in Seq(Piece), Valid(f)
    PROVE  LastHash(f) \in Seq(Snapshot)
<1>1. CASE Len(f) = 0
  BY <1>1 DEF LastHash, Records, GENESIS_HASH
<1>2. CASE Len(f) # 0
  BY <1>2, ValidLatest, RecordsType
<1> QED BY <1>1, <1>2

LEMMA InitIInv == Init => IInv
<1> SUFFICES ASSUME Init PROVE IInv
  OBVIOUS
<1>1. TypeOK
  BY DEF Init, TypeOK
<1>2. Exclusive /\ Validated /\ Written
  BY DEF Init, Exclusive, Validated, Written
<1>3. Begins(disk, file) /\ PromisedOnDisk /\ Chained(file)
  BY DEF Init, Begins, PromisedOnDisk, Chained
<1> QED BY <1>1, <1>2, <1>3 DEF IInv

(* A process that is through holds nothing any more. *)
LEMMA Released ==
    ASSUME TypeOK, Exclusive, NEW p \in Process, pc[p] # "idle", Release(p)
    PROVE  /\ lock' \in Process \cup {None}
           /\ pc' \in [Process -> {"idle", "locked", "write", "sync"}]
           /\ snapshot' \in [Process -> Snapshot \cup {None}]
           /\ \A q \in Process : pc'[q] = "idle"
<1>1. \A q \in Process : q # p => pc[q] = "idle"
  BY PiecesAssumption DEF Exclusive
<1> QED BY <1>1 DEF TypeOK, Release

(* The file after a line was written. *)
LEMMA WriteFile ==
    ASSUME IInv, NEW p \in Process, Write(p)
    PROVE  /\ lock = p /\ snapshot[p] \in Snapshot
           /\ Valid(file) /\ snapshot[p] \notin Replayed(file)
           /\ NewRecord(p) \in Record
           /\ file' \in Seq(Piece)
           /\ Len(file') = Len(file) + 2
           /\ \A i \in 1 .. Len(file) : file'[i] = file[i]
           /\ file'[Len(file) + 1] = NewRecord(p)
           /\ file'[Len(file) + 2] = Newline
           /\ Begins(disk, file')
           /\ Begins(file, file')
<1> USE DEF IInv
<1> DEFINE part == <<NewRecord(p), Newline>>
<1>1. /\ lock = p /\ snapshot[p] \in Snapshot
      /\ Valid(file) /\ snapshot[p] \notin Replayed(file)
  BY DEF Write, Exclusive, Validated
<1>2. NewRecord(p) \in Record
  BY <1>1, LastHashType DEF NewRecord, Record, TypeOK
<1>3. part \in Seq(Piece) /\ Len(part) = 2 /\ part[1] = NewRecord(p) /\ part[2] = Newline
  BY <1>2 DEF Piece
<1>4. file' = file \o part
  BY DEF Write
<1>5. 1 \in 1 .. Len(part) /\ 2 \in 1 .. Len(part)
  BY <1>3
<1> HIDE DEF part
<1> QED BY <1>1, <1>2, <1>3, <1>4, <1>5, Appended

(* The file after an interrupted write: a torn record or a whole one that  *)
(* lacks its newline.                                                      *)
LEMMA InterruptedFile ==
    ASSUME IInv, NEW p \in Process, WriteInterrupted(p)
    PROVE  /\ Release(p) /\ pc[p] # "idle" /\ UNCHANGED <<disk, promised>>
           /\ snapshot[p] \in Snapshot
           /\ Valid(file) /\ snapshot[p] \notin Replayed(file)
           /\ NewRecord(p) \in Record
           /\ file' \in Seq(Piece)
           /\ Len(file') = Len(file) + 1
           /\ \A i \in 1 .. Len(file) : file'[i] = file[i]
           /\ file'[Len(file) + 1] \in {Torn, NewRecord(p)}
           /\ Begins(disk, file')
<1> USE DEF IInv
<1>1. /\ Release(p) /\ pc[p] # "idle" /\ UNCHANGED <<disk, promised>>
      /\ snapshot[p] \in Snapshot
      /\ Valid(file) /\ snapshot[p] \notin Replayed(file)
  BY DEF WriteInterrupted, Exclusive, Validated
<1>2. NewRecord(p) \in Record
  BY <1>1, LastHashType DEF NewRecord, Record, TypeOK
<1>3. PICK piece \in {Torn, NewRecord(p)} : file' = file \o <<piece>>
  BY DEF WriteInterrupted
<1> DEFINE part == <<piece>>
<1>4. part \in Seq(Piece) /\ Len(part) = 1 /\ part[1] = piece /\ file' = file \o part
  BY <1>2, <1>3 DEF Piece
<1>5. 1 \in 1 .. Len(part)
  BY <1>4
<1> HIDE DEF part
<1> QED BY <1>1, <1>2, <1>3, <1>4, <1>5, Appended

(* The file after a power loss. *)
LEMMA PowerLossFile ==
    ASSUME IInv, PowerLoss
    PROVE  \E n \in Nat :
              /\ Len(disk) <= n /\ n <= Len(file)
              /\ disk' = file' /\ file' \in Seq(Piece)
              /\ Len(file') \in {n, n + 1}
              /\ \A i \in 1 .. n : file'[i] = file[i]
              /\ Len(file') = n + 1 => n < Len(file) /\ file'[n + 1] = Torn
<1>0. file \in Seq(Piece) /\ disk \in Seq(Piece) /\ Len(file) \in Nat /\ Len(disk) \in Nat
  BY DEF IInv, TypeOK
<1>1. PICK n \in Len(disk) .. Len(file) :
          LET kept == SubSeq(file, 1, n)
          IN \E f \in {kept} \cup (IF n < Len(file) THEN {Append(kept, Torn)} ELSE {}) :
                file' = f /\ disk' = f
  BY DEF PowerLoss
<1> DEFINE kept == SubSeq(file, 1, n)
<1>2. n \in Nat /\ Len(disk) <= n /\ n <= Len(file)
  BY <1>0
<1>3. kept \in Seq(Piece) /\ Len(kept) = n /\ \A i \in 1 .. n : kept[i] = file[i]
  BY <1>0, <1>2, SubSeqProperties
<1>4. Torn \in Piece
  BY DEF Piece
<1>5. /\ file' = disk'
      /\ \/ file' = kept
         \/ n < Len(file) /\ file' = Append(kept, Torn)
  BY <1>1
<1> HIDE DEF kept
<1>6. CASE file' = kept
  BY <1>2, <1>3, <1>5, <1>6
<1>7. CASE n < Len(file) /\ file' = Append(kept, Torn)
  <2>1. /\ file' \in Seq(Piece) /\ Len(file') = n + 1 /\ file'[n + 1] = Torn
        /\ \A i \in 1 .. n : file'[i] = kept[i]
    BY <1>3, <1>4, <1>7, AppendProperties
  <2> QED BY <1>2, <1>3, <1>5, <1>7, <2>1
<1> QED BY <1>5, <1>6, <1>7

LEMMA NextIInv == IInv /\ [Next]_vars => IInv'
<1> SUFFICES ASSUME IInv, [Next]_vars PROVE IInv'
  OBVIOUS
<1> USE DEF IInv
<1>0. file \in Seq(Piece) /\ disk \in Seq(Piece) /\ Len(file) \in Nat /\ Len(disk) \in Nat
  BY DEF TypeOK
<1>1. ASSUME NEW p \in Process, Lock(p) PROVE IInv'
  <2>1. TypeOK'
    BY <1>1 DEF Lock, TypeOK
  <2>2. \A q \in Process : pc[q] = "idle"
    BY <1>1, PiecesAssumption DEF Lock, Exclusive
  <2>3. Exclusive' /\ Validated' /\ Written'
    BY <1>1, <2>2 DEF Lock, Exclusive, Validated, Written, TypeOK
  <2>4. Begins(disk, file)' /\ PromisedOnDisk' /\ Chained(file)'
    BY <1>1 DEF Lock, Begins, PromisedOnDisk, Chained, ExpectedPrevious, WholeUpTo
  <2> QED BY <2>1, <2>3, <2>4
<1>2. ASSUME NEW p \in Process, Decide(p) PROVE IInv'
  <2>1. UNCHANGED <<file, disk, promised>>
    BY <1>2 DEF Decide
  <2>2. Begins(disk, file)' /\ PromisedOnDisk' /\ Chained(file)'
    BY <2>1 DEF Begins, PromisedOnDisk, Chained, ExpectedPrevious, WholeUpTo
  <2>3. CASE Valid(file) /\ snapshot[p] \notin Replayed(file)
    <3>1. pc' = [pc EXCEPT ![p] = "write"] /\ UNCHANGED <<lock, snapshot>> /\ pc[p] = "locked"
      BY <1>2, <2>3 DEF Decide
    <3>2. TypeOK'
      BY <2>1, <3>1 DEF TypeOK
    <3>3. \A q \in Process : q # p => pc[q] = "idle" /\ pc'[q] = "idle"
      BY <3>1, PiecesAssumption DEF Exclusive, TypeOK
    <3>4. Exclusive' /\ Validated' /\ Written'
      <4>1. pc'[p] = "write" /\ lock' = p /\ snapshot'[p] \in Snapshot
        BY <3>1 DEF TypeOK, Exclusive
      <4>2. Valid(file)' /\ snapshot'[p] \notin Replayed(file)'
        BY <2>1, <2>3, <3>1
      <4> QED BY <3>3, <4>1, <4>2 DEF Exclusive, Validated, Written
    <3> QED BY <2>2, <3>2, <3>4
  <2>4. CASE ~(Valid(file) /\ snapshot[p] \notin Replayed(file))
    <3>1. Release(p) /\ pc[p] # "idle"
      BY <1>2, <2>4 DEF Decide
    <3> QED BY <2>1, <2>2, <3>1, Released DEF TypeOK, Exclusive, Validated, Written
  <2> QED BY <2>3, <2>4
<1>3. ASSUME NEW p \in Process, Write(p) PROVE IInv'
  <2>1. /\ lock = p /\ snapshot[p] \in Snapshot
        /\ Valid(file) /\ snapshot[p] \notin Replayed(file)
    BY <1>3, WriteFile
  <2>2. NewRecord(p) \in Record
    BY <1>3, WriteFile
  <2>4. /\ file' \in Seq(Piece)
        /\ Len(file') = Len(file) + 2
        /\ \A i \in 1 .. Len(file) : file'[i] = file[i]
        /\ file'[Len(file) + 1] = NewRecord(p)
        /\ file'[Len(file) + 2] = Newline
        /\ Begins(disk, file')
        /\ Begins(file, file')
    BY <1>3, WriteFile
  <2>5. TypeOK'
    BY <1>3, <2>4 DEF Write, TypeOK
  <2>6. \A q \in Process : q # p => pc[q] = "idle"
    BY <2>1, PiecesAssumption DEF Exclusive
  <2>7. Stored(snapshot[p], file')
    <3>1. Len(file) + 1 \in 1 .. Len(file')
      BY <1>0, <2>4
    <3>2. NewRecord(p) \notin {Newline, Torn} /\ NewRecord(p).snapshot = snapshot[p]
      BY <2>2, RecordAssumption DEF NewRecord
    <3> QED BY <2>4, <3>1, <3>2 DEF Stored
  <2>8. Exclusive' /\ Validated' /\ Written'
    BY <1>3, <2>1, <2>6, <2>7 DEF Write, Exclusive, Validated, Written, TypeOK
  <2>9. PromisedOnDisk'
    BY <1>3 DEF Write, PromisedOnDisk
  <2>10. Chained(file)'
    <3>1. /\ Chained(file)
          /\ file'[Len(file) + 1] = [previous |-> LastHash(file), snapshot |-> snapshot[p]]
          /\ Len(file) < Len(file') /\ Len(file') <= Len(file) + 2
      BY <1>0, <2>4 DEF NewRecord
    <3> HIDE DEF IInv
    <3>2. Chained(file')
      BY <1>0, <2>1, <2>4, <3>1, ChainedAppend
    <3> QED BY <3>2 DEF Chained, ExpectedPrevious, WholeUpTo
  <2>11. Begins(disk, file)'
    BY <1>3, <2>4 DEF Write, Begins
  <2> QED BY <2>5, <2>8, <2>9, <2>10, <2>11
<1>4. ASSUME NEW p \in Process, WriteInterrupted(p) PROVE IInv'
  <2>1. /\ Release(p) /\ pc[p] # "idle" /\ UNCHANGED <<disk, promised>>
        /\ snapshot[p] \in Snapshot
        /\ Valid(file) /\ snapshot[p] \notin Replayed(file)
    BY <1>4, InterruptedFile
  <2>2. PICK piece \in {Torn, NewRecord(p)} : file'[Len(file) + 1] = piece
    BY <1>4, InterruptedFile
  <2>5. /\ file' \in Seq(Piece)
        /\ Len(file') = Len(file) + 1
        /\ \A i \in 1 .. Len(file) : file'[i] = file[i]
        /\ file'[Len(file) + 1] = piece
        /\ Begins(disk, file')
    BY <1>4, <2>2, InterruptedFile
  <2>6. TypeOK' /\ Exclusive' /\ Validated' /\ Written'
    BY <2>1, <2>5, Released DEF TypeOK, Exclusive, Validated, Written
  <2>7. PromisedOnDisk'
    BY <2>1 DEF PromisedOnDisk
  <2>8. Chained(file')
    <3>1. CASE piece = NewRecord(p)
      BY <1>0, <2>1, <2>5, <3>1, ChainedAppend DEF NewRecord
    <3>2. CASE piece = Torn
      <4>1. ASSUME NEW i \in 1 .. Len(file')
            PROVE  file'[i] = Torn \/ (i <= Len(file) /\ file'[i] = file[i])
        <5>1. Len(file) \in Nat
          BY <1>0 DEF TypeOK
        <5>2. i \in 1 .. Len(file) \/ i = Len(file) + 1
          BY <2>5, <5>1
        <5>3. CASE i \in 1 .. Len(file)
          BY <2>5, <5>1, <5>3
        <5>4. CASE i = Len(file) + 1
          <6>1. file'[Len(file) + 1] = Torn
            BY <2>5, <3>2
          <6> QED BY <5>4, <6>1, Zenon
        <5> QED BY <5>2, <5>3, <5>4
      <4> QED BY <1>0, <2>5, <4>1, ChainedPart
    <3> QED BY <2>2, <3>1, <3>2
  <2>9. Chained(file)'
    BY <2>8 DEF Chained, ExpectedPrevious, WholeUpTo
  <2>10. Begins(disk, file)'
    BY <2>1, <2>5 DEF Begins
  <2> QED BY <2>6, <2>7, <2>9, <2>10
<1>5. ASSUME NEW p \in Process, Sync(p) PROVE IInv'
  <2>1. /\ Release(p) /\ pc[p] # "idle" /\ file' = file /\ disk' = file
        /\ promised' = promised \cup {snapshot[p]}
        /\ Stored(snapshot[p], file) /\ snapshot[p] \in Snapshot
    BY <1>5 DEF Sync, Written, Exclusive
  <2>2. TypeOK' /\ Exclusive' /\ Validated' /\ Written'
    BY <1>0, <2>1, Released DEF TypeOK, Exclusive, Validated, Written
  <2>3. Begins(disk, file)'
    BY <1>0, <2>1 DEF Begins
  <2>7. Chained(file)'
    BY <2>1 DEF Chained, ExpectedPrevious, WholeUpTo
  <2>4. \A s \in promised : Stored(s, disk)
    BY DEF PromisedOnDisk, Stored
  <2>5. \A s \in promised' : Stored(s, file)
    BY <1>0, <2>1, <2>4, StoredGrows
  <2>6. PromisedOnDisk'
    BY <2>1, <2>5 DEF PromisedOnDisk, Stored
  <2> QED BY <2>2, <2>3, <2>6, <2>7
<1>6. ASSUME NEW p \in Process, Kill(p) PROVE IInv'
  <2>1. Release(p) /\ pc[p] # "idle" /\ UNCHANGED <<file, disk, promised>>
    BY <1>6 DEF Kill
  <2>2. TypeOK' /\ Exclusive' /\ Validated' /\ Written'
    <3>1. TypeOK'
      BY <2>1, Released DEF TypeOK
    <3>2. \A q \in Process : pc'[q] = "idle"
      BY <2>1, Released
    <3> QED BY <3>1, <3>2 DEF Exclusive, Validated, Written
  <2>3. Begins(disk, file)' /\ PromisedOnDisk' /\ Chained(file)'
    BY <2>1 DEF Begins, PromisedOnDisk, Chained, ExpectedPrevious, WholeUpTo
  <2> QED BY <2>2, <2>3
<1>7. ASSUME PowerLoss PROVE IInv'
  <2>1. PICK n \in Nat :
              /\ Len(disk) <= n /\ n <= Len(file)
              /\ disk' = file' /\ file' \in Seq(Piece)
              /\ Len(file') \in {n, n + 1}
              /\ \A i \in 1 .. n : file'[i] = file[i]
              /\ Len(file') = n + 1 => n < Len(file) /\ file'[n + 1] = Torn
    BY <1>7, PowerLossFile
  <2>2. n \in Nat /\ Len(disk) <= n /\ n <= Len(file)
    BY <2>1
  <2>5. /\ disk' = file' /\ file' \in Seq(Piece)
        /\ Len(file') \in {n, n + 1}
        /\ \A i \in 1 .. n : file'[i] = file[i]
        /\ Len(file') = n + 1 => file'[n + 1] = Torn
    BY <2>1
  <2>6. TypeOK' /\ Exclusive' /\ Validated' /\ Written'
    BY <1>7, <2>5 DEF PowerLoss, TypeOK, Exclusive, Validated, Written
  <2>7. Begins(disk, file)'
    BY <2>5 DEF Begins
  <2>8. Begins(disk, file')
    BY <1>0, <2>2, <2>5 DEF Begins
  <2>9. PromisedOnDisk'
    <3>1. \A s \in promised : Stored(s, disk)
      BY DEF PromisedOnDisk, Stored
    <3>2. Len(file') \in Nat
      BY <2>2, <2>5
    <3>3. \A s \in promised : Stored(s, file')
      BY <1>0, <2>8, <3>1, <3>2, StoredGrows
    <3> QED BY <1>7, <2>5, <3>3 DEF PowerLoss, PromisedOnDisk, Stored
  <2>10. Chained(file')
    <3>1. ASSUME NEW i \in 1 .. Len(file')
          PROVE  file'[i] = Torn \/ (i <= Len(file) /\ file'[i] = file[i])
      <4>1. CASE i \in 1 .. n
        <5>1. i <= Len(file)
          BY <1>0, <2>2, <4>1 DEF TypeOK
        <5> QED BY <2>5, <4>1, <5>1
      <4>2. CASE i \notin 1 .. n
        <5>1. i \in Nat /\ 1 <= i /\ i <= Len(file')
          BY <2>2, <2>5
        <5>2. Len(file') = n + 1 /\ i = n + 1
          BY <2>2, <2>5, <4>2, <5>1
        <5>3. file'[n + 1] = Torn
          BY <2>5, <5>2
        <5> QED BY <5>2, <5>3, Zenon
      <4> QED BY <4>1, <4>2
    <3>2. Len(file') <= Len(file) + 1
      BY <1>0, <2>2, <2>5
    <3> QED BY <2>5, <3>1, <3>2, ChainedPart DEF TypeOK
  <2>11. Chained(file)'
    BY <2>10 DEF Chained, ExpectedPrevious, WholeUpTo
  <2> QED BY <2>6, <2>7, <2>9, <2>11
<1>8. CASE UNCHANGED vars
  <2> USE <1>8 DEF vars
  <2>1. TypeOK' /\ Exclusive'
    BY DEF TypeOK, Exclusive
  <2>2. Validated'
    BY DEF Validated
  <2>3. Written' /\ Begins(disk, file)' /\ PromisedOnDisk'
    BY DEF Written, Stored, Begins, PromisedOnDisk
  <2>4. Chained(file)'
    BY DEF Chained, ExpectedPrevious, WholeUpTo
  <2> QED BY <2>1, <2>2, <2>3, <2>4
<1> QED BY <1>1, <1>2, <1>3, <1>4, <1>5, <1>6, <1>7, <1>8 DEF Next

LEMMA Invariance == Spec => []IInv
BY InitIInv, NextIInv, PTL DEF Spec

-----------------------------------------------------------------------------
(***************************************************************************)
(* The hashes.  As records are only added after the last one and what a    *)
(* crash takes is at the end, each hash begins the hashes after it and     *)
(* tells the decisions up to its own.                                      *)
(***************************************************************************)

(* Only the last piece is torn, and a newline follows a record. *)
Shape(f) ==
    /\ \A i \in 1 .. Len(f) : f[i] = Torn => i = Len(f)
    /\ \A i \in 1 .. Len(f) : f[i] = Newline => i - 1 \in Records(f)

Entries(hash) == {hash[n] : n \in 1 .. Len(hash)}

Tells(f, i) == Entries(RecordHash(f[i])) = {f[j].snapshot : j \in Records(f) \cap 1 .. i}

History(f) ==
    /\ Shape(f)
    /\ \A i \in Records(f) : Tells(f, i)
    /\ \A i, j \in Records(f) : i <= j => Begins(RecordHash(f[i]), RecordHash(f[j]))

LEMMA BeginsTransitive ==
    ASSUME NEW f, NEW g, NEW h, Len(f) \in Nat, Len(g) \in Nat, Begins(f, g), Begins(g, h)
    PROVE  Begins(f, h)
BY DEF Begins

LEMMA LatestExists ==
    ASSUME NEW f \in Seq(Piece), Shape(f), Records(f) # {}
    PROVE  \E k \in Records(f) :
              /\ \A j \in Records(f) : j <= k
              /\ LastHash(f) = RecordHash(f[k])
<1> DEFINE n == Len(f)
<1>1. n \in Nat /\ n >= 1
  <2>1. n # 0
    BY DEF Records
  <2> QED BY <2>1
<1>2. \A j \in Records(f) : j \in Nat /\ j >= 1 /\ j <= n
  BY DEF Records
<1>3. CASE n \in Records(f)
  BY <1>2, <1>3, LatestIs
<1>4. CASE f[n] = Newline
  <2>1. n - 1 \in Records(f) /\ n \notin Records(f)
    BY <1>1, <1>4 DEF Shape, Records
  <2>2. \A j \in Records(f) : j <= n - 1
    BY <1>1, <1>2, <2>1
  <2> QED BY <2>1, <2>2, LatestIs
<1>5. CASE f[n] = Torn
  <2>1. n \notin Records(f)
    BY <1>5 DEF Records
  <2>2. \A j \in Records(f) : j <= n - 1
    BY <1>1, <1>2, <2>1
  <2>3. n - 1 \in 1 .. n
    BY <1>1, <1>2, <2>2
  <2>4. CASE n - 1 \in Records(f)
    BY <2>2, <2>4, LatestIs
  <2>5. CASE n - 1 \notin Records(f)
    <3>1. f[n - 1] # Torn
      BY <1>1, <2>3 DEF Shape
    <3>2. f[n - 1] = Newline
      BY <2>3, <2>5, <3>1 DEF Records
    <3>3. (n - 1) - 1 \in Records(f)
      BY <2>3, <3>2 DEF Shape
    <3>4. \A j \in Records(f) : j <= (n - 1) - 1
      BY <1>1, <1>2, <2>2, <2>5
    <3> QED BY <3>3, <3>4, LatestIs
  <2> QED BY <2>4, <2>5
<1> QED BY <1>1, <1>3, <1>4, <1>5 DEF Records

LEMMA HashType ==
    ASSUME NEW f \in Seq(Piece), Shape(f)
    PROVE  LastHash(f) \in Seq(Snapshot) /\ Len(LastHash(f)) \in Nat
<1>1. CASE Records(f) = {}
  BY <1>1 DEF LastHash, GENESIS_HASH
<1>2. CASE Records(f) # {}
  BY <1>2, LatestExists, RecordsType
<1> QED BY <1>1, <1>2

(* What a crash leaves of the file. *)
LEMMA HistoryPart ==
    ASSUME NEW f \in Seq(Piece), NEW g \in Seq(Piece), History(g), Shape(f),
           \A i \in Records(f) : i \in Records(g) /\ f[i] = g[i],
           \A i \in Records(f), j \in Records(g) : j <= i => j \in Records(f)
    PROVE  History(f) /\ Begins(LastHash(f), LastHash(g))
<1>1. ASSUME NEW i \in Records(f) PROVE Tells(f, i)
  <2>1. Records(f) \cap 1 .. i = Records(g) \cap 1 .. i
    BY RecordsType
  <2>2. \A j \in Records(f) \cap 1 .. i : f[j] = g[j]
    OBVIOUS
  <2>3. {f[j].snapshot : j \in Records(f) \cap 1 .. i} = {g[j].snapshot : j \in Records(g) \cap 1 .. i}
    BY <2>1, <2>2
  <2>4. f[i] = g[i] /\ Tells(g, i)
    BY DEF History
  <2> QED BY <2>3, <2>4 DEF Tells
<1>2. \A i, j \in Records(f) : i <= j => Begins(RecordHash(f[i]), RecordHash(f[j]))
  BY DEF History
<1>3. Begins(LastHash(f), LastHash(g))
  <2>1. Shape(g)
    BY DEF History
  <2>2. CASE Records(f) = {}
    <3>1. LastHash(f) = << >>
      BY <2>2 DEF LastHash, GENESIS_HASH
    <3> QED BY <2>1, <3>1, HashType DEF Begins
  <2>3. CASE Records(f) # {}
    <3>1. PICK k \in Records(f) : LastHash(f) = RecordHash(f[k])
      BY <2>3, LatestExists
    <3>2. k \in Records(g) /\ f[k] = g[k]
      OBVIOUS
    <3>3. PICK m \in Records(g) :
             (\A j \in Records(g) : j <= m) /\ LastHash(g) = RecordHash(g[m])
      BY <2>1, <3>2, LatestExists
    <3> QED BY <3>1, <3>2, <3>3 DEF History
  <2> QED BY <2>2, <2>3
<1> QED BY <1>1, <1>2, <1>3 DEF History

(* A record appended to a valid file. *)
LEMMA HistoryAppend ==
    ASSUME NEW f \in Seq(Piece), NEW g \in Seq(Piece), NEW s \in Snapshot,
           Valid(f), History(f), Len(f) < Len(g), Len(g) <= Len(f) + 2,
           \A i \in 1 .. Len(f) : g[i] = f[i],
           g[Len(f) + 1] = [previous |-> LastHash(f), snapshot |-> s],
           g[Len(f) + 1] \in Record,
           Len(g) = Len(f) + 2 => g[Len(f) + 2] = Newline
    PROVE  History(g) /\ LastHash(g) = Append(LastHash(f), s)
<1> DEFINE n == Len(f)
           h == LastHash(f)
<1>0. n \in Nat /\ Len(g) \in Nat /\ Shape(f) /\ h \in Seq(Snapshot)
  BY HashType DEF History
<1>1. Records(g) = Records(f) \cup {n + 1}
  <2>1. \A i \in 1 .. n : i \in Records(g) <=> i \in Records(f)
    BY <1>0 DEF Records
  <2>2. n + 1 \in Records(g)
    BY <1>0, RecordAssumption DEF Records
  <2>3. n + 2 \notin Records(g)
    BY <1>0 DEF Records
  <2>4. \A i \in Records(g) : i \in 1 .. n \/ i = n + 1 \/ i = n + 2
    BY <1>0 DEF Records
  <2>5. Records(f) \subseteq 1 .. n
    BY DEF Records
  <2> QED BY <2>1, <2>2, <2>3, <2>4, <2>5
<1>2. \A i \in Records(f) : i \in Nat /\ i <= n /\ i >= 1 /\ g[i] = f[i]
  BY <1>0 DEF Records
<1>3. LastHash(g) = RecordHash(g[n + 1]) /\ RecordHash(g[n + 1]) = Append(h, s)
  <2>1. \A j \in Records(g) : j <= n + 1
    BY <1>0, <1>1, <1>2
  <2>2. LastHash(g) = RecordHash(g[n + 1])
    BY <1>1, <2>1, LatestIs
  <2> QED BY <2>2 DEF RecordHash
<1>4. Shape(g)
  <2>1. \A i \in 1 .. Len(g) : g[i] # Torn
    <3>1. \A i \in 1 .. n : f[i] # Torn
      BY PiecesAssumption DEF Valid, Lines
    <3> QED BY <1>0, <3>1, RecordAssumption, PiecesAssumption
  <2>2. ASSUME NEW i \in 1 .. Len(g), g[i] = Newline PROVE i - 1 \in Records(g)
    <3>1. CASE i \in 1 .. n
      BY <1>0, <1>1, <2>2, <3>1 DEF Shape
    <3>2. CASE i = n + 2
      BY <1>0, <1>1, <3>2
    <3>3. i # n + 1
      BY <2>2, RecordAssumption
    <3> QED BY <1>0, <3>1, <3>2, <3>3
  <2> QED BY <2>1, <2>2 DEF Shape
<1>5. \A i \in Records(f) : Begins(RecordHash(f[i]), h)
  <2> SUFFICES ASSUME NEW i \in Records(f) PROVE Begins(RecordHash(f[i]), h)
    OBVIOUS
  <2>1. PICK k \in Records(f) : (\A j \in Records(f) : j <= k) /\ h = RecordHash(f[k])
    BY <1>0, LatestExists
  <2> QED BY <2>1 DEF History
<1>6. /\ Append(h, s) \in Seq(Snapshot) /\ Len(Append(h, s)) = Len(h) + 1 /\ Len(h) \in Nat
      /\ \A i \in 1 .. Len(h) : Append(h, s)[i] = h[i]
      /\ Append(h, s)[Len(h) + 1] = s
  BY <1>0, AppendProperties
<1>7. ASSUME NEW i \in Records(g), NEW j \in Records(g), i <= j
      PROVE  Begins(RecordHash(g[i]), RecordHash(g[j]))
  <2>1. CASE i \in Records(f) /\ j \in Records(f)
    BY <1>2, <1>7, <2>1 DEF History
  <2>2. CASE i \in Records(f) /\ j = n + 1
    <3>1. Len(RecordHash(f[i])) \in Nat
      BY <2>2, RecordsType
    <3>2. Begins(RecordHash(f[i]), h) /\ Begins(h, Append(h, s))
      <4>1. Len(h) <= Len(Append(h, s))
        BY <1>6
      <4> QED BY <1>5, <1>6, <2>2, <4>1 DEF Begins
    <3>3. Begins(RecordHash(f[i]), Append(h, s))
      BY <1>6, <3>1, <3>2, BeginsTransitive
    <3> QED BY <1>2, <1>3, <2>2, <3>3
  <2>3. CASE i = n + 1
    <3>1. j = n + 1
      BY <1>0, <1>1, <1>2, <1>7, <2>3
    <3>2. Begins(Append(h, s), Append(h, s))
      BY <1>6 DEF Begins
    <3> QED BY <1>3, <2>3, <3>1, <3>2
  <2> QED BY <1>1, <2>1, <2>2, <2>3
<1>8. ASSUME NEW i \in Records(f) PROVE Tells(g, i)
  <2>1. Records(g) \cap 1 .. i = Records(f) \cap 1 .. i
    BY <1>0, <1>1, <1>2
  <2>2. \A j \in Records(f) \cap 1 .. i : g[j] = f[j]
    BY <1>2
  <2>3. {g[j].snapshot : j \in Records(g) \cap 1 .. i} = {f[j].snapshot : j \in Records(f) \cap 1 .. i}
    BY <2>1, <2>2
  <2>4. g[i] = f[i] /\ Tells(f, i)
    BY <1>2 DEF History
  <2> QED BY <2>3, <2>4 DEF Tells
<1>9. Tells(g, n + 1)
  <2>1. Entries(Append(h, s)) = Entries(h) \cup {s}
    <3>1. \A i \in 1 .. Len(h) + 1 : Append(h, s)[i] = IF i \in 1 .. Len(h) THEN h[i] ELSE s
      BY <1>6
    <3>2. 1 .. Len(h) + 1 = (1 .. Len(h)) \cup {Len(h) + 1}
      BY <1>6
    <3> QED BY <1>6, <3>1, <3>2 DEF Entries
  <2>2. Entries(h) = {f[j].snapshot : j \in Records(f)}
    <3>1. CASE Records(f) = {}
      <4>1. h = << >>
        BY <3>1 DEF LastHash, GENESIS_HASH
      <4> QED BY <3>1, <4>1 DEF Entries
    <3>2. CASE Records(f) # {}
      <4>1. PICK k \in Records(f) : (\A j \in Records(f) : j <= k) /\ h = RecordHash(f[k])
        BY <1>0, <3>2, LatestExists
      <4>2. Records(f) \cap 1 .. k = Records(f)
        BY <1>2, <4>1
      <4>3. Tells(f, k)
        BY DEF History
      <4> QED BY <4>1, <4>2, <4>3 DEF Tells
    <3> QED BY <3>1, <3>2
  <2>3. Records(g) \cap 1 .. n + 1 = Records(f) \cup {n + 1}
    BY <1>0, <1>1, <1>2
  <2>4. {g[j].snapshot : j \in Records(f) \cup {n + 1}} = {f[j].snapshot : j \in Records(f)} \cup {s}
    <3>1. g[n + 1].snapshot = s
      OBVIOUS
    <3>2. \A j \in Records(f) : g[j] = f[j]
      BY <1>2
    <3> QED BY <3>1, <3>2
  <2> QED BY <1>3, <2>1, <2>2, <2>3, <2>4 DEF Tells
<1> QED BY <1>1, <1>3, <1>4, <1>7, <1>8, <1>9 DEF History

(* A first part of a file. *)
LEMMA HistoryBegins ==
    ASSUME NEW f \in Seq(Piece), NEW g \in Seq(Piece), Begins(f, g), History(g)
    PROVE  History(f) /\ Begins(LastHash(f), LastHash(g))
<1>0. Len(f) \in Nat /\ Len(g) \in Nat /\ Len(f) <= Len(g) /\ Shape(g)
  BY DEF Begins, History
<1>1. \A i \in 1 .. Len(f) : i \in 1 .. Len(g) /\ f[i] = g[i] /\ i \in Nat
  BY <1>0 DEF Begins
<1>2. \A i \in 1 .. Len(f) : i \in Records(f) <=> i \in Records(g)
  BY <1>1 DEF Records
<1>3. Records(f) \subseteq 1 .. Len(f) /\ Records(g) \subseteq 1 .. Len(g)
  BY DEF Records
<1>4. Shape(f)
  <2>1. ASSUME NEW i \in 1 .. Len(f), f[i] = Torn PROVE i = Len(f)
    <3>1. i = Len(g)
      BY <1>0, <1>1, <2>1 DEF Shape
    <3> QED BY <1>0, <1>1, <3>1
  <2>2. ASSUME NEW i \in 1 .. Len(f), f[i] = Newline PROVE i - 1 \in Records(f)
    <3>1. i - 1 \in Records(g)
      BY <1>0, <1>1, <2>2 DEF Shape
    <3>2. i - 1 \in 1 .. Len(f)
      BY <1>0, <1>1, <1>3, <3>1
    <3> QED BY <1>2, <3>1, <3>2
  <2> QED BY <2>1, <2>2 DEF Shape
<1>5. \A i \in Records(f), j \in Records(g) : j <= i => j \in Records(f)
  <2> SUFFICES ASSUME NEW i \in Records(f), NEW j \in Records(g), j <= i
               PROVE  j \in Records(f)
    OBVIOUS
  <2>1. j \in 1 .. Len(f)
    BY <1>0, <1>3
  <2> QED BY <1>2, <2>1
<1> QED BY <1>1, <1>2, <1>3, <1>4, <1>5, HistoryPart

(* A torn record at the end hides nothing. *)
LEMMA HistoryTorn ==
    ASSUME NEW f \in Seq(Piece), NEW g \in Seq(Piece), History(g),
           \A i \in 1 .. Len(g) : g[i] # Torn,
           Len(f) = Len(g) + 1, f[Len(f)] = Torn, \A i \in 1 .. Len(g) : f[i] = g[i]
    PROVE  History(f) /\ LastHash(f) = LastHash(g)
<1>0. Len(f) \in Nat /\ Len(g) \in Nat /\ Shape(g)
  BY DEF History
<1>1. \A i \in 1 .. Len(f) : i \in 1 .. Len(g) \/ i = Len(f)
  BY <1>0
<1>2. Records(f) = Records(g) /\ \A i \in Records(g) : f[i] = g[i]
  <2>1. Len(f) \notin Records(f)
    BY DEF Records
  <2> QED BY <1>0, <1>1, <2>1 DEF Records
<1>3. Shape(f)
  <2>1. \A i \in 1 .. Len(f) : f[i] = Torn => i = Len(f)
    BY <1>1
  <2>2. \A i \in 1 .. Len(f) : f[i] = Newline => i \in 1 .. Len(g) /\ g[i] = Newline
    BY <1>1, PiecesAssumption
  <2> QED BY <1>0, <1>2, <2>1, <2>2 DEF Shape
<1>4. History(f)
  BY <1>2, <1>3, HistoryPart
<1>5. LastHash(f) = LastHash(g)
  <2>1. CASE Records(g) = {}
    BY <1>2, <2>1 DEF LastHash
  <2>2. CASE Records(g) # {}
    <3>1. PICK k \in Records(g) :
             (\A j \in Records(g) : j <= k) /\ LastHash(g) = RecordHash(g[k])
      BY <1>0, <2>2, LatestExists
    <3>2. LastHash(f) = RecordHash(f[k])
      BY <1>2, <3>1, LatestIs
    <3> QED BY <1>2, <3>1, <3>2
  <2> QED BY <2>1, <2>2
<1> QED BY <1>4, <1>5

LEMMA WriteHistory ==
    ASSUME IInv, History(file), NEW p \in Process, Write(p)
    PROVE  History(file') /\ LastHash(file') = Append(LastHash(file), snapshot[p])
<1>1. file \in Seq(Piece) /\ Len(file) \in Nat
  BY DEF IInv, TypeOK
<1>2. NewRecord(p) = [previous |-> LastHash(file), snapshot |-> snapshot[p]]
  BY DEF NewRecord
<1>3. Len(file) < Len(file') /\ Len(file') <= Len(file) + 2
  BY <1>1, WriteFile
<1> QED BY <1>1, <1>2, <1>3, WriteFile, HistoryAppend

LEMMA InterruptedHistory ==
    ASSUME IInv, History(file), NEW p \in Process, WriteInterrupted(p)
    PROVE  /\ History(file')
           /\ LastHash(file') \in {LastHash(file), Append(LastHash(file), snapshot[p])}
           /\ LastHash(file') = LastHash(file) => ~Valid(file')
<1>1. file \in Seq(Piece) /\ Len(file) \in Nat
  BY DEF IInv, TypeOK
<1>2. /\ Valid(file) /\ snapshot[p] \in Snapshot /\ NewRecord(p) \in Record
      /\ file' \in Seq(Piece) /\ Len(file') = Len(file) + 1
      /\ \A i \in 1 .. Len(file) : file'[i] = file[i]
      /\ file'[Len(file) + 1] \in {Torn, NewRecord(p)}
  BY InterruptedFile
<1>3. CASE file'[Len(file) + 1] = NewRecord(p)
  <2>1. NewRecord(p) = [previous |-> LastHash(file), snapshot |-> snapshot[p]]
    BY DEF NewRecord
  <2>2. /\ Len(file) < Len(file') /\ Len(file') <= Len(file) + 2
        /\ Len(file') # Len(file) + 2
    BY <1>1, <1>2
  <2>3. History(file') /\ LastHash(file') = Append(LastHash(file), snapshot[p])
    BY <1>1, <1>2, <1>3, <2>1, <2>2, HistoryAppend
  <2>4. Len(LastHash(file)) \in Nat /\ LastHash(file) \in Seq(Snapshot)
    BY <1>1, HashType DEF History
  <2>5. Append(LastHash(file), snapshot[p]) # LastHash(file)
    BY <1>2, <2>4, AppendProperties
  <2> QED BY <2>3, <2>5
<1>4. CASE file'[Len(file) + 1] = Torn
  <2>1. \A i \in 1 .. Len(file) : file[i] # Torn
    BY <1>2, PiecesAssumption DEF Valid, Lines
  <2>2. History(file') /\ LastHash(file') = LastHash(file)
    BY <1>1, <1>2, <1>4, <2>1, HistoryTorn
  <2>3. ~Valid(file')
    <3>1. Len(file') \in 1 .. Len(file') /\ file'[Len(file')] = Torn
      BY <1>1, <1>2, <1>4
    <3> QED BY <3>1, PiecesAssumption DEF Valid, Lines
  <2> QED BY <2>2, <2>3
<1> QED BY <1>2, <1>3, <1>4

(* A power loss takes the end of the history, and nothing of the disk's. *)
LEMMA PowerLossHistory ==
    ASSUME IInv, History(file), PowerLoss
    PROVE  /\ History(file')
           /\ Begins(LastHash(disk), LastHash(file'))
           /\ Begins(LastHash(file'), LastHash(file))
           /\ disk' = file'
<1>0. /\ file \in Seq(Piece) /\ disk \in Seq(Piece) /\ Begins(disk, file)
      /\ Len(file) \in Nat /\ Len(disk) \in Nat
  BY DEF IInv, TypeOK
<1>1. PICK n \in Nat :
          /\ Len(disk) <= n /\ n <= Len(file)
          /\ disk' = file' /\ file' \in Seq(Piece)
          /\ Len(file') \in {n, n + 1}
          /\ \A i \in 1 .. n : file'[i] = file[i]
          /\ Len(file') = n + 1 => n < Len(file) /\ file'[n + 1] = Torn
  BY PowerLossFile
<1> DEFINE kept == SubSeq(file, 1, n)
<1>2. kept \in Seq(Piece) /\ Len(kept) = n /\ \A i \in 1 .. n : kept[i] = file[i]
  BY <1>0, <1>1, SubSeqProperties
<1> HIDE DEF kept
<1>3. Begins(kept, file) /\ Begins(disk, kept)
  BY <1>0, <1>1, <1>2 DEF Begins
<1>4. History(kept) /\ Begins(LastHash(kept), LastHash(file))
  BY <1>0, <1>2, <1>3, HistoryBegins
<1>5. Begins(LastHash(disk), LastHash(kept))
  BY <1>0, <1>2, <1>3, <1>4, HistoryBegins
<1>6. CASE Len(file') = n
  <2>1. file' = kept
    BY <1>1, <1>2, <1>6, SeqEqual
  <2> QED BY <1>1, <1>4, <1>5, <2>1
<1>7. CASE Len(file') = n + 1
  <2>1. \A i \in 1 .. n : kept[i] # Torn
    <3>1. \A i \in 1 .. Len(file) : file[i] = Torn => i = Len(file)
      BY DEF History, Shape
    <3> QED BY <1>0, <1>1, <1>2, <1>7, <3>1
  <2>2. /\ Len(file') = Len(kept) + 1 /\ file'[Len(file')] = Torn
        /\ \A i \in 1 .. Len(kept) : file'[i] = kept[i] /\ kept[i] # Torn
    BY <1>1, <1>2, <1>7, <2>1
  <2>3. History(file') /\ LastHash(file') = LastHash(kept)
    BY <1>1, <1>2, <1>4, <2>2, HistoryTorn
  <2> QED BY <1>1, <1>4, <1>5, <2>3
<1> QED BY <1>1, <1>6, <1>7

LEMMA HistoryStep ==
    ASSUME IInv, History(file), [Next]_vars
    PROVE  History(file')
<1>1. CASE file' = file
  BY <1>1
<1>2. CASE file' # file
  <2>1. \/ PowerLoss
        \/ \E p \in Process : Write(p) \/ WriteInterrupted(p)
    BY <1>2 DEF Next, vars, Lock, Decide, Sync, Kill
  <2> QED BY <2>1, WriteHistory, InterruptedHistory, PowerLossHistory
<1> QED BY <1>1, <1>2

LEMMA HistoryInvariance == Spec => [](IInv /\ History(file))
<1>1. Init => History(file)
  BY DEF Init, History, Shape, Records
<1>2. History(file') => History(file)'
  BY DEF History, Shape, Tells, Records, Entries, RecordHash, Begins
<1>3. IInv /\ History(file) /\ [Next]_vars => (IInv /\ History(file))'
  BY <1>2, NextIInv, HistoryStep
<1> QED BY <1>1, <1>3, InitIInv, PTL DEF Spec

-----------------------------------------------------------------------------
(* The variables of the ledger keep their types: the file is made of       *)
(* records, newlines and torn records, and only snapshots are promised.    *)
THEOREM TypeCorrect == Spec => []TypeOK
<1>1. IInv => TypeOK
  BY DEF IInv
<1> QED BY <1>1, Invariance, PTL

(* Whatever was answered with appended = True is on the disk and stays     *)
(* there, through kills, full disks and power losses.                      *)
THEOREM AppendsAreDurable == Spec => []PromisedOnDisk
<1>1. IInv => PromisedOnDisk
  BY DEF IInv
<1> QED BY <1>1, Invariance, PTL

(* A replay that does not raise returns everything that was answered with  *)
(* appended = True.                                                        *)
THEOREM ReplayIsComplete == Spec => []PromisedReplayed
<1>1. IInv => PromisedReplayed
  <2> SUFFICES ASSUME IInv, Valid(file), NEW s \in promised
               PROVE  s \in Replayed(file)
    BY DEF PromisedReplayed
  <2>1. Len(file) \in Nat /\ Len(disk) \in Nat
    BY DEF IInv, TypeOK
  <2>2. PICK i \in 1 .. Len(disk) : disk[i] \notin {Newline, Torn} /\ disk[i].snapshot = s
    BY DEF IInv, PromisedOnDisk
  <2>3. i \in 1 .. Len(file) /\ file[i] = disk[i]
    BY <2>1 DEF IInv, Begins
  <2>4. i \in Places(file)
    BY <2>2, <2>3 DEF Valid, Lines
  <2> QED BY <2>2, <2>3, <2>4 DEF Replayed
<1> QED BY <1>1, Invariance, PTL

(* Processes that race, retry and die never break the chain or store a run *)
(* twice: a ledger of whole lines is valid.                                *)
THEOREM ChainIsKept == Spec => []WholeLinesAreValid
<1>1. IInv => WholeLinesAreValid
  BY WholeAndChainedIsValid DEF IInv, TypeOK, WholeLinesAreValid
<1> QED BY <1>1, Invariance, PTL

(* Only a power loss changes a ledger that does not validate.              *)
THEOREM InvalidLedgerIsLeftAlone == Spec => InvalidIsLeftAlone
<1>1. IInv /\ [Next]_vars => [~Valid(file) => file' = file \/ PowerLoss]_vars
  <2> SUFFICES ASSUME IInv, Next, ~Valid(file), ~PowerLoss PROVE file' = file
    OBVIOUS
  <2>1. \A p \in Process : pc[p] # "write"
    BY DEF IInv, Validated
  <2> QED BY <2>1 DEF Next, Lock, Decide, Write, WriteInterrupted, Sync, Kill
<1> QED BY <1>1, Invariance, PTL DEF Spec, InvalidIsLeftAlone

(* Whatever raced, died or was lost: the hash of a record tells the        *)
(* decisions up to it, also in a file that does not validate.              *)
THEOREM HashesAreHistory == Spec => []HashesTellHistory
<1>1. History(file) => HashesTellHistory
  BY DEF History, Tells, Entries, HashesTellHistory
<1> QED BY <1>1, HistoryInvariance, PTL

-----------------------------------------------------------------------------
(***************************************************************************)
(* The ledger is a log                                                     *)
(***************************************************************************)

(* What the last hash tells of a file. *)
LEMMA LastHashTells ==
    ASSUME NEW f \in Seq(Piece), History(f)
    PROVE  Entries(LastHash(f)) = {f[j].snapshot : j \in Records(f)}
<1>1. CASE Records(f) = {}
  <2>1. LastHash(f) = << >>
    BY <1>1 DEF LastHash, GENESIS_HASH
  <2> QED BY <1>1, <2>1 DEF Entries
<1>2. CASE Records(f) # {}
  <2>1. PICK k \in Records(f) : (\A j \in Records(f) : j <= k) /\ LastHash(f) = RecordHash(f[k])
    BY <1>2, LatestExists DEF History
  <2>2. Records(f) \cap 1 .. k = Records(f)
    BY <2>1, RecordsType DEF Records
  <2>3. Tells(f, k)
    BY DEF History
  <2> QED BY <2>1, <2>2, <2>3 DEF Tells
<1> QED BY <1>1, <1>2

(* The view of the log, now and after the step. *)
LEMMA ViewPrimed ==
    /\ LastHash(file)' = LastHash(file')
    /\ LastHash(disk)' = LastHash(disk')
    /\ Valid(file)' = Valid(file')
    /\ Valid(file') \in BOOLEAN
<1>1. LastHash(file)' = LastHash(file') /\ LastHash(disk)' = LastHash(disk')
  BY DEF LastHash, Records, Latest, RecordHash, GENESIS_HASH
<1>2. Valid(file)' = Valid(file')
  BY DEF Valid, Lines, Places, ExpectedPrevious, RecordHash, GENESIS_HASH
<1>3. Valid(file') \in BOOLEAN
  BY DEF Valid
<1> QED BY <1>1, <1>2, <1>3

(* A snapshot that a valid file does not replay is not in its log. *)
LEMMA NewInLog ==
    ASSUME NEW f \in Seq(Piece), Valid(f), History(f), NEW s, s \notin Replayed(f)
    PROVE  \A i \in 1 .. Len(LastHash(f)) : LastHash(f)[i] # s
<1>1. Entries(LastHash(f)) = {f[j].snapshot : j \in Records(f)}
  BY LastHashTells
<1>2. Records(f) = Places(f)
  BY PiecesAssumption DEF Valid, Lines, Records, Places
<1> QED BY <1>1, <1>2 DEF Entries, Replayed

LEMMA LogStep ==
    ASSUME IInv, History(file), [Next]_vars
    PROVE  Log!Next \/ UNCHANGED Log!vars
<1>0. /\ file \in Seq(Piece) /\ disk \in Seq(Piece) /\ Begins(disk, file)
      /\ Shape(file) /\ History(file')
  BY HistoryStep DEF IInv, TypeOK, History
<1>t. LastHash(file) \in Seq(Snapshot) /\ Len(LastHash(file)) \in Nat
  BY <1>0, HashType
<1>1. CASE UNCHANGED <<file, disk, promised>>
  BY <1>1, ViewPrimed DEF Log!vars
<1>2. ASSUME NEW p \in Process, Write(p) PROVE Log!AppendDecision
  <2>1. Valid(file) /\ snapshot[p] \in Snapshot /\ snapshot[p] \notin Replayed(file)
    BY <1>2, WriteFile
  <2>2. LastHash(file') = Append(LastHash(file), snapshot[p])
    BY <1>2, WriteHistory
  <2>3. UNCHANGED <<disk, promised>>
    BY <1>2 DEF Write
  <2>4. \A i \in 1 .. Len(LastHash(file)) : LastHash(file)[i] # snapshot[p]
    BY <1>0, <2>1, NewInLog
  <2> QED BY <2>1, <2>2, <2>3, <2>4, ViewPrimed DEF Log!AppendDecision
<1>3. ASSUME NEW p \in Process, WriteInterrupted(p)
      PROVE  Log!AppendDecision \/ Log!Tear
  <2>1. /\ Valid(file) /\ snapshot[p] \in Snapshot /\ snapshot[p] \notin Replayed(file)
        /\ UNCHANGED <<disk, promised>>
    BY <1>3, InterruptedFile
  <2>2. \A i \in 1 .. Len(LastHash(file)) : LastHash(file)[i] # snapshot[p]
    BY <1>0, <2>1, NewInLog
  <2>3. CASE LastHash(file') = Append(LastHash(file), snapshot[p])
    BY <2>1, <2>2, <2>3, ViewPrimed DEF Log!AppendDecision
  <2>4. CASE LastHash(file') = LastHash(file)
    <3>1. ~Valid(file')
      BY <1>3, <2>4, InterruptedHistory
    <3>2. Valid(file)' = FALSE
      BY <3>1, ViewPrimed
    <3> QED BY <2>1, <2>4, <3>2, ViewPrimed DEF Log!Tear
  <2> QED BY <1>3, <2>3, <2>4, InterruptedHistory
<1>4. ASSUME NEW p \in Process, Sync(p) PROVE Log!Acknowledge
  <2>1. /\ file' = file /\ disk' = file /\ promised' = promised \cup {snapshot[p]}
        /\ Stored(snapshot[p], file)
    BY <1>4 DEF Sync, IInv, Written
  <2>2. snapshot[p] \in Entries(LastHash(file))
    <3>1. PICK j \in Records(file) : file[j].snapshot = snapshot[p]
      BY <2>1 DEF Stored, Records
    <3> QED BY <1>0, <3>1, LastHashTells
  <2>3. PICK i \in 1 .. Len(LastHash(file)) : LastHash(file)[i] = snapshot[p]
    BY <2>2 DEF Entries
  <2>4. promised' = promised \cup {LastHash(file)[i]}
    BY <2>1, <2>3
  <2>5. LastHash(file') = LastHash(file) /\ LastHash(disk') = LastHash(file)
    BY <2>1
  <2>6. Valid(file') = Valid(file)
    BY <2>1
  <2> QED BY <2>4, <2>5, <2>6, ViewPrimed DEF Log!Acknowledge
<1>5. ASSUME PowerLoss PROVE Log!Crash
  <2>1. /\ Begins(LastHash(disk), LastHash(file')) /\ Begins(LastHash(file'), LastHash(file))
        /\ disk' = file' /\ History(file')
    BY <1>5, PowerLossHistory
  <2> DEFINE n == Len(LastHash(file'))
  <2>2. file' \in Seq(Piece)
    BY <1>5, PowerLossFile
  <2>3. LastHash(file') \in Seq(Snapshot) /\ n \in Nat
    BY <2>1, <2>2, HashType DEF History
  <2>4. Shape(disk) /\ Len(LastHash(disk)) \in Nat
    BY <1>0, HistoryBegins, HashType DEF History
  <2>5. n \in Len(LastHash(disk)) .. Len(LastHash(file))
    BY <1>t, <2>1, <2>3, <2>4 DEF Begins
  <2>6. LastHash(file') = SubSeq(LastHash(file), 1, n)
    <3> DEFINE part == SubSeq(LastHash(file), 1, n)
    <3>1. n <= Len(LastHash(file))
      BY <2>1 DEF Begins
    <3>2. \A i \in 1 .. n : LastHash(file)[i] \in Snapshot
      BY <1>t, <2>3, <3>1
    <3>3. part \in Seq(Snapshot) /\ Len(part) = n /\ \A i \in 1 .. n : part[i] = LastHash(file)[i]
      BY <2>3, <3>2, SubSeqProperties
    <3>4. \A i \in 1 .. n : LastHash(file')[i] = part[i]
      BY <2>1, <3>3 DEF Begins
    <3> HIDE DEF part
    <3>5. LastHash(file') = part
      BY <2>3, <3>3, <3>4, SeqEqual
    <3> QED BY <3>5 DEF part
  <2>7. UNCHANGED promised /\ LastHash(disk') = LastHash(file')
    BY <1>5, <2>1 DEF PowerLoss
  <2> HIDE DEF n
  <2> QED BY <2>5, <2>6, <2>7, ViewPrimed DEF Log!Crash
<1>6. CASE UNCHANGED vars
  BY <1>1, <1>6 DEF vars
<1>7. ASSUME NEW p \in Process, Lock(p) \/ Decide(p) \/ Kill(p)
      PROVE  UNCHANGED <<file, disk, promised>>
  BY <1>7 DEF Lock, Decide, Kill
<1> QED BY <1>1, <1>2, <1>3, <1>4, <1>5, <1>6, <1>7 DEF Next, Log!Next

(* Refinement: the file of lines is a log that only grows while it can be  *)
(* read, and of which a crash takes nothing that was answered.             *)
THEOREM LedgerIsLog == Spec => LogSpec
<1>1. Init => Log!Init
  <2> SUFFICES ASSUME Init PROVE Log!Init
    OBVIOUS
  <2>1. file = << >> /\ disk = << >> /\ promised = {}
    BY DEF Init
  <2>2. LastHash(file) = << >> /\ LastHash(disk) = << >>
    BY <2>1 DEF LastHash, Records, GENESIS_HASH
  <2>3. Valid(file) = TRUE
    BY <2>1 DEF Valid, Lines, Places
  <2> QED BY <2>1, <2>2, <2>3 DEF Log!Init
<1>2. IInv /\ History(file) /\ [Next]_vars => [Log!Next]_(Log!vars)
  BY LogStep
<1> QED BY <1>1, <1>2, HistoryInvariance, PTL DEF Spec, LogSpec, Log!Spec

-----------------------------------------------------------------------------
(***************************************************************************)
(* The daily run.  A process has the ledger only in its own ledger stage,  *)
(* with its own decision, which then has its record or was handed in.  So  *)
(* every step of DailyAllocation is one of PaperLedger or changes nothing  *)
(* of it, and what is proved above holds of the ledger as it is used.      *)
(***************************************************************************)

Working(p) ==
    /\ stage[p] # "idle" => decision[p] \in Snapshot
    /\ pc[p] # "idle" => stage[p] = "ledger" /\ snapshot[p] = decision[p]
    /\ stage[p] = "ledger" => decision[p] \in decided \cup handed
    /\ stage[p] = "ledger" /\ task[p] = "daily" => decision[p] \in decided

(* What a report says is so. *)
Truthful(r) ==
    /\ r.decision \in decided
    /\ r.appended => r.decision \in promised
    /\ ~outage => Stored(r.decision, file)

RunInv ==
    /\ DailyTypeOK
    /\ \A p \in Process : Working(p)
    /\ \A p \in Process : pc[p] = "sync" => snapshot[p] \notin promised
    /\ \A r \in reported : Truthful(r)
    /\ \A p \in Process, r \in Report : report[p] = r => Truthful(r)
    /\ LedgerIsDecided

(* What is saved, answered or in the ledger stays so until the power goes. *)
Grows ==
    /\ decided \subseteq decided' /\ handed \subseteq handed' /\ promised \subseteq promised'
    /\ ~outage' => ~outage /\ \A s : Stored(s, file) => Stored(s, file')

LEMMA DailyStepIsLedgerStep == [DailyNext]_allVars => [Next]_vars
<1> SUFFICES ASSUME DailyNext PROVE [Next]_vars
  BY DEF allVars, vars
<1>1. ASSUME NEW p \in Process,
             \/ Begin(p) \/ GateFails(p) \/ Evaluate(p) \/ InsertDecision(p)
             \/ Replay(p) \/ WriteOutput(p) \/ Archive(p) \/ Exit(p)
      PROVE  UNCHANGED vars
  BY <1>1 DEF Begin, GateFails, Evaluate, InsertDecision, Replay, WriteOutput, Archive, Exit
<1>2. ASSUME NEW p \in Process,
             \/ LockLedger(p) \/ DecideInLedger(p) \/ WriteRecord(p)
             \/ RecordInterrupted(p) \/ SyncRecord(p) \/ KillRun(p)
      PROVE  [Next]_vars
  BY <1>2 DEF LockLedger, DecideInLedger, WriteRecord, RecordInterrupted, SyncRecord, KillRun, Next
<1>3. Outage => Next
  BY DEF Outage, Next
<1> QED BY <1>1, <1>2, <1>3 DEF DailyNext

LEMMA DailyIsLedger == DailySpec => Spec
<1>1. DailyInit => Init
  BY DEF DailyInit
<1> QED BY <1>1, DailyStepIsLedgerStep, PTL DEF DailySpec, Spec

LEMMA FileGrows ==
    ASSUME IInv, NEW s, Stored(s, file),
           file' = file \/ \E p \in Process : Write(p) \/ WriteInterrupted(p)
    PROVE  Stored(s, file')
<1> USE DEF IInv
<1>1. ASSUME NEW p \in Process, Write(p) PROVE Stored(s, file')
  <2>1. Begins(file, file') /\ Len(file) \in Nat /\ Len(file') \in Nat
    BY <1>1, WriteFile DEF TypeOK
  <2> QED BY <2>1, StoredGrows
<1>2. ASSUME NEW p \in Process, WriteInterrupted(p) PROVE Stored(s, file')
  <2>1. /\ Len(file) \in Nat /\ Len(file') = Len(file) + 1
        /\ \A i \in 1 .. Len(file) : file'[i] = file[i]
    BY <1>2, InterruptedFile DEF TypeOK
  <2>2. Begins(file, file') /\ Len(file') \in Nat
    BY <2>1 DEF Begins
  <2> QED BY <2>1, <2>2, StoredGrows
<1>3. CASE UNCHANGED file
  BY <1>3
<1> QED BY <1>1, <1>2, <1>3

LEMMA StepGrows ==
    ASSUME IInv, [DailyNext]_allVars
    PROVE  Grows
<1>1. [Next]_vars
  BY DailyStepIsLedgerStep
<1>2. promised \subseteq promised'
  BY <1>1 DEF Next, vars, Lock, Decide, Write, WriteInterrupted, Sync, Kill, PowerLoss
<1>3. decided \subseteq decided' /\ handed \subseteq handed'
  BY DEF DailyNext, allVars, runVars, Begin, GateFails, Evaluate, InsertDecision, LockLedger,
         DecideInLedger, Answered, WriteRecord, RecordInterrupted, SyncRecord, Replay, WriteOutput,
         Archive, Exit, KillRun, Outage
<1>4. ~outage' => ~outage /\ (file' = file \/ \E p \in Process : Write(p) \/ WriteInterrupted(p))
  <2>1. ASSUME NEW p \in Process,
               \/ Begin(p) \/ GateFails(p) \/ Evaluate(p) \/ InsertDecision(p) \/ LockLedger(p)
               \/ DecideInLedger(p) \/ SyncRecord(p) \/ Replay(p) \/ WriteOutput(p) \/ Archive(p)
               \/ Exit(p) \/ KillRun(p)
        PROVE  outage' = outage /\ file' = file
    BY <2>1 DEF vars, runVars, Begin, GateFails, Evaluate, InsertDecision, LockLedger, Lock, DecideInLedger,
       Decide, Answered, SyncRecord, Sync, Replay, WriteOutput, Archive, Exit, KillRun, Kill
  <2>2. ASSUME NEW p \in Process, WriteRecord(p) \/ RecordInterrupted(p)
        PROVE  outage' = outage /\ (Write(p) \/ WriteInterrupted(p))
    BY <2>2 DEF WriteRecord, RecordInterrupted, runVars
  <2>3. Outage => outage'
    BY DEF Outage
  <2>4. CASE UNCHANGED allVars
    BY <2>4 DEF allVars, vars, runVars
  <2> QED BY <2>1, <2>2, <2>3, <2>4 DEF DailyNext
<1> QED BY <1>2, <1>3, <1>4, FileGrows DEF Grows

LEMMA TruthKept ==
    ASSUME Grows, NEW r, Truthful(r)
    PROVE  Truthful(r)'
BY DEF Grows, Truthful

(* Who has the ledger works on a decision that is recorded or handed in.   *)
LEMMA RunInit == DailyInit => RunInv
<1> SUFFICES ASSUME DailyInit PROVE RunInv
  OBVIOUS
<1>1. TypeOK
  BY InitIInv DEF DailyInit, IInv
<1>2. DailyTypeOK
  BY <1>1 DEF DailyInit, DailyTypeOK, Stage
<1>3. ASSUME NEW p \in Process PROVE stage[p] = "idle" /\ pc[p] = "idle" /\ report[p] = None
  BY Zenon DEF DailyInit, Init
<1>4. ASSUME NEW p \in Process PROVE Working(p) /\ pc[p] # "sync" /\ report[p] \notin Report
  BY <1>3, FailedAssumption DEF Working
<1>5. LedgerIsDecided
  BY DEF DailyInit, Init, LedgerIsDecided, Records
<1> QED BY <1>2, <1>4, <1>5 DEF RunInv, DailyInit

LEMMA DailyTypeStep ==
    ASSUME IInv, IInv', DailyTypeOK, \A p \in Process : Working(p), DailyNext
    PROVE  DailyTypeOK'
<1> USE DEF DailyTypeOK, Task, Stage
<1>0. TypeOK'
  BY DEF IInv
<1>1. ASSUME NEW p \in Process, stage[p] # "idle", Leave(p), UNCHANGED <<decided, handed, reported, outage>>
      PROVE  DailyTypeOK'
  BY <1>0, <1>1 DEF Leave
<1>2. ASSUME NEW p \in Process, NEW to \in Stage \ {"idle"}, stage[p] # "idle", Goto(p, to),
             report' \in [Process -> Report \cup {Failed, None}],
             decided' \subseteq Snapshot, reported' \subseteq Report, UNCHANGED <<handed, outage>>
      PROVE  DailyTypeOK'
  BY <1>0, <1>2, PiecesAssumption DEF Goto
<1>3. ASSUME NEW p \in Process, Begin(p) PROVE DailyTypeOK'
  <2>1. PICK t \in Task, s \in Snapshot :
          /\ task' = [task EXCEPT ![p] = t]
          /\ decision' = [decision EXCEPT ![p] = s]
          /\ stage' = [stage EXCEPT ![p] = IF t = "paper" THEN "ledger" ELSE "evaluate"]
          /\ handed' = IF t = "paper" THEN handed \cup {s} ELSE handed
    BY <1>3 DEF Begin
  <2>2. UNCHANGED <<report, decided, reported, outage>> /\ handed' \subseteq Snapshot
    BY <1>3, <2>1 DEF Begin
  <2>3. t # None
    BY TaskAssumption
  <2>4. \A q \in Process : stage'[q] = "idle" <=> task'[q] = None
    BY <2>1, <2>3
  <2> QED BY <1>0, <2>1, <2>2, <2>4
<1>4. ASSUME NEW p \in Process, GateFails(p) PROVE DailyTypeOK'
  BY <1>1, <1>2, <1>4 DEF GateFails
<1>5. ASSUME NEW p \in Process, Evaluate(p) PROVE DailyTypeOK'
  BY <1>1, <1>2, <1>5 DEF Evaluate, Saved
<1>6. ASSUME NEW p \in Process, InsertDecision(p) PROVE DailyTypeOK'
  <2>1. decided' \subseteq Snapshot /\ stage[p] # "idle" /\ UNCHANGED <<handed, reported, outage>>
    BY <1>6 DEF InsertDecision, Working
  <2>2. CASE Leave(p)
    BY <1>0, <1>6, <2>1, <2>2 DEF Leave
  <2>3. CASE Goto(p, "ledger") /\ UNCHANGED report
    BY <1>2, <2>1, <2>3
  <2>4. CASE Goto(p, "uncaught") /\ UNCHANGED report
    BY <1>2, <2>1, <2>4
  <2> QED BY <1>6, <2>2, <2>3, <2>4 DEF InsertDecision, Raise, Saved
<1>7. CASE UNCHANGED runVars
  BY <1>0, <1>7 DEF runVars
<1>8. ASSUME NEW p \in Process, NEW appended \in BOOLEAN, pc[p] # "idle", Answered(p, appended)
      PROVE  DailyTypeOK'
  <2>1. stage[p] # "idle" /\ decision[p] \in Snapshot
    BY <1>8 DEF Working
  <2>2. [decision |-> decision[p], appended |-> appended] \in Report
    BY <2>1 DEF Report
  <2>3. CASE task[p] = "daily"
    <3>1. report' \in [Process -> Report \cup {Failed, None}]
      BY <1>8, <2>2, <2>3 DEF Answered
    <3> QED BY <1>2, <1>8, <2>1, <2>3, <3>1 DEF Answered
  <2>4. CASE task[p] # "daily"
    BY <1>1, <1>8, <2>1, <2>4 DEF Answered
  <2> QED BY <2>3, <2>4
<1>9. ASSUME NEW p \in Process, DecideInLedger(p) PROVE DailyTypeOK'
  <2>1. pc[p] # "idle" /\ stage[p] # "idle"
    BY <1>9 DEF DecideInLedger, Decide, Working
  <2>2. CASE Raise(p) /\ UNCHANGED <<decided, handed, reported, outage>>
    BY <1>2, <2>1, <2>2 DEF Raise
  <2> QED BY <1>7, <1>8, <1>9, <2>1, <2>2 DEF DecideInLedger
<1>10. ASSUME NEW p \in Process, RecordInterrupted(p) PROVE DailyTypeOK'
  BY <1>1, <1>10 DEF RecordInterrupted, WriteInterrupted, Working
<1>11. ASSUME NEW p \in Process, SyncRecord(p) PROVE DailyTypeOK'
  BY <1>8, <1>11 DEF SyncRecord, Sync
<1>12. ASSUME NEW p \in Process, Replay(p) PROVE DailyTypeOK'
  BY <1>2, <1>12 DEF Replay, Raise
<1>13. ASSUME NEW p \in Process, WriteOutput(p) PROVE DailyTypeOK'
  BY <1>2, <1>13 DEF WriteOutput
<1>14. ASSUME NEW p \in Process, Archive(p) \/ Exit(p) \/ KillRun(p) PROVE DailyTypeOK'
  BY <1>1, <1>14 DEF Archive, Exit, KillRun
<1>15. CASE Outage
  BY <1>0, <1>15 DEF Outage
<1> QED BY <1>3, <1>4, <1>5, <1>6, <1>7, <1>9, <1>10, <1>11, <1>12, <1>13, <1>14, <1>15
        DEF DailyNext, LockLedger, WriteRecord

LEMMA WorkingStep ==
    ASSUME IInv, RunInv, Grows, DailyNext
    PROVE  \A p \in Process : Working(p)'
<1> USE DEF RunInv, DailyTypeOK, Working, Task, Stage
<1>0. TypeOK /\ Exclusive
  BY DEF IInv
(* A step that leaves the ledger alone, or gives it back. *)
<1>1. ASSUME NEW p \in Process, Leave(p),
             \A q \in Process : pc'[q] = "idle" \/ (pc'[q] = pc[q] /\ snapshot'[q] = snapshot[q]),
             pc'[p] = "idle"
      PROVE  \A q \in Process : Working(q)'
  BY <1>1 DEF Leave, Grows
<1>2. ASSUME NEW p \in Process, NEW to \in Stage, Goto(p, to), stage[p] # "idle",
             to = "ledger" => decision[p] \in decided',
             \A q \in Process : pc'[q] = "idle" \/ (pc'[q] = pc[q] /\ snapshot'[q] = snapshot[q]),
             pc'[p] = "idle"
      PROVE  \A q \in Process : Working(q)'
  BY <1>2 DEF Goto, Grows
<1>3. ASSUME NEW p \in Process, stage[p] # "ledger" PROVE pc[p] = "idle"
  BY <1>3
<1>4. ASSUME NEW p \in Process, Begin(p) PROVE \A q \in Process : Working(q)'
  <2>1. PICK t \in Task, s \in Snapshot :
          /\ task' = [task EXCEPT ![p] = t]
          /\ decision' = [decision EXCEPT ![p] = s]
          /\ stage' = [stage EXCEPT ![p] = IF t = "paper" THEN "ledger" ELSE "evaluate"]
          /\ handed' = IF t = "paper" THEN handed \cup {s} ELSE handed
    BY <1>4 DEF Begin
  <2>2. UNCHANGED <<pc, snapshot, decided>> /\ pc[p] = "idle"
    BY <1>4 DEF Begin, vars
  <2>3. Working(p)'
    BY <2>1, <2>2
  <2>4. ASSUME NEW q \in Process, q # p PROVE Working(q)'
    BY <2>1, <2>2, <2>4 DEF Grows
  <2> QED BY <2>3, <2>4
<1>5. ASSUME NEW p \in Process, GateFails(p) PROVE \A q \in Process : Working(q)'
  BY <1>1, <1>2, <1>3, <1>5 DEF GateFails, vars
<1>6. ASSUME NEW p \in Process, Evaluate(p) PROVE \A q \in Process : Working(q)'
  BY <1>1, <1>2, <1>3, <1>6 DEF Evaluate, Saved, vars
<1>7. ASSUME NEW p \in Process, InsertDecision(p) PROVE \A q \in Process : Working(q)'
  BY <1>1, <1>2, <1>3, <1>7 DEF InsertDecision, Saved, Raise, vars
<1>8. ASSUME NEW p \in Process, LockLedger(p) PROVE \A q \in Process : Working(q)'
  BY <1>0, <1>8 DEF LockLedger, Lock, runVars, TypeOK
(* Who gives the ledger back was the only one that had it. *)
<1>9. ASSUME NEW p \in Process, pc[p] # "idle", Release(p)
      PROVE  \A q \in Process : pc'[q] = "idle"
  BY <1>0, <1>9, Released
<1>10. ASSUME NEW p \in Process, NEW appended, pc[p] # "idle", Release(p), Answered(p, appended)
       PROVE  \A q \in Process : Working(q)'
  BY <1>1, <1>2, <1>9, <1>10 DEF Answered
<1>11. ASSUME NEW p \in Process, DecideInLedger(p) PROVE \A q \in Process : Working(q)'
  <2>1. CASE ~Valid(file)
    BY <1>2, <1>9, <1>11, <2>1 DEF DecideInLedger, Decide, Raise
  <2>2. CASE Valid(file) /\ snapshot[p] \in Replayed(file)
    BY <1>10, <1>11, <2>2 DEF DecideInLedger, Decide
  <2>3. CASE Valid(file) /\ snapshot[p] \notin Replayed(file)
    BY <1>0, <1>11, <2>3 DEF DecideInLedger, Decide, runVars, TypeOK
  <2> QED BY <2>1, <2>2, <2>3
<1>12. ASSUME NEW p \in Process, WriteRecord(p) PROVE \A q \in Process : Working(q)'
  BY <1>0, <1>12 DEF WriteRecord, Write, runVars, TypeOK
<1>13. ASSUME NEW p \in Process, RecordInterrupted(p) PROVE \A q \in Process : Working(q)'
  BY <1>1, <1>9, <1>13 DEF RecordInterrupted, WriteInterrupted
<1>14. ASSUME NEW p \in Process, SyncRecord(p) PROVE \A q \in Process : Working(q)'
  BY <1>10, <1>14 DEF SyncRecord, Sync
<1>15. ASSUME NEW p \in Process, Replay(p) PROVE \A q \in Process : Working(q)'
  BY <1>2, <1>3, <1>15 DEF Replay, Raise, vars
<1>16. ASSUME NEW p \in Process, WriteOutput(p) PROVE \A q \in Process : Working(q)'
  BY <1>2, <1>3, <1>16 DEF WriteOutput, vars
<1>17. ASSUME NEW p \in Process, Archive(p) \/ Exit(p) PROVE \A q \in Process : Working(q)'
  BY <1>1, <1>3, <1>17 DEF Archive, Exit, vars
<1>18. ASSUME NEW p \in Process, KillRun(p) PROVE \A q \in Process : Working(q)'
  <2>1. CASE pc[p] = "idle"
    BY <1>1, <1>18, <2>1 DEF KillRun, vars
  <2>2. CASE pc[p] # "idle"
    BY <1>1, <1>9, <1>18, <2>2 DEF KillRun, Kill
  <2> QED BY <2>1, <2>2
<1>19. CASE Outage
  BY <1>19 DEF Outage, PowerLoss
<1> QED BY <1>4, <1>5, <1>6, <1>7, <1>8, <1>11, <1>12, <1>13, <1>14, <1>15, <1>16, <1>17, <1>18, <1>19
        DEF DailyNext

(* An append that is about to be answered was never answered before.       *)
LEMMA FreshStep ==
    ASSUME IInv, PromisedReplayed, [Next]_vars, \A p \in Process : pc[p] = "sync" => snapshot[p] \notin promised
    PROVE  \A p \in Process : pc'[p] = "sync" => snapshot'[p] \notin promised'
<1>0. TypeOK /\ Exclusive /\ Validated
  BY DEF IInv
<1>1. ASSUME NEW p \in Process, Lock(p) \/ Decide(p) \/ Kill(p) \/ WriteInterrupted(p)
      PROVE  /\ promised' = promised
             /\ \A q \in Process : pc'[q] = "sync" => pc[q] = "sync" /\ snapshot'[q] = snapshot[q]
  BY <1>0, <1>1 DEF Lock, Decide, Kill, WriteInterrupted, Release, TypeOK
<1>2. ASSUME NEW p \in Process, Write(p)
      PROVE  \A q \in Process : pc'[q] = "sync" => snapshot'[q] \notin promised'
  <2>1. snapshot[p] \notin promised
    BY <1>0, <1>2 DEF Write, Validated, PromisedReplayed
  <2> QED BY <1>0, <1>2, <2>1 DEF Write, TypeOK
<1>3. ASSUME NEW p \in Process, Sync(p)
      PROVE  \A q \in Process : pc'[q] # "sync"
  BY <1>0, <1>3, Released DEF Sync
<1>4. PowerLoss => \A q \in Process : pc'[q] # "sync"
  BY DEF PowerLoss
<1>5. CASE UNCHANGED vars
  BY <1>5 DEF vars
<1> QED BY <1>1, <1>2, <1>3, <1>4, <1>5 DEF Next

LEMMA TruthStep ==
    ASSUME IInv, RunInv, Grows, DailyNext
    PROVE  /\ \A r \in reported' : Truthful(r)'
           /\ \A p \in Process, r \in Report : report'[p] = r => Truthful(r)'
<1> USE DEF RunInv, DailyTypeOK
<1>0. /\ \A r \in reported : Truthful(r)'
      /\ \A p \in Process, r \in Report : report[p] = r => Truthful(r)'
  BY TruthKept
<1>1. ASSUME NEW p \in Process, Leave(p)
      PROVE  \A q \in Process, r \in Report : report'[q] = r => report[q] = r
  BY <1>1, FailedAssumption DEF Leave
<1>2. ASSUME NEW p \in Process, NEW appended \in BOOLEAN, pc[p] # "idle", Answered(p, appended),
             Stored(snapshot[p], file'), appended => snapshot[p] \in promised'
      PROVE  /\ reported' = reported
             /\ \A q \in Process, r \in Report : report'[q] = r => report[q] = r \/ Truthful(r)'
  <2>1. CASE task[p] = "daily"
    <3>1. decision[p] \in decided /\ decision[p] = snapshot[p]
      BY <1>2, <2>1 DEF Working
    <3>2. ASSUME NEW r, r = [decision |-> decision[p], appended |-> appended]
          PROVE  Truthful(r)'
      <4>1. r.decision = decision[p] /\ r.appended = appended
        BY <3>2
      <4>2. r.decision \in decided' /\ (r.appended => r.decision \in promised') /\ Stored(r.decision, file')
        BY <1>2, <3>1, <4>1 DEF Grows
      <4> QED BY <4>2 DEF Truthful
    <3>3. /\ report' = [report EXCEPT ![p] = [decision |-> decision[p], appended |-> appended]]
          /\ reported' = reported
      BY <1>2, <2>1 DEF Answered
    <3>4. \A q \in Process, r \in Report :
             report'[q] = r => report[q] = r \/ r = [decision |-> decision[p], appended |-> appended]
      BY <3>3
    <3> QED BY <3>2, <3>3, <3>4
  <2>2. CASE task[p] # "daily"
    BY <1>1, <1>2, <2>2 DEF Answered
  <2> QED BY <2>1, <2>2
<1>3. ASSUME NEW p \in Process, DecideInLedger(p), Valid(file), snapshot[p] \in Replayed(file)
      PROVE  Stored(snapshot[p], file') /\ pc[p] # "idle" /\ Answered(p, FALSE)
  BY <1>3 DEF DecideInLedger, Decide, Replayed, Places, Valid, Lines, Stored
<1>4. ASSUME NEW p \in Process, SyncRecord(p)
      PROVE  Stored(snapshot[p], file') /\ snapshot[p] \in promised' /\ pc[p] # "idle" /\ Answered(p, TRUE)
  BY <1>4 DEF SyncRecord, Sync, IInv, Written
<1>5. ASSUME NEW p \in Process, Begin(p) \/ Replay(p) \/ InsertDecision(p) \/ Evaluate(p) \/ GateFails(p)
      PROVE  reported' = reported /\ \A q \in Process, r \in Report : report'[q] = r => report[q] = r
  BY <1>1, <1>5, FailedAssumption DEF Begin, Replay, InsertDecision, Evaluate, GateFails, Saved, Raise
<1>6. ASSUME NEW p \in Process, WriteOutput(p)
      PROVE  report' = report /\ \A r \in reported' : r \in reported \/ (r = report[p] /\ r \in Report)
  BY <1>6 DEF WriteOutput
<1>7. ASSUME NEW p \in Process, RecordInterrupted(p) \/ Archive(p) \/ Exit(p) \/ KillRun(p)
      PROVE  reported' = reported /\ \A q \in Process, r \in Report : report'[q] = r => report[q] = r
  BY <1>1, <1>7 DEF RecordInterrupted, Archive, Exit, KillRun
<1>8. Outage => reported' = reported /\ \A q \in Process : report'[q] \notin Report
  BY FailedAssumption DEF Outage
<1>9. ASSUME NEW p \in Process, DecideInLedger(p), ~(Valid(file) /\ snapshot[p] \in Replayed(file))
      PROVE  reported' = reported /\ report' = report
  BY <1>9 DEF DecideInLedger, Raise, runVars
<1>10. ASSUME NEW p \in Process, LockLedger(p) \/ WriteRecord(p)
       PROVE  reported' = reported /\ report' = report
  BY <1>10 DEF LockLedger, WriteRecord, runVars
<1>11. CASE \E p \in Process : DecideInLedger(p) /\ Valid(file) /\ snapshot[p] \in Replayed(file)
  BY <1>0, <1>2, <1>3, <1>11
<1>12. CASE \E p \in Process : SyncRecord(p)
  BY <1>0, <1>2, <1>4, <1>12
<1>13. CASE \E p \in Process : WriteOutput(p)
  BY <1>0, <1>6, <1>13
<1> QED BY <1>0, <1>5, <1>7, <1>8, <1>9, <1>10, <1>11, <1>12, <1>13 DEF DailyNext

LEMMA DecidedStep ==
    ASSUME IInv, RunInv, Grows, [Next]_vars
    PROVE  LedgerIsDecided'
<1> USE DEF RunInv
<1>0. /\ file \in Seq(Piece) /\ Len(file) \in Nat /\ Len(disk) \in Nat
      /\ decided \cup handed \subseteq decided' \cup handed'
  BY DEF IInv, TypeOK, Grows
<1>1. CASE file' = file
  BY <1>0, <1>1 DEF LedgerIsDecided, Records
<1>2. ASSUME NEW p \in Process, Write(p) \/ WriteInterrupted(p),
             NEW i \in Records(file')
      PROVE  (i \in Records(file) /\ file'[i] = file[i]) \/ file'[i].snapshot = snapshot[p]
  <2>1. NewRecord(p).snapshot = snapshot[p]
    BY DEF NewRecord
  <2>2. CASE Write(p)
    BY <1>0, <2>1, <2>2, WriteFile DEF Records
  <2>3. CASE WriteInterrupted(p)
    BY <1>0, <2>1, <2>3, InterruptedFile DEF Records
  <2> QED BY <1>2, <2>2, <2>3
<1>3. ASSUME NEW p \in Process, Write(p) \/ WriteInterrupted(p)
      PROVE  LedgerIsDecided'
  <2>1. snapshot[p] \in decided \cup handed
    BY <1>3 DEF Write, WriteInterrupted, Working
  <2> QED BY <1>0, <1>2, <1>3, <2>1 DEF LedgerIsDecided
<1>4. CASE PowerLoss
  <2>1. PICK n \in Nat :
              /\ n <= Len(file)
              /\ file' \in Seq(Piece)
              /\ Len(file') \in {n, n + 1}
              /\ \A i \in 1 .. n : file'[i] = file[i]
              /\ Len(file') = n + 1 => n < Len(file) /\ file'[n + 1] = Torn
    BY <1>4, PowerLossFile
  <2>2. \A i \in Records(file') : i \in Records(file) /\ file'[i] = file[i]
    BY <1>0, <2>1 DEF Records
  <2> QED BY <1>0, <2>2 DEF LedgerIsDecided
<1> QED BY <1>1, <1>3, <1>4 DEF Next, vars, Lock, Decide, Sync, Kill

LEMMA RunStep == IInv /\ IInv' /\ PromisedReplayed /\ RunInv /\ [DailyNext]_allVars => RunInv'
<1> SUFFICES ASSUME IInv, IInv', PromisedReplayed, RunInv, [DailyNext]_allVars PROVE RunInv'
  OBVIOUS
<1>1. CASE DailyNext
  <2>1. Grows /\ [Next]_vars
    BY StepGrows, DailyStepIsLedgerStep
  <2>2. DailyTypeOK'
    BY <1>1, DailyTypeStep DEF RunInv
  <2>3. \A p \in Process : Working(p)'
    BY <1>1, <2>1, WorkingStep
  <2>4. \A p \in Process : pc'[p] = "sync" => snapshot'[p] \notin promised'
    BY <2>1, FreshStep DEF RunInv
  <2>5. /\ \A r \in reported' : Truthful(r)'
        /\ \A p \in Process, r \in Report : report'[p] = r => Truthful(r)'
    BY <1>1, <2>1, TruthStep
  <2>6. LedgerIsDecided'
    BY <2>1, DecidedStep
  <2> QED BY <2>2, <2>3, <2>4, <2>5, <2>6 DEF RunInv
<1>2. CASE UNCHANGED allVars
  BY <1>2 DEF allVars, vars, runVars, RunInv, DailyTypeOK, TypeOK, Working, Truthful, LedgerIsDecided
<1> QED BY <1>1, <1>2

LEMMA RunInvariance == DailySpec => [](IInv /\ RunInv)
<1>1. IInv /\ [DailyNext]_allVars => IInv'
  BY DailyStepIsLedgerStep, NextIInv
<1>2. DailySpec => [](IInv /\ PromisedReplayed)
  BY DailyIsLedger, Invariance, ReplayIsComplete, PTL
<1>3. DailyInit => RunInv
  BY RunInit
<1> QED BY <1>1, <1>2, <1>3, RunStep, PTL DEF DailySpec

-----------------------------------------------------------------------------
(* The variables of the daily run keep their types, and a process without  *)
(* a task is idle.                                                         *)
THEOREM DailyTypeCorrect == DailySpec => []DailyTypeOK
<1>1. RunInv => DailyTypeOK
  BY DEF RunInv
<1> QED BY <1>1, RunInvariance, PTL

(* However runs, requests and paper commands are killed between the two    *)
(* stores: a decision in the ledger has its record or was handed in.       *)
THEOREM OnlyDecidedInLedger == DailySpec => []LedgerIsDecided
<1>1. RunInv => LedgerIsDecided
  BY DEF RunInv
<1> QED BY <1>1, RunInvariance, PTL

(* What the reports of completed runs say of record and ledger is so.      *)
THEOREM CompletedReportsAreTrue == DailySpec => []CompletedIsRecorded
<1>1. IInv /\ RunInv => CompletedIsRecorded
  <2> SUFFICES ASSUME IInv, RunInv, NEW r \in reported
               PROVE  /\ r.decision \in decided
                      /\ r.appended => InLedger(r.decision, disk)
                      /\ ~outage => InLedger(r.decision, file)
    BY DEF CompletedIsRecorded
  <2>1. Truthful(r)
    BY DEF RunInv
  <2> QED BY <2>1 DEF Truthful, IInv, PromisedOnDisk, InLedger, Records, Stored
<1> QED BY <1>1, RunInvariance, PTL

(* No decision is answered or reported as appended a second time.          *)
THEOREM AppendedOnce == DailySpec => []ReportedOnce
<1>1. RunInv => ReportedOnce
  <2> SUFFICES ASSUME RunInv, NEW p \in Process, pc[p] = "sync",
                      [decision |-> snapshot[p], appended |-> TRUE] \in reported
               PROVE  FALSE
    BY DEF ReportedOnce
  <2>1. Truthful([decision |-> snapshot[p], appended |-> TRUE])
    BY DEF RunInv
  <2>2. snapshot[p] \in promised
    BY <2>1 DEF Truthful
  <2> QED BY <2>2 DEF RunInv
<1> QED BY <1>1, RunInvariance, PTL
=============================================================================
