------------------------ MODULE ObservationStoreProofs ------------------------
(***************************************************************************)
(* Proofs about ObservationStore, for any number of overlapping refreshes, *)
(* dates, days and values.                                                 *)
(*                                                                         *)
(* The rows a process sees (View: the committed ones and its own) are a    *)
(* table: distinct values, numbered without gaps, with a last revision.    *)
(* Another process can add committed rows between the SELECT and the       *)
(* INSERT, but only while this one has inserted nothing, and the row the   *)
(* new one follows (Follows) stays.                                        *)
(***************************************************************************)
EXTENDS ObservationStore, SequenceTheorems, TLAPS

Batches == UNION {[S -> Value] : S \in SUBSET Obs}

LEMMA IdleType == Idle \in Job
<1>1. (CHOOSE d \in Day : TRUE) \in Day
  BY DayAssumption
<1>2. << >> \in [{} -> Value]
  OBVIOUS
<1>3. << >> \in UNION {[S -> Value] : S \in SUBSET Obs}
  BY <1>2
<1> QED
  BY <1>1, <1>3 DEF Idle, Job

LEMMA InitType == Init => TypeOK
BY IdleType DEF Init, TypeOK

(* What a step of p does to its own job and to the others'. *)
LEMMA OneJob ==
    ASSUME TypeOK, NEW p \in Process, NEW j \in Job, job' = [job EXCEPT ![p] = j]
    PROVE  /\ job' \in [Process -> Job] /\ job'[p] = j
           /\ \A q \in Process \ {p} : job'[q] = job[q]
BY DEF TypeOK

Collected(p, d, strict, values, S) ==
    [job[p] EXCEPT !.at = "write", !.day = d, !.strict = strict,
                   !.batch = values, !.todo = S]

LEMMA CollectJob ==
    ASSUME TypeOK, NEW p \in Process, Collect(p)
    PROVE  \E d \in Day, strict \in BOOLEAN, S \in SUBSET Obs : \E values \in [S -> Value] :
              /\ job' = [job EXCEPT ![p] = Collected(p, d, strict, values, S)]
              /\ Collected(p, d, strict, values, S) \in Job
<1>1. PICK d \in Day, strict \in BOOLEAN, S \in SUBSET Obs : \E values \in [S -> Value] :
          job' = [job EXCEPT ![p].at = "write", ![p].day = d, ![p].strict = strict,
                             ![p].batch = values, ![p].todo = S]
  BY ZenonT(60) DEF Collect
<1>2. PICK values \in [S -> Value] :
          job' = [job EXCEPT ![p].at = "write", ![p].day = d, ![p].strict = strict,
                             ![p].batch = values, ![p].todo = S]
  BY <1>1
<1>3. values \in UNION {[X -> Value] : X \in SUBSET Obs}
  OBVIOUS
<1>4. job[p] \in Job
  BY DEF TypeOK
<1>5. Collected(p, d, strict, values, S) \in Job
  BY <1>3, <1>4 DEF Collected, Job
<1>6. job' = [job EXCEPT ![p] = Collected(p, d, strict, values, S)]
  BY <1>2 DEF Collected, TypeOK
<1> QED
  BY <1>5, <1>6

-----------------------------------------------------------------------------
(***************************************************************************)
(* The table                                                               *)
(***************************************************************************)

View(p) == rows \cup job[p].inserted

SameVintage(q, r) == q.obs = r.obs /\ q.vintage = r.vintage

Unique(S) ==
    \A q, r \in S : SameVintage(q, r) /\ (q.seq = r.seq \/ q.value = r.value) => q = r

Dense(S) ==
    \A r \in S : \A n \in Nat : n < r.seq => \E q \in S : SameVintage(q, r) /\ q.seq = n

Topped(S) ==
    \A r \in S : \E t \in S : /\ SameVintage(t, r)
                              /\ \A q \in S : SameVintage(q, r) => q.seq <= t.seq

Table(S) == Unique(S) /\ Dense(S) /\ Topped(S)

(* The row is the first of its vintage in S, or the one before it is there. *)
Follows(row, S) ==
    row.seq = 0 \/ \E q \in S : SameVintage(q, row) /\ row.seq = q.seq + 1

JobOK(p) ==
    LET j == job[p]
    IN /\ j.at = "idle" \/ lock # p => j.inserted = {}
       /\ j.todo \subseteq DOMAIN j.batch
       /\ \A r \in j.inserted : r.vintage = j.day /\ r.obs \in (DOMAIN j.batch) \ j.todo
       /\ \A q, r \in j.inserted : q.obs = r.obs => q = r
       /\ j.at = "insert" =>
             /\ j.candidate \in Row /\ j.candidate.obs \in j.todo
             /\ j.candidate.vintage = j.day
             /\ j.candidate.value = j.batch[j.candidate.obs]
             /\ Follows(j.candidate, View(p))
       /\ j.at # "idle" /\ ~j.conflicts =>
             \A o \in (DOMAIN j.batch) \ j.todo :
                 \E r \in View(p) : r.obs = o /\ r.vintage = j.day /\ r.value = j.batch[o]

IInv ==
    /\ TypeOK
    /\ Table(rows)
    /\ \A p \in Process : Table(View(p)) /\ JobOK(p)

LEMMA InitIInv == Init => IInv
<1> SUFFICES ASSUME Init PROVE IInv
  OBVIOUS
<1>1. rows = {} /\ \A p \in Process : job[p] = Idle
  BY DEF Init
<1>2. Idle.at = "idle" /\ Idle.inserted = {} /\ Idle.todo = {}
  BY DEF Idle
<1>3. Table({})
  BY DEF Table, Unique, Dense, Topped
<1>4. \A p \in Process : Table(View(p)) /\ JobOK(p)
  BY <1>1, <1>2, <1>3 DEF View, JobOK
<1> QED
  BY <1>1, <1>3, <1>4, InitType DEF IInv

(* One more row, which nothing clashes with and which follows another. *)
LEMMA AddRow ==
    ASSUME NEW S \in SUBSET Row, Table(S), NEW row \in Row, Follows(row, S),
           \A r \in S : SameVintage(r, row) => r.seq # row.seq /\ r.value # row.value
    PROVE  Table(S \cup {row})
<1>1. \A r \in S \cup {row} : r.seq \in Nat
  BY DEF Row
<1>2. Unique(S \cup {row})
  BY DEF Table, Unique, SameVintage
<1>3. Dense(S \cup {row})
  <2>1. ASSUME NEW r \in S, NEW n \in Nat, n < r.seq
        PROVE  \E q \in S \cup {row} : SameVintage(q, r) /\ q.seq = n
    BY <2>1 DEF Table, Dense
  <2>2. ASSUME NEW n \in Nat, n < row.seq
        PROVE  \E q \in S \cup {row} : SameVintage(q, row) /\ q.seq = n
    <3>1. PICK q \in S : SameVintage(q, row) /\ row.seq = q.seq + 1
      BY <2>2, <1>1 DEF Follows
    <3>2. n = q.seq \/ n < q.seq
      BY <1>1, <2>2, <3>1
    <3>3. CASE n < q.seq
      <4>1. PICK u \in S : SameVintage(u, q) /\ u.seq = n
        BY <3>3 DEF Table, Dense
      <4> QED
        BY <3>1, <4>1 DEF SameVintage
    <3> QED
      BY <3>1, <3>2, <3>3
  <2> QED
    BY <2>1, <2>2 DEF Dense
<1>4. Topped(S \cup {row})
  <2>1. ASSUME NEW r \in S \cup {row}
        PROVE  \E t \in S \cup {row} :
                  /\ SameVintage(t, r)
                  /\ \A q \in S \cup {row} : SameVintage(q, r) => q.seq <= t.seq
    <3>1. CASE \E x \in S : SameVintage(x, r)
      <4>1. PICK x \in S : SameVintage(x, r)
        BY <3>1
      <4>2. PICK t \in S : /\ SameVintage(t, x)
                           /\ \A q \in S : SameVintage(q, x) => q.seq <= t.seq
        BY DEF Table, Topped
      <4>3. \A q \in S \cup {row} : SameVintage(q, r) <=> SameVintage(q, x)
        BY <4>1 DEF SameVintage
      <4>4. CASE SameVintage(row, r) /\ row.seq > t.seq
        BY <1>1, <4>2, <4>3, <4>4
      <4>5. CASE ~SameVintage(row, r) \/ row.seq <= t.seq
        BY <4>2, <4>3, <4>5
      <4> QED
        BY <1>1, <4>4, <4>5
    <3>2. CASE \A x \in S : ~SameVintage(x, r)
      <4>1. r = row
        BY <2>1, <3>2 DEF SameVintage
      <4> QED
        BY <1>1, <3>2, <4>1 DEF SameVintage
    <3> QED
      BY <3>1, <3>2
  <2> QED
    BY <2>1 DEF Topped
<1> QED
  BY <1>2, <1>3, <1>4 DEF Table

(* NextSeq: one more than the last of what is there. *)
LEMMA NextSeqFollows ==
    ASSUME NEW E \in SUBSET Row,
           E = {} \/ \E t \in E : \A q \in E : q.seq <= t.seq
    PROVE  /\ NextSeq(E) \in Nat
           /\ NextSeq(E) = 0 \/ \E q \in E : NextSeq(E) = q.seq + 1
<1>1. CASE E = {}
  BY <1>1 DEF NextSeq
<1>2. CASE E # {}
  <2> DEFINE top(n) == \A r \in E : r.seq <= n
  <2>1. \E n \in {r.seq : r \in E} : top(n)
    BY <1>2
  <2>2. (CHOOSE n \in {r.seq : r \in E} : top(n)) \in {r.seq : r \in E}
    BY <2>1
  <2>3. PICK q \in E : q.seq = CHOOSE n \in {r.seq : r \in E} : top(n)
    BY <2>2
  <2>4. NextSeq(E) = 1 + q.seq
    BY <1>2, <2>3 DEF NextSeq
  <2>5. q.seq \in Nat
    BY DEF Row
  <2> QED
    BY <2>4, <2>5
<1> QED
  BY <1>1, <1>2

-----------------------------------------------------------------------------
(* One lemma for each action *)

(* What another process knows survives while the committed rows only grow  *)
(* under it, and do so only if it has inserted nothing.                    *)
LEMMA OtherJob ==
    ASSUME NEW q \in Process, JobOK(q), job'[q] = job[q], lock' = q <=> lock = q,
           rows \subseteq rows'
    PROVE  JobOK(q)'
<1>1. View(q) \subseteq View(q)'
  BY DEF View
<1>2. \A row : Follows(row, View(q)) => Follows(row, View(q)')
  BY <1>1 DEF Follows
<1> QED
  BY <1>1, <1>2 DEF JobOK

(* A step of p that commits nothing. *)
LEMMA OwnStep ==
    ASSUME IInv, NEW p \in Process, NEW j \in Job, job' = [job EXCEPT ![p] = j],
           rows' = rows, lock' \in Process \cup {None},
           \A q \in Process \ {p} : lock' = q <=> lock = q,
           Table(rows \cup j.inserted), JobOK(p)'
    PROVE  IInv'
<1>1. /\ job' \in [Process -> Job] /\ job'[p] = j
      /\ \A q \in Process \ {p} : job'[q] = job[q]
  BY OneJob DEF IInv
<1>2. TypeOK'
  BY <1>1 DEF IInv, TypeOK
<1>3. ASSUME NEW q \in Process PROVE Table(View(q))' /\ JobOK(q)'
  <2>1. CASE q = p
    BY <1>1, <2>1 DEF View
  <2>2. CASE q # p
    <3>1. View(q)' = View(q)
      BY <1>1, <2>2 DEF View
    <3> QED
      BY <1>1, <2>2, <3>1, OtherJob DEF IInv
  <2> QED
    BY <2>1, <2>2
<1> QED
  BY <1>2, <1>3 DEF IInv

LEMMA CollectStep ==
    ASSUME IInv, NEW p \in Process, Collect(p)
    PROVE  IInv'
<1>1. PICK d \in Day, strict \in BOOLEAN, S \in SUBSET Obs : \E values \in [S -> Value] :
          /\ job' = [job EXCEPT ![p] = Collected(p, d, strict, values, S)]
          /\ Collected(p, d, strict, values, S) \in Job
  BY CollectJob DEF IInv
<1>2. PICK values \in [S -> Value] :
          /\ job' = [job EXCEPT ![p] = Collected(p, d, strict, values, S)]
          /\ Collected(p, d, strict, values, S) \in Job
  BY <1>1
<1> DEFINE j == Collected(p, d, strict, values, S)
<1>3. /\ j.at = "write" /\ j.batch = values /\ j.todo = S /\ j.inserted = job[p].inserted
  BY DEF Collected, IInv, TypeOK, Job
<1>4. job[p].inserted = {} /\ UNCHANGED <<rows, lock>>
  BY DEF IInv, JobOK, Collect
<1>5. job'[p] = j
  BY <1>2 DEF IInv, TypeOK
<1> HIDE DEF j
<1>6. JobOK(p)'
  BY <1>3, <1>4, <1>5 DEF JobOK
<1>7. Table(rows \cup j.inserted) /\ lock' \in Process \cup {None}
  BY <1>3, <1>4 DEF IInv, TypeOK
<1> QED
  BY <1>2, <1>4, <1>6, <1>7, OwnStep DEF j

(* The rows a SELECT returns are of one vintage and have a last one. *)
LEMMA SelectedTop ==
    ASSUME IInv, NEW p \in Process, NEW o \in Obs, NEW E,
           E \in {Existing(p, o), {r \in Existing(p, o) : r.seq = 0}}
    PROVE  /\ E \in SUBSET Row /\ E \subseteq View(p)
           /\ \A r \in E : r.obs = o /\ r.vintage = job[p].day
           /\ E = {} \/ \E t \in E : \A q \in E : q.seq <= t.seq
<1>1. View(p) \subseteq Row
  BY DEF IInv, TypeOK, Job, View
<1>2. E \subseteq View(p) /\ \A r \in E : r.obs = o /\ r.vintage = job[p].day
  BY DEF Existing, View
<1>3. \A r \in E : r.seq \in Nat
  BY <1>1, <1>2 DEF Row
<1>4. E = {r \in Existing(p, o) : r.seq = 0} =>
         E = {} \/ \E t \in E : \A q \in E : q.seq <= t.seq
  <2>1. SUFFICES ASSUME E = {r \in Existing(p, o) : r.seq = 0}, NEW t \in E
                 PROVE  \A q \in E : q.seq <= t.seq
    OBVIOUS
  <2>2. \A q \in E : q.seq = 0
    BY <2>1
  <2> QED
    BY <2>2
<1>5. E = Existing(p, o) => E = {} \/ \E t \in E : \A q \in E : q.seq <= t.seq
  <2> SUFFICES ASSUME E = Existing(p, o)
               PROVE  E = {} \/ \E t \in E : \A q \in E : q.seq <= t.seq
    OBVIOUS
  <2>1. ASSUME NEW x \in E
        PROVE  \E t \in E : \A q \in E : q.seq <= t.seq
    <3>1. Topped(View(p))
      BY DEF IInv, Table
    <3>2. PICK t \in View(p) : /\ SameVintage(t, x)
                               /\ \A q \in View(p) : SameVintage(q, x) => q.seq <= t.seq
      BY <1>2, <3>1 DEF Topped
    <3>3. t \in E
      BY <1>2, <3>2 DEF SameVintage, Existing, View
    <3> QED
      BY <1>2, <3>2, <3>3 DEF SameVintage
  <2> QED
    BY <2>1
<1> QED
  BY <1>1, <1>2, <1>4, <1>5

LEMMA SelectStep ==
    ASSUME IInv, NEW p \in Process, NEW o \in Obs, Select(p, o)
    PROVE  IInv'
<1> DEFINE E == IF job[p].strict THEN {r \in Existing(p, o) : r.seq = 0} ELSE Existing(p, o)
           row == [obs |-> o, vintage |-> job[p].day, seq |-> NextSeq(E),
                   value |-> job[p].batch[o]]
           same == \E r \in E : r.value = row.value
           skipped == [job[p] EXCEPT !.todo = @ \ {o}, !.conflicts = @ \/ ~same]
           found == [job[p] EXCEPT !.at = "insert", !.candidate = row]
<1>1. /\ job[p] \in Job /\ o \in job[p].todo /\ job[p].at = "write"
      /\ UNCHANGED <<rows, lock>> /\ lock \in Process \cup {None}
      /\ JobOK(p) /\ Table(rows \cup job[p].inserted)
  BY DEF Select, IInv, TypeOK, View
<1>2. /\ E \in SUBSET Row /\ E \subseteq View(p)
      /\ \A r \in E : r.obs = o /\ r.vintage = job[p].day
      /\ E = {} \/ \E t \in E : \A q \in E : q.seq <= t.seq
  BY SelectedTop
<1>3. job' = [job EXCEPT ![p] = skipped] \/ job' = [job EXCEPT ![p] = found]
  BY DEF Select, IInv, TypeOK
<1> HIDE DEF E
<1>4. NextSeq(E) \in Nat /\ (NextSeq(E) = 0 \/ \E q \in E : NextSeq(E) = q.seq + 1)
  BY <1>2, NextSeqFollows
<1>5. row \in Row
  <2>1. job[p].batch \in UNION {[S -> Value] : S \in SUBSET Obs} /\ job[p].day \in Day
    BY <1>1 DEF Job
  <2>2. o \in DOMAIN job[p].batch
    BY <1>1 DEF JobOK
  <2>3. job[p].batch[o] \in Value
    BY <2>1, <2>2
  <2> QED
    BY <1>4, <2>1, <2>3 DEF Row
<1>6. Follows(row, View(p))
  BY <1>2, <1>4 DEF Follows, SameVintage
<1>7. CASE job' = [job EXCEPT ![p] = skipped]
  <2> HIDE DEF same
  <2>1. PICK c \in BOOLEAN : c = (job[p].conflicts \/ ~same)
    OBVIOUS
  <2> DEFINE j == [job[p] EXCEPT !.todo = @ \ {o}, !.conflicts = c]
  <2>2. job' = [job EXCEPT ![p] = j]
    BY <1>7, <2>1, Zenon
  <2>3. j \in Job
    BY <1>1 DEF Job
  <2>4. /\ j.at = "write" /\ j.day = job[p].day /\ j.batch = job[p].batch
        /\ j.todo = job[p].todo \ {o} /\ j.inserted = job[p].inserted /\ j.conflicts = c
    BY <1>1 DEF Job
  <2> HIDE DEF j
  <2>5. job'[p] = j
    BY <2>2 DEF IInv, TypeOK
  <2>6. View(p)' = View(p)
    BY <1>1, <2>4, <2>5 DEF View
  <2>7. ~c => ~job[p].conflicts /\ \E r \in View(p) :
                 r.obs = o /\ r.vintage = job[p].day /\ r.value = job[p].batch[o]
    <3>1. ~c => ~job[p].conflicts /\ same
      BY <2>1
    <3>2. same => \E r \in View(p) :
                     r.obs = o /\ r.vintage = job[p].day /\ r.value = job[p].batch[o]
      BY <1>2 DEF same
    <3> QED
      BY <3>1, <3>2
  <2>8. ASSUME ~c, NEW x \in (DOMAIN job[p].batch) \ (job[p].todo \ {o})
        PROVE  \E r \in View(p) :
                  r.obs = x /\ r.vintage = job[p].day /\ r.value = job[p].batch[x]
    BY <1>1, <2>7, <2>8 DEF JobOK
  <2>9. JobOK(p)'
    BY <1>1, <2>4, <2>5, <2>6, <2>8 DEF JobOK
  <2> QED
    BY <1>1, <2>2, <2>3, <2>4, <2>9, OwnStep
<1>8. CASE job' = [job EXCEPT ![p] = found]
  <2> HIDE DEF row
  <2>1. found \in Job
    BY <1>1, <1>5 DEF Job
  <2>2. /\ found.at = "insert" /\ found.day = job[p].day /\ found.batch = job[p].batch
        /\ found.todo = job[p].todo /\ found.inserted = job[p].inserted
        /\ found.conflicts = job[p].conflicts /\ found.candidate = row
    BY <1>1 DEF Job
  <2>3. row.obs = o /\ row.vintage = job[p].day /\ row.value = job[p].batch[o]
    BY DEF row
  <2> HIDE DEF found
  <2>4. job'[p] = found
    BY <1>8 DEF IInv, TypeOK
  <2>5. View(p)' = View(p)
    BY <1>1, <2>2, <2>4 DEF View
  <2>6. JobOK(p)'
    BY <1>1, <1>5, <1>6, <2>2, <2>3, <2>4, <2>5 DEF JobOK
  <2> QED
    BY <1>1, <1>8, <2>1, <2>2, <2>6, OwnStep
<1> QED
  BY <1>3, <1>7, <1>8

(* A batch that is rolled back. *)
LEMMA RolledBack ==
    ASSUME IInv, NEW p \in Process, job' = [job EXCEPT ![p] = Idle], rows' = rows,
           lock' = None \/ lock' = lock, lock = p \/ lock = None => lock' = None,
           lock' = None => lock \in {None, p}
    PROVE  IInv'
<1>1. lock' \in Process \cup {None}
  BY DEF IInv, TypeOK
<1>2. \A q \in Process \ {p} : lock' = q <=> lock = q
  BY NoneAssumption
<1>3. /\ Idle.inserted = {} /\ Idle.at = "idle" /\ Idle.todo = {} /\ Idle \in Job
  BY IdleType DEF Idle
<1>4. job'[p] = Idle
  BY DEF IInv, TypeOK
<1>5. JobOK(p)'
  BY <1>3, <1>4 DEF JobOK
<1>6. Table(rows \cup Idle.inserted)
  BY <1>3 DEF IInv
<1> QED
  BY <1>1, <1>2, <1>3, <1>5, <1>6, OwnStep

LEMMA InsertStep ==
    ASSUME IInv, NEW p \in Process, Insert(p)
    PROVE  IInv'
<1> DEFINE row == job[p].candidate
           clash == Clash(p, row)
           own == IF clash THEN job[p].inserted ELSE job[p].inserted \cup {row}
<1>1. /\ job[p] \in Job /\ job[p].at = "insert" /\ lock \in {None, p} /\ rows' = rows
      /\ JobOK(p) /\ Table(View(p)) /\ rows \subseteq Row
  BY DEF Insert, IInv, TypeOK
<1>2. CASE job' = [job EXCEPT ![p] = Idle] /\ lock' = None
  BY <1>1, <1>2, RolledBack
<1>3. CASE /\ job' = [job EXCEPT ![p].at = "write", ![p].todo = @ \ {row.obs},
                                 ![p].candidate = None, ![p].inserted = own,
                                 ![p].conflicts = @ \/ clash]
           /\ lock' = p
  <2>1. /\ row \in Row /\ row.obs \in job[p].todo /\ row.vintage = job[p].day
        /\ row.value = job[p].batch[row.obs] /\ Follows(row, View(p))
    BY <1>1 DEF JobOK
  <2> HIDE DEF clash, row
  <2>2. PICK c \in BOOLEAN : c = (job[p].conflicts \/ clash)
    OBVIOUS
  <2> DEFINE j == [job[p] EXCEPT !.at = "write", !.todo = @ \ {row.obs},
                                 !.candidate = None, !.inserted = own, !.conflicts = c]
  <2>3. job' = [job EXCEPT ![p] = j]
    <3>1. job' = [job EXCEPT ![p] = [job[p] EXCEPT !.at = "write", !.todo = @ \ {row.obs},
                                         !.candidate = None, !.inserted = own,
                                         !.conflicts = @ \/ clash]]
      BY <1>3 DEF IInv, TypeOK
    <3> HIDE DEF own
    <3> QED
      BY <2>2, <3>1, Zenon
  <2>4. own \in SUBSET Row /\ job[p].inserted \subseteq own
        /\ own \subseteq job[p].inserted \cup {row}
    BY <1>1, <2>1 DEF Job
  <2>5. Table(rows \cup own)
    <3>1. CASE clash
      BY <1>1, <3>1 DEF View
    <3>2. CASE ~clash
      <4>1. View(p) \in SUBSET Row
        BY <1>1 DEF View, Job
      <4>2. \A r \in View(p) : SameVintage(r, row) => r.seq # row.seq /\ r.value # row.value
        BY <3>2 DEF clash, Clash, View, SameVintage
      <4>3. Table(View(p) \cup {row})
        BY <1>1, <2>1, <4>1, <4>2, AddRow
      <4>4. View(p) \cup {row} = rows \cup own
        BY <3>2 DEF View
      <4> QED
        BY <4>3, <4>4
    <3> QED
      BY <3>1, <3>2
  <2>6. ~clash => row \in own
    OBVIOUS
  <2> HIDE DEF own
  <2>7. j \in Job
    BY <1>1, <2>4 DEF Job
  <2>8. /\ j.at = "write" /\ j.day = job[p].day /\ j.batch = job[p].batch
        /\ j.todo = job[p].todo \ {row.obs} /\ j.inserted = own /\ j.conflicts = c
    BY <1>1 DEF Job
  <2> HIDE DEF j
  <2>9. job'[p] = j /\ View(p)' = rows \cup own
    <3>1. job'[p] = j
      BY <2>3 DEF IInv, TypeOK
    <3> QED
      BY <1>1, <2>8, <3>1 DEF View
  <2>10. \A r \in own : r.vintage = j.day /\ r.obs \in (DOMAIN j.batch) \ j.todo
    BY <1>1, <2>1, <2>4, <2>8 DEF JobOK
  <2>11. \A q, r \in own : q.obs = r.obs => q = r
    BY <1>1, <2>1, <2>4 DEF JobOK
  <2>12. ASSUME ~c, NEW x \in (DOMAIN job[p].batch) \ (job[p].todo \ {row.obs})
         PROVE  \E r \in rows \cup own :
                   r.obs = x /\ r.vintage = job[p].day /\ r.value = job[p].batch[x]
    <3>1. ~clash /\ ~job[p].conflicts
      BY <2>2, <2>12
    <3>2. CASE x = row.obs
      BY <2>1, <2>6, <3>1, <3>2
    <3>3. CASE x # row.obs
      <4>1. PICK r \in View(p) :
               r.obs = x /\ r.vintage = job[p].day /\ r.value = job[p].batch[x]
        BY <1>1, <2>12, <3>1, <3>3 DEF JobOK
      <4> QED
        BY <2>4, <4>1 DEF View
    <3> QED
      BY <3>2, <3>3
  <2>13. JobOK(p)'
    <3>1. j.todo \subseteq DOMAIN j.batch
      BY <1>1, <2>8 DEF JobOK
    <3>2. j.at # "idle" /\ j.at # "insert" /\ lock' = p
      BY <1>3, <2>8
    <3>3. ~j.conflicts => \A o \in (DOMAIN j.batch) \ j.todo :
             \E r \in rows \cup own : r.obs = o /\ r.vintage = j.day /\ r.value = j.batch[o]
      BY <2>8, <2>12
    <3> QED
      BY <2>8, <2>9, <2>10, <2>11, <3>1, <3>2, <3>3 DEF JobOK
  <2>14. \A q \in Process \ {p} : lock' = q <=> lock = q
    BY <1>1, <1>3, NoneAssumption
  <2> QED
    BY <1>1, <1>3, <2>3, <2>5, <2>7, <2>8, <2>13, <2>14, OwnStep
<1> QED
  BY <1>2, <1>3 DEF Insert

LEMMA CommitStep ==
    ASSUME IInv, NEW p \in Process, Commit(p)
    PROVE  IInv'
<1>1. /\ job' = [job EXCEPT ![p] = Idle] /\ rows' = View(p) /\ rows \subseteq rows'
      /\ lock' = IF lock = p THEN None ELSE lock
  BY DEF Commit, Free, View
<1>2. /\ job' \in [Process -> Job] /\ job'[p] = Idle
      /\ \A q \in Process \ {p} : job'[q] = job[q]
  BY <1>1, IdleType, OneJob DEF IInv
<1>3. View(p) \subseteq Row
  BY DEF View, IInv, TypeOK, Job
<1>4. TypeOK'
  BY <1>1, <1>2, <1>3 DEF IInv, TypeOK
<1>5. Table(rows')
  BY <1>1 DEF IInv
<1>6. ASSUME NEW q \in Process PROVE Table(View(q))' /\ JobOK(q)'
  <2>1. CASE q = p
    <3>1. Idle.inserted = {} /\ Idle.at = "idle" /\ Idle.todo = {}
      BY DEF Idle
    <3> QED
      BY <1>2, <1>5, <2>1, <3>1 DEF View, JobOK
  <2>2. CASE q # p
    <3>1. JobOK(q)'
      BY <1>1, <1>2, <2>2, NoneAssumption, OtherJob DEF IInv
    <3>2. CASE lock = p
      <4>1. job[q].inserted = {}
        BY <2>2, <3>2 DEF IInv, JobOK
      <4> QED
        BY <1>2, <1>5, <2>2, <3>1, <4>1 DEF View
    <3>3. CASE lock # p
      <4>1. rows' = rows
        BY <1>1, <3>3 DEF IInv, JobOK, View
      <4>2. View(q)' = View(q)
        BY <1>2, <2>2, <4>1 DEF View
      <4> QED
        BY <3>1, <4>2 DEF IInv
    <3> QED
      BY <3>2, <3>3
  <2> QED
    BY <2>1, <2>2
<1> QED
  BY <1>4, <1>5, <1>6 DEF IInv

LEMMA NextIInv == IInv /\ [Next]_vars => IInv'
<1> SUFFICES ASSUME IInv, [Next]_vars PROVE IInv'
  OBVIOUS
<1>1. ASSUME NEW p \in Process, Abort(p) PROVE IInv'
  BY <1>1, RolledBack DEF Abort, Free
<1>2. ASSUME UNCHANGED vars PROVE IInv'
  <2>1. TypeOK' /\ Table(rows')
    BY <1>2 DEF vars, IInv, TypeOK
  <2>2. ASSUME NEW p \in Process PROVE Table(View(p))' /\ JobOK(p)'
    <3>1. View(p)' = View(p)
      BY <1>2 DEF vars, View
    <3> QED
      BY <1>2, <3>1, OtherJob DEF vars, IInv
  <2> QED
    BY <2>1, <2>2 DEF IInv
<1> QED
  BY <1>1, <1>2, CollectStep, SelectStep, InsertStep, CommitStep DEF Next

LEMMA Invariance == Spec => []IInv
<1> QED
  BY InitIInv, NextIInv, PTL DEF Spec

-----------------------------------------------------------------------------
(* Every row, lock and job keeps its type: among others the number of a    *)
(* new revision, a maximum, is one.                                        *)
THEOREM TypeCorrect == Spec => []TypeOK
<1>1. IInv => TypeOK
  BY DEF IInv
<1> QED
  BY Invariance, <1>1, PTL

(* A refresh that answers without a conflict has stored all its values,    *)
(* whoever wrote between its SELECTs and its INSERTs.                      *)
THEOREM AnswersAreStored == Spec => AnsweredIsStored
<1>1. ASSUME IInv, NEW p \in Process, Commit(p), ~job[p].conflicts,
             NEW o \in DOMAIN job[p].batch
      PROVE  \E r \in rows' : /\ r.obs = o /\ r.vintage = job[p].day
                              /\ r.value = job[p].batch[o]
  BY <1>1 DEF IInv, JobOK, Commit, View
<1>2. IInv /\ [Next]_vars =>
         [\A p \in Process : Commit(p) /\ ~job[p].conflicts =>
             \A o \in DOMAIN job[p].batch :
                 \E r \in rows' : /\ r.obs = o /\ r.vintage = job[p].day
                                  /\ r.value = job[p].batch[o]]_vars
  BY <1>1
<1> QED
  BY Invariance, <1>2, PTL DEF Spec, AnsweredIsStored

(* The rows change only when a refresh commits. *)
LEMMA OnlyCommits ==
    ASSUME [Next]_vars, rows' # rows
    PROVE  \E p \in Process : Commit(p)
<1>1. rows' = rows \/ Next
  BY DEF vars
<1>2. \A p \in Process : Collect(p) \/ Insert(p) \/ Abort(p) => rows' = rows
  BY DEF Collect, Insert, Abort
<1>3. \A p \in Process, o \in Obs : Select(p, o) => rows' = rows
  BY DEF Select
<1> QED
  BY <1>1, <1>2, <1>3 DEF Next

(* A refresh changes no answer for a day before its own. *)
THEOREM OlderAnswersStay == Spec => OlderAnswersKept
<1>1. ASSUME IInv, [Next]_vars, rows' # rows, NEW o \in Obs, NEW d \in Day,
             AsOf(o, d)' # AsOf(o, d)
      PROVE  \E p \in Process : Commit(p) /\ job[p].day <= d
  <2>1. PICK p \in Process : Commit(p)
    BY <1>1, OnlyCommits
  <2>2. rows' = rows \cup job[p].inserted /\ \A r \in job[p].inserted : r.vintage = job[p].day
    BY <1>1, <2>1 DEF Commit, IInv, JobOK
  <2>3. CASE job[p].day <= d
    BY <2>1, <2>3
  <2>4. CASE ~(job[p].day <= d)
    <3>1. Visible(o, d)' = Visible(o, d)
      BY <2>2, <2>4 DEF Visible
    <3>2. AsOf(o, d)' = AsOf(o, d)
      BY <3>1 DEF AsOf
    <3> QED
      BY <1>1, <3>2
  <2> QED
    BY <2>3, <2>4
<1>2. IInv /\ [Next]_vars =>
         [rows' # rows => \A o \in Obs, d \in Day : AsOf(o, d)' # AsOf(o, d) =>
             \E p \in Process : Commit(p) /\ job[p].day <= d]_vars
  BY <1>1
<1> QED
  BY Invariance, <1>2, PTL DEF Spec, OlderAnswersKept

-----------------------------------------------------------------------------
(***************************************************************************)
(* The refinement: the revisions of a vintage, in order, are the log.      *)
(***************************************************************************)

Here(S, o, d) == {r \in S : r.obs = o /\ r.vintage = d}

RevisionsIn(S, o, d) ==
    [i \in {r.seq + 1 : r \in Here(S, o, d)} |->
        (CHOOSE r \in Here(S, o, d) : r.seq + 1 = i).value]

LEMMA SeqOf ==
    ASSUME NEW n \in Nat, NEW f \in [1..n -> Value]
    PROVE  f \in Seq(Value) /\ Len(f) = n
OBVIOUS

(* The revisions of a vintage are a sequence of the values of its rows.    *)
LEMMA RevisionsAreSeq ==
    ASSUME NEW S \in SUBSET Row, Table(S), NEW o, NEW d, Here(S, o, d) # {}
    PROVE  \E t \in Here(S, o, d) :
              /\ \A q \in Here(S, o, d) : q.seq <= t.seq
              /\ RevisionsIn(S, o, d) \in Seq(Value)
              /\ Len(RevisionsIn(S, o, d)) = t.seq + 1
              /\ \A r \in Here(S, o, d) : RevisionsIn(S, o, d)[r.seq + 1] = r.value
              /\ \A i \in 1..(t.seq + 1) : \E r \in Here(S, o, d) : r.seq + 1 = i
<1> DEFINE H == Here(S, o, d)
           f == RevisionsIn(S, o, d)
<1>1. H \subseteq S /\ \A r \in H : r.seq \in Nat /\ r.value \in Value
  BY DEF Here, Row
<1>2. \A q, r \in H : SameVintage(q, r)
  BY DEF Here, SameVintage
<1>3. PICK t \in H : \A q \in H : q.seq <= t.seq
  <2>1. PICK x \in H : TRUE
    OBVIOUS
  <2>2. PICK t \in S : /\ SameVintage(t, x)
                       /\ \A q \in S : SameVintage(q, x) => q.seq <= t.seq
    BY <1>1 DEF Table, Topped
  <2>3. t \in H
    BY <2>1, <2>2 DEF Here, SameVintage
  <2> QED
    BY <1>1, <1>2, <2>2, <2>3
<1>4. ASSUME NEW i \in 1..(t.seq + 1)
      PROVE  \E r \in H : r.seq + 1 = i
  <2>1. i - 1 \in Nat /\ (i - 1 = t.seq \/ i - 1 < t.seq)
    BY <1>1
  <2>2. CASE i - 1 < t.seq
    <3>1. PICK q \in S : SameVintage(q, t) /\ q.seq = i - 1
      BY <1>1, <2>1, <2>2 DEF Table, Dense
    <3>2. q \in H
      BY <3>1 DEF Here, SameVintage
    <3> QED
      BY <3>1, <3>2
  <2> QED
    BY <1>1, <2>1, <2>2
<1>5. {r.seq + 1 : r \in H} = 1..(t.seq + 1)
  <2>1. \A r \in H : r.seq + 1 \in 1..(t.seq + 1)
    BY <1>1, <1>3
  <2> QED
    BY <1>4, <2>1
<1>6. \A q, r \in H : q.seq = r.seq => q = r
  BY <1>1, <1>2 DEF Table, Unique
<1>7. ASSUME NEW r \in H PROVE f[r.seq + 1] = r.value
  <2>1. \A q \in H : q.seq + 1 = r.seq + 1 => q = r
    BY <1>1, <1>6
  <2>2. (CHOOSE q \in H : q.seq + 1 = r.seq + 1) = r
    BY <2>1
  <2> QED
    BY <2>2 DEF RevisionsIn
<1>8. f \in [1..(t.seq + 1) -> Value]
  <2>1. DOMAIN f = 1..(t.seq + 1) /\ f = [i \in 1..(t.seq + 1) |-> f[i]]
    BY <1>5 DEF RevisionsIn
  <2>2. \A i \in 1..(t.seq + 1) : f[i] \in Value
    BY <1>1, <1>4, <1>7
  <2> HIDE DEF f
  <2> QED
    BY <2>1, <2>2
<1>9. f \in Seq(Value) /\ Len(f) = t.seq + 1
  <2>1. t.seq + 1 \in Nat
    BY <1>1
  <2> HIDE DEF f
  <2> QED
    BY <1>8, <2>1, SeqOf
<1> QED
  BY <1>3, <1>4, <1>7, <1>9

LEMMA NoRevisions ==
    ASSUME NEW S, NEW o, NEW d, Here(S, o, d) = {}
    PROVE  RevisionsIn(S, o, d) = << >>
<1>1. {r.seq + 1 : r \in Here(S, o, d)} = {}
  OBVIOUS
<1> QED
  BY <1>1 DEF RevisionsIn

(* One row more in a vintage is one revision more in its log. *)
LEMMA RevisionAppended ==
    ASSUME NEW S \in SUBSET Row, Table(S), NEW S2 \in SUBSET Row, Table(S2),
           NEW o, NEW d, NEW row \in S2,
           Here(S2, o, d) = Here(S, o, d) \cup {row}, row \notin Here(S, o, d)
    PROVE  /\ RevisionsIn(S2, o, d) = Append(RevisionsIn(S, o, d), row.value)
           /\ \A i \in DOMAIN RevisionsIn(S, o, d) : RevisionsIn(S, o, d)[i] # row.value
<1> DEFINE f == RevisionsIn(S, o, d)
           g == RevisionsIn(S2, o, d)
<1>1. /\ row \in Here(S2, o, d) /\ Here(S, o, d) \subseteq Here(S2, o, d)
      /\ row.seq \in Nat /\ row.value \in Value
      /\ \A r \in Here(S2, o, d) : r \in S2 /\ r.seq \in Nat /\ r.value \in Value
  BY DEF Here, Row
<1>2. \A q, r \in Here(S2, o, d) : q.seq = r.seq \/ q.value = r.value => q = r
  BY DEF Table, Unique, SameVintage, Here
<1>3. PICK u \in Here(S2, o, d) :
         /\ \A q \in Here(S2, o, d) : q.seq <= u.seq
         /\ g \in Seq(Value) /\ Len(g) = u.seq + 1
         /\ \A r \in Here(S2, o, d) : g[r.seq + 1] = r.value
         /\ \A i \in 1..(u.seq + 1) : \E r \in Here(S2, o, d) : r.seq + 1 = i
  BY <1>1, RevisionsAreSeq
<1>4. CASE Here(S, o, d) = {}
  <2>1. f = << >>
    BY <1>4, NoRevisions
  <2>2. u = row
    BY <1>4
  <2>3. row.seq = 0
    <3>1. \E r \in Here(S2, o, d) : r.seq + 1 = 1
      BY <1>1, <1>3, <2>2
    <3> QED
      BY <1>1, <1>4, <3>1
  <2>4. Append(f, row.value) \in Seq(Value) /\ Len(Append(f, row.value)) = 1
        /\ Append(f, row.value)[1] = row.value
    BY <1>1, <2>1
  <2>5. g[1] = row.value /\ Len(g) = 1
    BY <1>1, <1>3, <2>2, <2>3
  <2> HIDE DEF f, g
  <2>6. \A i \in 1..Len(g) : g[i] = Append(f, row.value)[i]
    BY <2>4, <2>5
  <2>7. g = Append(f, row.value)
    BY <1>3, <2>4, <2>5, <2>6, SeqEqual
  <2> QED
    BY <2>1, <2>7 DEF f, g
<1>5. CASE Here(S, o, d) # {}
  <2>1. PICK t \in Here(S, o, d) :
           /\ \A q \in Here(S, o, d) : q.seq <= t.seq
           /\ f \in Seq(Value) /\ Len(f) = t.seq + 1
           /\ \A r \in Here(S, o, d) : f[r.seq + 1] = r.value
           /\ \A i \in 1..(t.seq + 1) : \E r \in Here(S, o, d) : r.seq + 1 = i
    BY <1>5, RevisionsAreSeq
  <2>2. t \in Here(S2, o, d) /\ t.seq \in Nat /\ u.seq \in Nat
    BY <1>1
  <2>3. ~(row.seq <= t.seq)
    <3>1. SUFFICES ASSUME row.seq <= t.seq PROVE FALSE
      OBVIOUS
    <3>2. row.seq + 1 \in 1..(t.seq + 1)
      BY <1>1, <2>2, <3>1
    <3>3. PICK r \in Here(S, o, d) : r.seq + 1 = row.seq + 1
      BY <2>1, <3>2
    <3>4. r.seq = row.seq /\ r \in Here(S2, o, d)
      BY <1>1, <3>3
    <3> QED
      BY <1>1, <1>2, <3>4
  <2>4. row.seq = t.seq + 1
    <3>1. row.seq <= u.seq
      BY <1>1, <1>3
    <3>2. t.seq + 2 \in 1..(u.seq + 1)
      BY <1>1, <2>2, <2>3, <3>1
    <3>3. PICK r \in Here(S2, o, d) : r.seq + 1 = t.seq + 2
      BY <1>3, <3>2
    <3>4. r = row
      BY <1>1, <2>1, <2>2, <3>3
    <3> QED
      BY <1>1, <2>2, <3>3, <3>4
  <2>5. u.seq = row.seq
    <3>1. row.seq <= u.seq
      BY <1>1, <1>3
    <3>2. u = row \/ u.seq <= t.seq
      BY <2>1
    <3> QED
      BY <1>1, <2>2, <2>4, <3>1, <3>2
  <2> HIDE DEF f, g
  <2>6. Len(g) = Len(f) + 1 /\ g[Len(f) + 1] = row.value
    BY <1>1, <1>3, <2>1, <2>4, <2>5
  <2>7. /\ Append(f, row.value) \in Seq(Value) /\ Len(Append(f, row.value)) = Len(f) + 1
        /\ Append(f, row.value)[Len(f) + 1] = row.value
        /\ \A i \in 1..Len(f) : Append(f, row.value)[i] = f[i]
    BY <1>1, <2>1, AppendProperties
  <2>8. ASSUME NEW i \in 1..Len(f)
        PROVE  \E r \in Here(S, o, d) : f[i] = r.value /\ g[i] = r.value
    <3>1. PICK r \in Here(S, o, d) : r.seq + 1 = i
      BY <2>1
    <3> QED
      BY <1>1, <1>3, <2>1, <3>1
  <2>9. Len(f) \in Nat
    BY <2>1, <2>2
  <2>10. \A i \in 1..Len(g) : g[i] = Append(f, row.value)[i]
    <3>1. ASSUME NEW i \in 1..Len(g) PROVE i \in 1..Len(f) \/ i = Len(f) + 1
      BY <2>6, <2>9
    <3> QED
      BY <2>6, <2>7, <2>8, <3>1
  <2>11. g = Append(f, row.value)
    BY <1>3, <2>6, <2>7, <2>10, SeqEqual
  <2>12. \A i \in DOMAIN f : f[i] # row.value
    <3>1. DOMAIN f = 1..Len(f)
      BY <2>1, LenProperties
    <3> QED
      BY <1>1, <1>2, <2>8, <3>1
  <2> QED
    BY <2>11, <2>12 DEF f, g
<1> QED
  BY <1>4, <1>5

LogNow == [x \in Obs \X Day |-> Revisions(x[1], x[2])]

LEMMA RevisionsNow ==
    /\ \A o, d : Revisions(o, d) = RevisionsIn(rows, o, d)
    /\ \A o, d : Revisions(o, d)' = RevisionsIn(rows', o, d)
BY DEF Revisions, RevisionsIn, Here

LEMMA LogInit == Init => Log!Init
<1> SUFFICES ASSUME Init PROVE Log!Init
  OBVIOUS
<1>1. \A o, d : Here(rows, o, d) = {}
  BY DEF Init, Here
<1>2. \A o, d : Revisions(o, d) = << >>
  BY <1>1, NoRevisions, RevisionsNow
<1> QED
  BY <1>2 DEF Log!Init

(* A refresh that commits adds its values to the logs of its day. *)
LEMMA LogRefreshed ==
    ASSUME IInv, NEW p \in Process, Commit(p)
    PROVE  \E S \in SUBSET Obs : \E values \in [S -> Value] :
              Log!Refresh(job[p].day, values)
<1> DEFINE new == job[p].inserted
           S == {r.obs : r \in new}
           values == [o \in S |-> (CHOOSE r \in new : r.obs = o).value]
<1>1. /\ rows' = rows \cup new /\ rows' = View(p) /\ Table(rows) /\ Table(rows')
      /\ rows \in SUBSET Row /\ rows' \in SUBSET Row /\ new \in SUBSET Row
      /\ job[p].day \in Day
  BY DEF Commit, View, IInv, TypeOK, Job
<1>2. /\ \A r \in new : r.vintage = job[p].day /\ r.obs \in Obs /\ r.value \in Value
      /\ \A q, r \in new : q.obs = r.obs => q = r
  BY <1>1 DEF IInv, JobOK, Row
<1>3. ASSUME NEW r \in new
      PROVE  r.obs \in S /\ values[r.obs] = r.value
  <2>1. \A q \in new : q.obs = r.obs => q = r
    BY <1>2
  <2>2. (CHOOSE q \in new : q.obs = r.obs) = r
    BY <2>1
  <2> QED
    BY <2>2
<1>4. S \in SUBSET Obs
  BY <1>2
<1>5. \A o \in S : values[o] \in Value
  BY <1>2, <1>3
<1>6. DOMAIN values = S /\ values \in [S -> Value]
  BY <1>5
<1>7. \A o \in S : \E r \in new : r.obs = o
  OBVIOUS
<1> HIDE DEF new, S, values
<1>8. ASSUME NEW x \in Obs \X Day
      PROVE  RevisionsIn(rows', x[1], x[2]) =
                IF x[2] = job[p].day /\ x[1] \in S
                THEN IF \E i \in DOMAIN RevisionsIn(rows, x[1], x[2]) :
                              RevisionsIn(rows, x[1], x[2])[i] = values[x[1]]
                     THEN RevisionsIn(rows, x[1], x[2])
                     ELSE Append(RevisionsIn(rows, x[1], x[2]), values[x[1]])
                ELSE RevisionsIn(rows, x[1], x[2])
  <2> DEFINE o == x[1]
             d == x[2]
  <2>1. CASE d = job[p].day /\ o \in S
    <3>1. PICK r \in new : r.obs = o
      BY <1>7, <2>1
    <3>2. r.vintage = d /\ values[o] = r.value /\ r \in rows' /\ r \in Row
      BY <1>1, <1>2, <1>3, <2>1, <3>1
    <3>3. Here(rows', o, d) = Here(rows, o, d) \cup {r}
      BY <1>1, <1>2, <3>1, <3>2 DEF Here
    <3>4. CASE r \in Here(rows, o, d)
      <4>1. Here(rows', o, d) = Here(rows, o, d)
        BY <3>3, <3>4
      <4>2. RevisionsIn(rows', o, d) = RevisionsIn(rows, o, d)
        BY <4>1 DEF RevisionsIn
      <4>3. \E i \in DOMAIN RevisionsIn(rows, o, d) :
                RevisionsIn(rows, o, d)[i] = values[o]
        <5>1. PICK t \in Here(rows, o, d) :
                 /\ \A q \in Here(rows, o, d) : q.seq <= t.seq
                 /\ RevisionsIn(rows, o, d) \in Seq(Value)
                 /\ Len(RevisionsIn(rows, o, d)) = t.seq + 1
                 /\ \A q \in Here(rows, o, d) : RevisionsIn(rows, o, d)[q.seq + 1] = q.value
          BY <1>1, <3>4, RevisionsAreSeq
        <5>2. r.seq + 1 \in DOMAIN RevisionsIn(rows, o, d)
          BY <3>4 DEF RevisionsIn
        <5> QED
          BY <3>2, <3>4, <5>1, <5>2
      <4> QED
        BY <2>1, <4>2, <4>3
    <3>5. CASE r \notin Here(rows, o, d)
      <4>1. /\ RevisionsIn(rows', o, d) = Append(RevisionsIn(rows, o, d), r.value)
            /\ \A i \in DOMAIN RevisionsIn(rows, o, d) :
                  RevisionsIn(rows, o, d)[i] # r.value
        <5>1. /\ rows \in SUBSET Row /\ Table(rows) /\ rows' \in SUBSET Row
              /\ Table(rows') /\ r \in rows'
          BY <1>1, <3>2
        <5> HIDE DEF o, d
        <5> QED
          BY <5>1, <3>3, <3>5, RevisionAppended
      <4> QED
        BY <2>1, <3>2, <4>1
    <3> QED
      BY <3>4, <3>5
  <2>2. CASE ~(d = job[p].day /\ o \in S)
    <3>1. \A r \in new : ~(r.obs = o /\ r.vintage = d)
      BY <1>2, <1>3, <2>2
    <3>2. Here(rows', o, d) = Here(rows, o, d)
      BY <1>1, <3>1 DEF Here
    <3>3. RevisionsIn(rows', o, d) = RevisionsIn(rows, o, d)
      BY <3>2 DEF RevisionsIn
    <3> QED
      BY <2>2, <3>3
  <2> QED
    BY <2>1, <2>2
<1>9. Log!Refresh(job[p].day, values)
  <2>1. \A x \in Obs \X Day : LogNow[x] = RevisionsIn(rows, x[1], x[2])
    BY RevisionsNow DEF LogNow
  <2>2. LogNow' = [x \in Obs \X Day |-> RevisionsIn(rows', x[1], x[2])]
    BY RevisionsNow DEF LogNow
  <2> DEFINE added(x) == IF x[2] = job[p].day /\ x[1] \in DOMAIN values
                         THEN IF \E i \in DOMAIN LogNow[x] : LogNow[x][i] = values[x[1]]
                              THEN LogNow[x]
                              ELSE Append(LogNow[x], values[x[1]])
                         ELSE LogNow[x]
  <2>3. LogNow' = [x \in Obs \X Day |-> added(x)]
    <3>1. ASSUME NEW x \in Obs \X Day
          PROVE  RevisionsIn(rows', x[1], x[2]) = added(x)
      <4>1. LogNow[x] = RevisionsIn(rows, x[1], x[2])
        BY <2>1
      <4> QED
        BY <1>6, <1>8, <4>1
    <3> HIDE DEF added
    <3> QED
      BY <2>2, <3>1
  <2> QED
    BY <2>3 DEF Log!Refresh, Log!Added, LogNow
<1> QED
  BY <1>4, <1>6, <1>9

(* The committed rows of every vintage are an append-only log of distinct  *)
(* values, to which each refresh adds its batch at once, whatever overlaps *)
(* or fails half way.                                                      *)
THEOREM Refinement == Spec => LogSpec
<1>1. ASSUME IInv, [Next]_vars
      PROVE  [Log!Next]_LogNow
  <2>1. CASE rows' = rows
    BY <2>1 DEF LogNow, Revisions
  <2>2. CASE rows' # rows
    <3>1. PICK p \in Process : Commit(p)
      BY <1>1, <2>2, OnlyCommits
    <3>2. job[p].day \in Day
      BY <1>1 DEF IInv, TypeOK, Job
    <3>3. \E S \in SUBSET Obs : \E values \in [S -> Value] :
             Log!Refresh(job[p].day, values)
      BY <1>1, <3>1, LogRefreshed
    <3> QED
      BY <3>2, <3>3 DEF Log!Next, LogNow
  <2> QED
    BY <2>1, <2>2
<1> QED
  BY Invariance, LogInit, <1>1, PTL DEF Spec, LogSpec, Log!Spec, LogNow
=============================================================================
