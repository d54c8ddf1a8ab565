------------------------- MODULE DailyMainlineProofs -------------------------
(***************************************************************************)
(* Proofs about DailyMainline, for every budget, limit, gateway timeout    *)
(* and reserve, and other work of any length.                              *)
(*                                                                         *)
(* The argument about time: a call leaves the queue's reserve, a context   *)
(* for each candidate not decided on and one more, less what its record    *)
(* took; a lap of other work within ContextReserve moves one of those      *)
(* contexts into the past (Left).  And it leaves the others the windows it *)
(* was given itself (Windows), because it used no more than its share.     *)
(* The rest is about where the run is (Place) and what the stage records   *)
(* of a run say of its candidates (Records).                               *)
(***************************************************************************)
EXTENDS DailyMainline, TLAPS

Decisions == Len(outcomes)
Calls == Called \ {"call_failed", "timed_out"}

(* Where the run is, by the number of records. *)
Place ==
    /\ Len(results) <= StageCount
    /\ pc = "scan" => Len(results) = 0
    /\ pc = "pool" => Len(results) = 1
    /\ pc \in {"context", "decide"} => Len(results) = 2
    /\ pc = "queue" => Len(results) = 3
    /\ pc = "end" => Len(results) = 4
    /\ pc # "end" => status = "none"
    /\ pc \in {"scan", "pool", "context", "decide", "queue"} => cascade = "none"
    /\ Len(results) < 2 => pool = 0
    /\ Len(results) <= 2 /\ pc \notin {"context", "decide"} =>
          outcomes = << >> /\ reason_codes = << >> /\ share = 0
    /\ Decisions <= pool
    /\ pc = "decide" => Decisions < pool
    /\ Len(results) < 4 => queue = 0
    /\ queue <= pool

(* What the records say. *)
Records ==
    /\ \A i \in DOMAIN results :
          /\ results[i].status = "failed" =>
                /\ cascade = "upstream_stage_failed"
                /\ \A j \in DOMAIN results : i < j =>
                      results[j] = [status |-> "skipped", reason |-> "upstream_stage_failed"]
          /\ results[i].status = "skipped" /\ results[i].reason = "no_candidates" =>
                i >= 3 /\ pool = 0
    /\ Len(results) = 3 /\ cascade = "none" => Decisions = pool
    /\ Len(results) = 4 /\ results[4].status \in {"passed", "partial"} =>
          queue = pool /\ Decisions = pool
    /\ Len(results) >= 3 /\ results[3].status = "passed" => reason_codes = << >>
    /\ reason_codes = << >> => \A i \in DOMAIN outcomes : outcomes[i] \in Calls
    /\ pc = "queue" => Decisions = pool
    /\ cascade # "no_candidates"

Final ==
    /\ status = "passed" => DeriveRunStatus = "passed" /\ Len(results) = 4
    /\ status = "empty" => DeriveRunStatus = "empty" /\ Len(results) = 4

(* The allowances, while they are kept to. *)
Kept == share > 0 /\ ~overran

Left ==
    /\ share > 0 => configured /\ (lap > ContextReserve => overran)
    /\ Kept /\ pc \in {"context", "decide"} =>
          budget - clock >=
              QueueReserve + ContextReserve * (pool - Decisions) + ContextReserve - lap
    /\ Kept /\ Len(results) = 3 /\ pc = "stage" =>
          \/ cascade = "none" /\ clock <= budget
          \/ cascade = "upstream_stage_failed"
    /\ Kept /\ Len(results) = 4 => results[4].reason # "timeout_budget_exceeded"

Windows ==
    Kept /\ pc \in {"context", "decide"} /\ Decisions < limit /\ Decisions < pool =>
        budget - clock
            - (QueueReserve + ContextReserve * (pool - Decisions) + ContextReserve - lap)
            >= share * Pending

IInv ==
    /\ TypeOK
    /\ Place
    /\ Records
    /\ Final
    /\ Left
    /\ Windows
-----------------------------------------------------------------------------
LEMMA ReasonCodes ==
    /\ \A o \in Called \cup NotCalled : ReasonCode(o) \in Reasons
    /\ "none" \in Reasons /\ "timeout_budget_exceeded" \in Reasons
    /\ "upstream_stage_failed" \in Reasons /\ "stage_runner_error" \in Reasons
    /\ "market_data_stale" \in Reasons /\ "market_data_unavailable" \in Reasons
    /\ "no_candidates" \in Reasons /\ "completeness_unavailable" \in Reasons
    /\ "store_write_failed" \in Reasons
<1>1. ReasonCode("generated") = "none" /\ ReasonCode("no_time") = "timeout_budget_exceeded"
  BY DEF ReasonCode
<1>2. "generated" \in Called /\ "no_time" \in NotCalled
  BY DEF Called, NotCalled
<1> QED BY <1>1, <1>2 DEF Reasons

(* Everything the other conjuncts assume of the numbers. *)
LEMMA Numbers ==
    ASSUME TypeOK, Place
    PROVE  /\ Decisions \in Nat /\ Len(results) \in Nat /\ Len(results) <= 4
           /\ QueueReserve \in Nat /\ QueueReserve >= 1
           /\ Pending \in Int
           /\ pool \in Nat /\ limit \in Nat /\ budget \in Nat /\ clock \in Nat
           /\ ContextReserve \in Nat /\ GatewayTimeout \in Nat /\ GatewayTimeout >= 1
           /\ share \in Nat /\ lap \in Nat
           /\ ContextReserve * (pool - Decisions) \in Int
           /\ share * Pending \in Int
<1>1. /\ outcomes \in Seq(Outcome)
      /\ results \in Seq(StageRecord)
      /\ pool \in 0..CandidateLimit /\ CandidateLimit \in Nat
      /\ limit \in Nat /\ budget \in Nat /\ clock \in Nat
      /\ share \in Nat /\ lap \in Nat
  BY ConfigAssumption DEF TypeOK
<1>2. Decisions \in Nat /\ Len(results) \in Nat /\ pool \in Nat
  BY <1>1 DEF Decisions
<1>3. Len(results) <= 4
  BY DEF Place, StageCount
<1>4. QueueReserve \in Nat /\ QueueReserve >= 1
  <2>1. (budget + 9) \div 10 \in Nat /\ (budget + 9) \div 10 >= 1
    BY DEF TypeOK
  <2>2. ReserveMax \in Nat /\ ReserveMax >= 1
    BY ConfigAssumption
  <2> QED BY <1>1, <2>1, <2>2 DEF QueueReserve, Least
<1>5. Pending \in Int
  BY <1>1, <1>2 DEF Pending, Least, Decisions
<1>6. ContextReserve \in Nat /\ GatewayTimeout \in Nat /\ GatewayTimeout >= 1
  BY ConfigAssumption
<1>7. ContextReserve * (pool - Decisions) \in Int /\ share * Pending \in Int
  BY <1>1, <1>2, <1>5, <1>6
<1> QED BY <1>1, <1>2, <1>3, <1>4, <1>5, <1>6, <1>7

(* The window of a call, times the calls to come, is there to give away.   *)
LEMMA WindowFits ==
    ASSUME NEW a \in Int, NEW p \in Nat, p >= 1, a >= p
    PROVE  /\ a \div p \in Nat
           /\ a \div p >= 1
           /\ (a \div p) * p <= a
           /\ a \div p <= a
<1>1. a = p * (a \div p) + (a % p) /\ a % p \in 0..(p - 1) /\ a \div p \in Int
  BY SMT
<1> DEFINE q == a \div p
<1>2. q * p = p * q
  BY <1>1, SMT
<1> HIDE DEF q
<1>3. q >= 1
  <2> SUFFICES ASSUME q <= 0 PROVE FALSE
    BY <1>1 DEF q
  <2>1. p * q <= 0
    BY <1>1, SMT DEF q
  <2> QED BY <2>1, <1>1 DEF q
<1>4. p * q >= q
  BY <1>1, <1>3, SMT DEF q
<1> QED BY <1>1, <1>2, <1>3, <1>4 DEF q

(* What fits that often is no larger than the window. *)
LEMMA WindowReaches ==
    ASSUME NEW a \in Int, NEW p \in Nat, NEW s \in Nat, p >= 1, s >= 1, a >= s * p
    PROVE  a >= p /\ a \div p >= s
<1>1. a = p * (a \div p) + (a % p) /\ a % p \in 0..(p - 1) /\ a \div p \in Int
  BY SMT
<1>2. s * p >= p
  BY SMT
<1> DEFINE q == a \div p
<1> HIDE DEF q
<1>3. q >= s
  <2> SUFFICES ASSUME q <= s - 1 PROVE FALSE
    BY <1>1 DEF q
  <2>1. p * q <= p * (s - 1)
    BY <1>1, SMT DEF q
  <2>2. p * (s - 1) = s * p - p
    BY SMT
  <2> QED BY <2>1, <2>2, <1>1 DEF q
<1> QED BY <1>2, <1>3 DEF q

LEMMA InitIInv == Init => IInv
<1> SUFFICES ASSUME Init PROVE IInv
  OBVIOUS
<1>1. TypeOK
  <2>1. budget \in Nat \ {0} /\ limit \in Nat \ {0}
    BY ConfigAssumption DEF Init
  <2>2. 0 \in 0..CandidateLimit
    BY ConfigAssumption
  <2>3. /\ results \in Seq(StageRecord) /\ outcomes \in Seq(Outcome)
        /\ reason_codes \in Seq(Reasons)
    BY DEF Init
  <2>4. /\ configured \in BOOLEAN /\ clock \in Nat /\ cascade \in Reasons
        /\ earlier \in Nat /\ pool \in 0..CandidateLimit /\ queue \in 0..CandidateLimit
        /\ status \in RunStatus \cup {"none"}
        /\ share \in Nat /\ lap \in Nat /\ overran \in BOOLEAN
    BY <2>2, ReasonCodes, ConfigAssumption DEF Init
  <2>5. pc \in {"stage", "scan", "pool", "context", "decide", "queue", "end"}
    BY DEF Init
  <2> QED BY <2>1, <2>3, <2>4, <2>5 DEF TypeOK
<1>2. Place /\ Records
  BY <1>1 DEF Init, TypeOK, Place, Records, StageCount, Decisions
<1>3. Final /\ Left /\ Windows
  BY DEF Init, Final, Left, Windows, Kept
<1> QED BY <1>1, <1>2, <1>3 DEF IInv

-----------------------------------------------------------------------------
(* A stage that was not skipped reports: what its record, and cascade, are. *)
LEMMA Reported ==
    ASSUME TypeOK, NEW s \in StageStatus, NEW r \in Reasons, Report(s, r)
    PROVE  /\ results' \in Seq(StageRecord)
           /\ Len(results') = Len(results) + 1
           /\ \A i \in DOMAIN results : i \in DOMAIN results' /\ results'[i] = results[i]
           /\ \A i \in DOMAIN results' : i \in DOMAIN results \/ i = Len(results) + 1
           /\ results'[Len(results) + 1] = [status |-> s, reason |-> r]
           /\ cascade' \in Reasons
           /\ s = "failed" => cascade' = "upstream_stage_failed"
           /\ s # "failed" =>
                 cascade' = IF clock' > budget THEN "timeout_budget_exceeded" ELSE "none"
           /\ pc' = "stage"
<1>1. results \in Seq(StageRecord)
  BY DEF TypeOK
<1>2. [status |-> s, reason |-> r] \in StageRecord
  BY DEF StageRecord
<1>3. results' = Append(results, [status |-> s, reason |-> r])
  BY DEF Report
<1>4. /\ results' \in Seq(StageRecord)
      /\ Len(results') = Len(results) + 1
      /\ \A i \in DOMAIN results : i \in DOMAIN results' /\ results'[i] = results[i]
      /\ \A i \in DOMAIN results' : i \in DOMAIN results \/ i = Len(results) + 1
      /\ results'[Len(results) + 1] = [status |-> s, reason |-> r]
  BY <1>1, <1>2, <1>3
<1>5. /\ pc' = "stage"
      /\ cascade' = IF s = "failed" THEN "upstream_stage_failed"
                    ELSE IF clock' > budget THEN "timeout_budget_exceeded" ELSE "none"
  BY DEF Report
<1>6. cascade' \in Reasons
  BY <1>5, ReasonCodes
<1> QED BY <1>4, <1>5, <1>6

LEMMA FirstFour ==
    ASSUME NEW n \in Nat, n < 4
    PROVE  n = 0 \/ n = 1 \/ n = 2 \/ n = 3
OBVIOUS

LEMMA Predecessor ==
    ASSUME NEW n \in Nat, NEW m, m = n + 1
    PROVE  (m = 1 => n = 0) /\ (m = 2 => n = 1) /\ (m = 3 => n = 2) /\ (m = 4 => n = 3)
OBVIOUS

(* Other work takes as much from the time left as it adds to the lap. *)
LEMMA WorkShifts ==
    ASSUME NEW b \in Int, NEW c \in Int, NEW q \in Int, NEW w \in Int, NEW r \in Int,
           NEW l \in Int, NEW d \in Int, NEW x \in Int
    PROVE  /\ b - c >= q + w + r - l => b - (c + d) >= q + w + r - (l + d)
           /\ b - c - (q + w + r - l) >= x =>
                 b - (c + d) - (q + w + r - (l + d)) >= x
           /\ b - c >= q + w + r - l /\ w = 0 /\ q >= 0 /\ l <= r => c <= b
OBVIOUS

LEMMA BeginStageStep ==
    ASSUME IInv, BeginStage
    PROVE  IInv'
<1> USE DEF IInv
<1>1. CASE cascade = "none" /\ clock <= budget
  <2>1. /\ UNCHANGED <<config, clock, results, cascade, diligence, queue, status, history>>
        /\ pc = "stage" /\ Len(results) < 4
    BY <1>1 DEF BeginStage, StageCount
  <2>2. pc' = <<"scan", "pool", "context", "queue">>[Len(results) + 1]
    BY <1>1 DEF BeginStage
  <2>a. Len(results) \in Nat
    BY DEF TypeOK
  <2>3. \/ Len(results) = 0 /\ pc' = "scan"
        \/ Len(results) = 1 /\ pc' = "pool"
        \/ Len(results) = 2 /\ pc' = "context"
        \/ Len(results) = 3 /\ pc' = "queue"
    <3>1. Len(results) = 0 \/ Len(results) = 1 \/ Len(results) = 2 \/ Len(results) = 3
      BY <2>1, <2>a, FirstFour
    <3>2. Len(results) = 0 => pc' = "scan"
      BY <2>2
    <3>3. Len(results) = 1 => pc' = "pool"
      BY <2>2
    <3>4. Len(results) = 2 => pc' = "context"
      BY <2>2
    <3>5. Len(results) = 3 => pc' = "queue"
      BY <2>2
    <3> QED BY <3>1, <3>2, <3>3, <3>4, <3>5
  <2> USE DEF config, diligence, history
  <2>4. TypeOK'
    BY <2>1, <2>3 DEF TypeOK
  <2>5. Place'
    BY <1>1, <2>1, <2>3 DEF Place, Decisions
  <2>6. Records'
    BY <1>1, <2>1, <2>3 DEF Records, Decisions
  <2>7. Final'
    BY <2>1, <2>3 DEF Final, Place, DeriveRunStatus, Items, Stages
  <2>8. Left' /\ Windows'
    <3>1. Len(results) = 2 => share = 0
      BY <2>1 DEF Place
    <3>2. pc' \in {"context", "decide"} => ~Kept'
      BY <2>1, <2>3, <3>1 DEF Kept
    <3>3. pc' # "stage" /\ Len(results') # 4
      <4>1. results' = results
        BY <2>1
      <4> QED BY <2>3, <4>1
    <3>4. share' > 0 => configured' /\ (lap' > ContextReserve => overran')
      BY <2>1 DEF Left
    <3> QED BY <3>2, <3>3, <3>4 DEF Left, Windows
  <2> QED BY <2>4, <2>5, <2>6, <2>7, <2>8
<1>2. CASE ~(cascade = "none" /\ clock <= budget)
  <2> DEFINE reason == IF cascade # "none" THEN cascade ELSE "timeout_budget_exceeded"
             r == [status |-> "skipped", reason |-> reason]
  <2>1. /\ UNCHANGED <<config, clock, pc, diligence, queue, status, history>>
        /\ results' = Append(results, r) /\ cascade' = reason
        /\ pc = "stage" /\ Len(results) < 4
    BY <1>2 DEF BeginStage, StageCount
  <2>2. /\ reason \in Reasons /\ reason # "none"
        /\ reason # "no_candidates"
    BY ReasonCodes DEF TypeOK, Records
  <2>3. r \in StageRecord
    BY <2>2 DEF StageStatus, StageRecord
  <2>4. results \in Seq(StageRecord)
    BY DEF TypeOK
  <2>5. /\ results' \in Seq(StageRecord)
        /\ Len(results') = Len(results) + 1
        /\ \A i \in DOMAIN results : i \in DOMAIN results' /\ results'[i] = results[i]
        /\ \A i \in DOMAIN results' : i \in DOMAIN results \/ i = Len(results) + 1
        /\ results'[Len(results) + 1] = r
    BY <2>1, <2>3, <2>4
  <2> USE DEF config, diligence, history
  <2>6. TypeOK'
    BY <2>1, <2>2, <2>5 DEF TypeOK
  <2>7. Place'
    BY <2>1, <2>4, <2>5 DEF Place, Decisions, StageCount
  <2>8. Records'
    BY <2>1, <2>2, <2>4, <2>5 DEF Records, Decisions
  <2>9. Final'
    BY <2>1 DEF Final, Place
  <2>10. Left' /\ Windows'
    <3>1. Len(results) \in Nat /\ Len(results') = Len(results) + 1
      BY <2>4, <2>5
    <3>2. Len(results) = 2 => share = 0
      BY <2>1 DEF Place
    <3>a. /\ Len(results') = 3 => Len(results) = 2
          /\ Len(results') = 4 => Len(results) = 3
      BY <3>1, Predecessor
    <3>3. Kept' /\ Len(results') = 3 => FALSE
      BY <2>1, <3>a, <3>2 DEF Kept
    <3>4. Kept' /\ Len(results') = 4 => results'[4].reason # "timeout_budget_exceeded"
      <4> SUFFICES ASSUME Kept', Len(results') = 4
                   PROVE  results'[4].reason # "timeout_budget_exceeded"
        OBVIOUS
      <4>1. Kept /\ Len(results) = 3 /\ pc = "stage"
        BY <2>1, <3>a DEF Kept
      <4>2. cascade = "upstream_stage_failed"
        BY <1>2, <4>1 DEF Left
      <4>3. results'[4] = r
        BY <2>5, <4>1
      <4> QED BY <4>2, <4>3
    <3>5. share' > 0 => configured' /\ (lap' > ContextReserve => overran')
      BY <2>1 DEF Left
    <3>6. pc' \notin {"context", "decide"}
      BY <2>1
    <3> QED BY <3>3, <3>4, <3>5, <3>6 DEF Left, Windows
  <2> QED BY <2>6, <2>7, <2>8, <2>9, <2>10
<1> QED BY <1>1, <1>2

LEMMA StageRaisesStep ==
    ASSUME IInv, StageRaises
    PROVE  IInv'
<1> USE DEF IInv
<1>1. /\ UNCHANGED <<config, clock, diligence, queue, status, history>>
      /\ Report("failed", "stage_runner_error")
      /\ pc \in {"scan", "pool", "context", "decide"}
  BY DEF StageRaises
<1>2. "failed" \in StageStatus /\ "stage_runner_error" \in Reasons
  BY ReasonCodes DEF StageStatus
<1> DEFINE r == [status |-> "failed", reason |-> "stage_runner_error"]
<1>3. /\ results' \in Seq(StageRecord)
      /\ Len(results') = Len(results) + 1 /\ Len(results) \in Nat
      /\ \A i \in DOMAIN results : i \in DOMAIN results' /\ results'[i] = results[i]
      /\ \A i \in DOMAIN results' : i \in DOMAIN results \/ i = Len(results) + 1
      /\ results'[Len(results) + 1] = r
      /\ cascade' = "upstream_stage_failed" /\ cascade' \in Reasons
      /\ pc' = "stage"
  BY <1>1, <1>2, Reported DEF TypeOK
<1>4. \A i \in DOMAIN results : results[i].status # "failed"
  BY <1>1 DEF Records, Place
<1>5. \A i \in DOMAIN results : i \in Nat /\ i <= Len(results)
  BY DEF TypeOK
<1> USE DEF config, diligence, history
<1>6. TypeOK'
  BY <1>1, <1>3 DEF TypeOK
<1>7. Place'
  <2>1. /\ Len(results') = Len(results) + 1 /\ Len(results) \in Nat
        /\ Len(results) < 3 /\ queue = 0 /\ status = "none"
    BY <1>1, <1>3 DEF Place
  <2>2. /\ pool' = pool /\ outcomes' = outcomes /\ reason_codes' = reason_codes
        /\ queue' = queue /\ status' = status /\ share' = share
        /\ pc' = "stage"
    BY <1>1, <1>3
  <2>3. Len(results') <= 2 => Len(results) < 2 /\ outcomes = << >>
                                 /\ reason_codes = << >> /\ share = 0
    <3>1. Len(results') <= 2 => Len(results) < 2
      BY <2>1
    <3>2. pc \in {"context", "decide"} => Len(results) = 2
      BY DEF Place
    <3>3. Len(results) < 2 /\ pc \notin {"context", "decide"} =>
             outcomes = << >> /\ reason_codes = << >> /\ share = 0
      BY <2>1 DEF Place
    <3> HIDE DEF IInv
    <3> QED BY <2>1, <3>1, <3>2, <3>3
  <2>4. Len(results') < 2 => pool = 0
    BY <2>1 DEF Place
  <2> QED BY <2>1, <2>2, <2>3, <2>4 DEF Place, Decisions, StageCount
<1>8. Records'
  BY <1>1, <1>3, <1>4, <1>5 DEF Records, Decisions, Place
<1>9. Final'
  BY <1>1, <1>3 DEF Final, Place
<1>10. Left' /\ Windows'
  BY <1>1, <1>3 DEF Left, Windows, Kept, Place
<1> QED BY <1>6, <1>7, <1>8, <1>9, <1>10

LEMMA ScanStep ==
    ASSUME IInv, Scan
    PROVE  IInv'
<1> USE DEF IInv
<1>1. PICK d \in 0..MaxWork : Work(d)
  BY DEF Scan
<1>2. PICK s \in StageStatus, r \in Reasons :
         Report(s, r) /\ s # "skipped"
  BY ReasonCodes DEF Scan, StageStatus
<1>3. /\ UNCHANGED <<config, diligence, queue, status>>
      /\ pc = "scan" /\ Len(results) = 0
  BY DEF Scan, Place
<1>4. /\ results' \in Seq(StageRecord)
      /\ Len(results') = 1
      /\ \A i \in DOMAIN results' : i = 1
      /\ results'[1] = [status |-> s, reason |-> r]
      /\ cascade' \in Reasons
      /\ s = "failed" => cascade' = "upstream_stage_failed"
      /\ s # "failed" =>
            cascade' = IF clock' > budget THEN "timeout_budget_exceeded" ELSE "none"
      /\ pc' = "stage"
  BY <1>2, <1>3, Reported DEF TypeOK
<1>5. clock' \in Nat /\ lap' \in Nat /\ overran' \in BOOLEAN /\ share' = share
  BY <1>1, ConfigAssumption DEF Work, TypeOK
<1>6. share = 0
  BY <1>3 DEF Place
<1> USE DEF config, diligence
<1>7. TypeOK'
  BY <1>3, <1>4, <1>5 DEF TypeOK
<1>8. Place'
  BY <1>3, <1>4, <1>5 DEF Place, Decisions, StageCount
<1>9. Records'
  BY <1>2, <1>3, <1>4 DEF Records, Decisions, Place
<1>10. Final'
  BY <1>3, <1>4 DEF Final, Place
<1>11. Left' /\ Windows'
  BY <1>4, <1>5, <1>6 DEF Left, Windows, Kept
<1> QED BY <1>7, <1>8, <1>9, <1>10, <1>11

LEMMA BuildPoolStep ==
    ASSUME IInv, BuildPool
    PROVE  IInv'
<1> USE DEF IInv
<1>1. PICK d \in 0..MaxWork : Work(d)
  BY DEF BuildPool
<1>2. PICK r \in Reasons : Report("passed", r)
  BY ReasonCodes DEF BuildPool
<1>3. /\ UNCHANGED <<config, outcomes, reason_codes, queue, status>>
      /\ pool' \in 0..CandidateLimit
      /\ pc = "pool" /\ Len(results) = 1
  BY DEF BuildPool, Place
<1>4. /\ results' \in Seq(StageRecord)
      /\ Len(results') = 2
      /\ \A i \in DOMAIN results : i \in DOMAIN results' /\ results'[i] = results[i]
      /\ \A i \in DOMAIN results' : i \in DOMAIN results \/ i = 2
      /\ results'[2] = [status |-> "passed", reason |-> r]
      /\ cascade' \in Reasons
      /\ cascade' = IF clock' > budget THEN "timeout_budget_exceeded" ELSE "none"
      /\ pc' = "stage"
  <2>1. "passed" \in StageStatus
    BY DEF StageStatus
  <2> QED BY <1>2, <1>3, <2>1, Reported DEF TypeOK
<1>5. clock' \in Nat /\ lap' \in Nat /\ overran' \in BOOLEAN /\ share' = share
  BY <1>1, ConfigAssumption DEF Work, TypeOK
<1>6. share = 0 /\ outcomes = << >> /\ reason_codes = << >> /\ queue = 0
  BY <1>3 DEF Place
<1>7. pool' \in Nat
  BY <1>3, ConfigAssumption
<1>8. \A i \in DOMAIN results : i = 1
  BY <1>3 DEF TypeOK
<1>9. /\ \A i \in DOMAIN results : results[i].status # "failed"
      /\ \A i \in DOMAIN results :
            ~(results[i].status = "skipped" /\ results[i].reason = "no_candidates")
  BY <1>3, <1>8 DEF Records, Place
<1> USE DEF config, diligence
<1>10. TypeOK'
  BY <1>3, <1>4, <1>5 DEF TypeOK
<1>11. Place'
  BY <1>3, <1>4, <1>5, <1>6, <1>7 DEF Place, Decisions, StageCount
<1>12. Records'
  BY <1>3, <1>4, <1>6, <1>9 DEF Records, Decisions
<1>13. Final'
  BY <1>3, <1>4 DEF Final, Place
<1>14. Left' /\ Windows'
  BY <1>4, <1>5, <1>6 DEF Left, Windows, Kept
<1> QED BY <1>10, <1>11, <1>12, <1>13, <1>14

LEMMA RecordRunStep ==
    ASSUME IInv, RecordRun
    PROVE  IInv'
<1> USE DEF IInv
<1>1. /\ UNCHANGED <<config, clock, results, cascade, diligence, queue, history>>
      /\ pc = "stage" /\ pc' = "end" /\ Len(results) = 4
      /\ status' \in {DeriveRunStatus, "failed"}
  BY DEF RecordRun, StageCount
<1> USE DEF config, diligence, history
<1>2. DeriveRunStatus' = DeriveRunStatus
  BY <1>1 DEF DeriveRunStatus, Items, Stages
<1>3. DeriveRunStatus \in RunStatus /\ "failed" \in RunStatus
  BY DEF DeriveRunStatus, RunStatus
<1>4. TypeOK'
  BY <1>1, <1>3 DEF TypeOK
<1>5. Place' /\ Records'
  BY <1>1 DEF Place, Records, Decisions
<1>6. Final'
  BY <1>1, <1>2 DEF Final
<1>7. Left' /\ Windows'
  BY <1>1 DEF Left, Windows, Kept
<1> QED BY <1>4, <1>5, <1>6, <1>7

LEMMA EndDiligenceStep ==
    ASSUME IInv, EndDiligence
    PROVE  IInv'
<1> USE DEF IInv
<1>1. /\ UNCHANGED <<config, clock, diligence, queue, status, history>>
      /\ pc = "context" /\ Decisions = pool /\ Len(results) = 2
  BY DEF EndDiligence, Decisions, Place
<1>2. \/ Report("skipped", "no_candidates") /\ pool = 0
      \/ Report("passed", "none") /\ reason_codes = << >>
      \/ \E r \in Reasons : Report("partial", r)
  <2>1. ASSUME reason_codes # << >> PROVE Head(reason_codes) \in Reasons
    BY <2>1 DEF TypeOK
  <2> QED BY <2>1, ReasonCodes DEF EndDiligence
<1>3. PICK s \in {"skipped", "passed", "partial"}, r \in Reasons :
         /\ Report(s, r)
         /\ s = "skipped" => r = "no_candidates" /\ pool = 0
         /\ s = "passed" => reason_codes = << >>
  BY <1>2, ReasonCodes
<1>4. /\ results' \in Seq(StageRecord)
      /\ Len(results') = 3
      /\ \A i \in DOMAIN results : i \in DOMAIN results' /\ results'[i] = results[i]
      /\ \A i \in DOMAIN results' : i \in DOMAIN results \/ i = 3
      /\ results'[3] = [status |-> s, reason |-> r]
      /\ cascade' \in Reasons
      /\ cascade' = IF clock' > budget THEN "timeout_budget_exceeded" ELSE "none"
      /\ pc' = "stage"
  <2>1. s \in StageStatus /\ s # "failed"
    BY DEF StageStatus
  <2> QED BY <1>1, <1>3, <2>1, Reported DEF TypeOK
<1>5. \A i \in DOMAIN results : results[i].status # "failed"
  BY <1>1 DEF Records, Place
<1>6. Kept => clock <= budget
  <2> SUFFICES ASSUME Kept PROVE clock <= budget
    OBVIOUS
  <2>1. ContextReserve * (pool - Decisions) = 0
    <3>1. pool - Decisions = 0 /\ ContextReserve \in Nat
      BY <1>1, Numbers
    <3> QED BY <3>1, SMT
  <2> DEFINE c == ContextReserve * (pool - Decisions)
  <2>2. budget - clock >= QueueReserve + c + ContextReserve - lap
    BY <1>1 DEF Left
  <2>3. lap <= ContextReserve
    <3>1. lap \in Int /\ ContextReserve \in Int
      BY <1>1, Numbers
    <3>2. ~(lap > ContextReserve)
      BY <1>1 DEF Left, Kept
    <3> QED BY <3>1, <3>2
  <2>4. /\ c \in Int /\ c = 0 /\ QueueReserve \in Int /\ QueueReserve >= 0
        /\ ContextReserve \in Int /\ lap \in Int /\ budget \in Int /\ clock \in Int
    BY <2>1, Numbers
  <2> HIDE DEF c
  <2> QED BY <2>2, <2>3, <2>4, WorkShifts
<1> USE DEF config, diligence, history
<1>7. TypeOK'
  BY <1>1, <1>4 DEF TypeOK
<1>8. Place'
  BY <1>1, <1>4 DEF Place, Decisions, StageCount
<1>9. Records'
  BY <1>1, <1>3, <1>4, <1>5 DEF Records, Decisions
<1>10. Final'
  BY <1>1, <1>4 DEF Final, Place
<1>11. Left' /\ Windows'
  <2>1. share' > 0 => configured' /\ (lap' > ContextReserve => overran')
    BY <1>1 DEF Left
  <2>2. Kept' => cascade' = "none" /\ clock' <= budget'
    <3>1. clock' = clock /\ budget' = budget /\ (Kept' <=> Kept)
      BY <1>1 DEF Kept
    <3>2. ASSUME NEW x \in Int, NEW y \in Int, x <= y PROVE ~(x > y)
      BY <3>2
    <3>3. clock \in Int /\ budget \in Int
      BY <1>1, Numbers
    <3>4. clock <= budget => ~(clock > budget)
      BY <3>2, <3>3
    <3> QED BY <1>4, <1>6, <3>1, <3>4
  <2>3. Len(results') # 4 /\ pc' \notin {"context", "decide"}
    BY <1>4
  <2> QED BY <2>1, <2>2, <2>3 DEF Left, Windows
<1> QED BY <1>7, <1>8, <1>9, <1>10, <1>11

LEMMA BuildQueueStep ==
    ASSUME IInv, BuildQueue
    PROVE  IInv'
<1> USE DEF IInv
<1>1. PICK d \in 0..MaxWork : Work(d)
  BY DEF BuildQueue
<1>2. /\ UNCHANGED <<config, diligence, status>>
      /\ pc = "queue" /\ Len(results) = 3 /\ Decisions = pool /\ queue = 0
  <2>1. UNCHANGED <<config, diligence, status>> /\ pc = "queue"
    BY DEF BuildQueue
  <2>2. Len(results) = 3 /\ (Len(results) < 4 => queue = 0)
    BY <2>1 DEF Place
  <2> QED BY <2>1, <2>2 DEF Records
<1>3. pool \in Nat /\ CandidateLimit \in Nat /\ pool <= CandidateLimit
  BY ConfigAssumption DEF TypeOK
<1>4. PICK s \in StageStatus, r \in Reasons :
         /\ Report(s, r)
         /\ r # "timeout_budget_exceeded"
         /\ s = "skipped" => pool = 0
         /\ s \in {"passed", "partial"} => queue' = pool
  BY ReasonCodes DEF BuildQueue, Queued, StageStatus
<1>5. queue' \in 0..pool
  <2>1. CASE pool = 0
    BY <1>2, <2>1 DEF BuildQueue
  <2>2. CASE pool # 0
    <3>1. queue' = pool \/ queue' \in 0..(pool - 1)
      BY <2>2 DEF BuildQueue, Queued
    <3> QED BY <1>3, <3>1
  <2> QED BY <2>1, <2>2
<1>6. /\ results' \in Seq(StageRecord)
      /\ Len(results') = 4
      /\ \A i \in DOMAIN results : i \in DOMAIN results' /\ results'[i] = results[i]
      /\ \A i \in DOMAIN results' : i \in DOMAIN results \/ i = 4
      /\ results'[4] = [status |-> s, reason |-> r]
      /\ cascade' \in Reasons
      /\ s = "failed" => cascade' = "upstream_stage_failed"
      /\ s # "failed" =>
            cascade' = IF clock' > budget THEN "timeout_budget_exceeded" ELSE "none"
      /\ pc' = "stage"
  BY <1>2, <1>4, Reported DEF TypeOK
<1>7. clock' \in Nat /\ lap' \in Nat /\ overran' \in BOOLEAN /\ share' = share
  BY <1>1, ConfigAssumption DEF Work, TypeOK
<1>8. \A i \in DOMAIN results : results[i].status # "failed" /\ i \in Nat /\ i < 4
  BY <1>2 DEF Records, Place, TypeOK
<1>9. Len(results) >= 3 /\ 3 \in DOMAIN results
  BY <1>2 DEF TypeOK
<1> USE DEF config, diligence
<1>10. TypeOK'
  BY <1>2, <1>3, <1>5, <1>6, <1>7 DEF TypeOK
<1>11. Place'
  BY <1>2, <1>3, <1>5, <1>6 DEF Place, Decisions, StageCount
<1>12. Records'
  BY <1>2, <1>4, <1>6, <1>8, <1>9 DEF Records, Decisions
<1>13. Final'
  BY <1>2, <1>6 DEF Final, Place
<1>14. Left' /\ Windows'
  <2>1. share' > 0 => configured' /\ (lap' > ContextReserve => overran')
    BY <1>1, <1>2, <1>7 DEF Left, Work
  <2>2. results'[4].reason # "timeout_budget_exceeded"
    BY <1>4, <1>6
  <2> QED BY <1>6, <2>1, <2>2 DEF Left, Windows
<1> QED BY <1>10, <1>11, <1>12, <1>13, <1>14

LEMMA ReadContextStep ==
    ASSUME IInv, ReadContext
    PROVE  IInv'
<1> USE DEF IInv
<1>1. PICK d \in 0..MaxWork : Work(d)
  BY DEF ReadContext
<1>2. /\ UNCHANGED <<config, results, cascade, diligence, queue, status>>
      /\ pc = "context" /\ pc' = "decide" /\ Decisions < pool
  BY DEF ReadContext, Decisions
<1>3. /\ d \in Nat /\ clock' = clock + d /\ lap' = lap + d /\ share' = share
      /\ clock \in Nat /\ lap \in Nat /\ overran' \in BOOLEAN
      /\ (overran \/ lap + d > ContextReserve) => overran'
      /\ overran => overran'
  <2>1. d \in Nat
    BY <1>1, ConfigAssumption
  <2>2. clock \in Nat /\ lap \in Nat /\ overran \in BOOLEAN
    BY DEF TypeOK
  <2>3. clock' = clock + d /\ lap' = lap + d /\ share' = share
    BY <1>1 DEF Work
  <2>4. overran' = (overran \/ lap + d > ContextReserve)
    BY <1>1 DEF Work
  <2> QED BY <2>1, <2>2, <2>3, <2>4
<1> USE DEF config, diligence
<1>4. TypeOK'
  BY <1>2, <1>3 DEF TypeOK
<1>5. Place' /\ Records'
  BY <1>2, <1>3 DEF Place, Records, Decisions
<1>6. Final'
  BY <1>2 DEF Final, Place
<1>7. /\ QueueReserve' = QueueReserve /\ Pending' = Pending /\ Decisions' = Decisions
      /\ pool' = pool /\ limit' = limit /\ budget' = budget
  BY <1>2 DEF QueueReserve, Pending, Decisions
<1>8. Kept' => Kept
  BY <1>3 DEF Kept
<1> DEFINE c == ContextReserve * (pool - Decisions)
<1>9. c' = c /\ c \in Int
  BY <1>7, Numbers
<1>10. Left'
  <2>1. share' > 0 => configured' /\ (lap' > ContextReserve => overran')
    BY <1>2, <1>3 DEF Left
  <2>2. Kept' => budget - (clock + d) >= QueueReserve + c + ContextReserve - (lap + d)
    <3> HIDE DEF c
    <3>1. Kept => budget - clock >= QueueReserve + c + ContextReserve - lap
      BY <1>2 DEF Left, c
    <3>2. /\ c \in Int /\ QueueReserve \in Int /\ ContextReserve \in Int
          /\ lap \in Int /\ budget \in Int /\ clock \in Int /\ d \in Int
      BY <1>3, <1>9, Numbers
    <3> QED BY <1>8, <3>1, <3>2, WorkShifts
  <2>3. Len(results') # 4 /\ Len(results') # 3
    <3>1. Len(results) = 2 /\ results' = results
      BY <1>2 DEF Place
    <3> QED BY <3>1
  <2> QED BY <1>3, <1>7, <1>9, <2>1, <2>2, <2>3 DEF Left
<1>11. Windows'
  <2>1. ASSUME Kept', Decisions < limit, Decisions < pool
        PROVE  budget - (clock + d) - (QueueReserve + c + ContextReserve - (lap + d))
                   >= share * Pending
    <3> HIDE DEF c
    <3>1. budget - clock - (QueueReserve + c + ContextReserve - lap) >= share * Pending
      BY <1>2, <1>8, <2>1 DEF Windows, c
    <3>2. /\ c \in Int /\ QueueReserve \in Int /\ ContextReserve \in Int
          /\ lap \in Int /\ budget \in Int /\ clock \in Int /\ d \in Int
          /\ share * Pending \in Int
      BY <1>3, <1>9, Numbers
    <3> QED BY <3>1, <3>2, WorkShifts
  <2> QED BY <1>3, <1>7, <1>9, <2>1 DEF Windows
<1> QED BY <1>4, <1>5, <1>6, <1>10, <1>11

-----------------------------------------------------------------------------
(* One candidate is decided on. *)
LEMMA OneDecided ==
    ASSUME IInv, NEW o \in Outcome, Decided(o), pc = "decide",
           UNCHANGED <<config, results, cascade, pool, queue, status>>
    PROVE  /\ outcomes' \in Seq(Outcome) /\ reason_codes' \in Seq(Reasons)
           /\ Decisions' = Decisions + 1 /\ pc' = "context"
           /\ Place' /\ Records' /\ Final'
<1> USE DEF IInv
<1>1. /\ outcomes \in Seq(Outcome) /\ reason_codes \in Seq(Reasons)
      /\ ReasonCode(o) \in Reasons
  BY ReasonCodes DEF TypeOK, Outcome
<1>2. outcomes' = Append(outcomes, o) /\ pc' = "context"
  BY DEF Decided
<1>3. /\ outcomes' \in Seq(Outcome) /\ Len(outcomes') = Len(outcomes) + 1
      /\ \A i \in DOMAIN outcomes' :
            (i \in DOMAIN outcomes /\ outcomes'[i] = outcomes[i]) \/ outcomes'[i] = o
  BY <1>1, <1>2
<1>4. reason_codes' = Append(reason_codes, ReasonCode(o)) \/ reason_codes' = reason_codes
  BY DEF Decided
<1>5. reason_codes' \in Seq(Reasons)
  BY <1>1, <1>4
<1>6. reason_codes' = << >> => o \in Calls /\ reason_codes = << >>
  <2>1. Append(reason_codes, ReasonCode(o)) # << >>
    BY <1>1
  <2>2. reason_codes' = << >> => o \notin NotCalled \cup {"call_failed", "timed_out"}
    BY <2>1 DEF Decided
  <2>3. reason_codes' = << >> => reason_codes = << >>
    BY <1>4, <2>1
  <2> QED BY <2>2, <2>3 DEF Outcome, Calls
<1>7. Decisions' = Decisions + 1 /\ Decisions \in Nat /\ pool \in Nat
  BY <1>3, Numbers DEF Decisions
<1>8. Len(results) = 2 /\ Decisions < pool
  BY DEF Place
<1> USE DEF config
<1>9. Place'
  BY <1>2, <1>7, <1>8 DEF Place, StageCount
<1>10. Records'
  BY <1>2, <1>3, <1>6, <1>8 DEF Records
<1>11. Final'
  BY <1>2 DEF Final, Place
<1> QED BY <1>2, <1>3, <1>5, <1>7, <1>9, <1>10, <1>11

LEMMA ReserveShrinks ==
    ASSUME NEW r \in Nat, NEW p \in Nat, NEW n \in Nat
    PROVE  r * (p - (n + 1)) = r * (p - n) - r
<1>1. p - (n + 1) = (p - n) - 1
  OBVIOUS
<1>2. ASSUME NEW k \in Int PROVE r * (k - 1) = r * k - r
  BY SMT
<1> QED BY <1>1, <1>2

LEMMA PendingShrinks ==
    ASSUME IInv, UNCHANGED <<config, pool>>, Decisions' = Decisions + 1
    PROVE  /\ Pending' = Pending - 1 /\ Pending \in Int
           /\ QueueReserve' = QueueReserve
           /\ pc = "decide" /\ Decisions < limit => Pending >= 1
<1>1. /\ Decisions \in Nat /\ pool \in Nat /\ limit \in Nat
      /\ Len(outcomes) = Decisions /\ Len(outcomes') = Decisions + 1
  BY Numbers DEF IInv, Decisions
<1>2. pool' = pool /\ limit' = limit /\ budget' = budget
  BY DEF config
<1>3. pc = "decide" => Decisions < pool
  BY DEF IInv, Place
<1> QED BY <1>1, <1>2, <1>3 DEF Pending, QueueReserve, Least

(* While the allowances are kept to, the next candidate within the limit   *)
(* is offered a window as large as the last.                               *)
LEMMA NextWindow ==
    ASSUME IInv, Kept, pc = "decide", Decisions < limit
    PROVE  FairWindow >= share /\ CallTimeout >= 1
<1> DEFINE c == ContextReserve * (pool - Decisions)
<1>1. /\ Decisions \in Nat /\ Len(outcomes) = Decisions
      /\ pool \in Nat /\ limit \in Nat /\ budget \in Int /\ clock \in Int
      /\ QueueReserve \in Int /\ c \in Int /\ ContextReserve \in Int
      /\ lap \in Int /\ share \in Nat /\ share >= 1 /\ GatewayTimeout >= 1
      /\ GatewayTimeout \in Nat
  <2>1. Len(outcomes) = Decisions
    BY DEF Decisions
  <2>2. share > 0
    BY DEF Kept
  <2> HIDE DEF c
  <2>3. TypeOK /\ Place
    BY DEF IInv
  <2>4. c \in Int
    BY <2>3, Numbers DEF c
  <2>5. ASSUME NEW x \in Nat PROVE x \in Int
    BY <2>5
  <2>6. /\ QueueReserve \in Nat /\ budget \in Nat /\ clock \in Nat
        /\ ContextReserve \in Nat /\ lap \in Nat
    BY <2>3, Numbers
  <2>7. /\ QueueReserve \in Int /\ budget \in Int /\ clock \in Int
        /\ ContextReserve \in Int /\ lap \in Int
    BY <2>5, <2>6
  <2>8. share \in Nat /\ share >= 1
    <3>1. share \in Nat
      BY <2>3, Numbers
    <3> QED BY <2>2, <3>1
  <2>9. /\ Decisions \in Nat /\ pool \in Nat /\ limit \in Nat
        /\ GatewayTimeout \in Nat /\ GatewayTimeout >= 1
    BY <2>3, Numbers
  <2> QED BY <2>1, <2>4, <2>7, <2>8, <2>9
<1>2. Decisions < pool
  BY DEF IInv, Place
<1>3. Pending \in Nat /\ Pending >= 1
  BY <1>1, <1>2 DEF Pending, Least
<1>4. lap <= ContextReserve
  BY <1>1 DEF IInv, Left, Kept
<1>5. budget - clock - (QueueReserve + c + ContextReserve - lap) >= share * Pending
  BY <1>2 DEF IInv, Windows
<1>6. Available = budget - clock - QueueReserve - c /\ Available \in Int
  BY <1>1 DEF Available, Decisions
<1>7. Available >= share * Pending
  <2>1. ASSUME NEW x \in Int, NEW b \in Int, NEW k \in Int, NEW q \in Int, NEW w \in Int,
               NEW r \in Int, NEW l \in Int, l <= r, b - k - (q + w + r - l) >= x
        PROVE  b - k - q - w >= x
    BY <2>1
  <2>2. share * Pending \in Int
    BY <1>1, <1>3
  <2> HIDE DEF c
  <2> QED BY <1>1, <1>4, <1>5, <1>6, <2>1, <2>2
<1>8. Available >= Pending /\ Available \div Pending >= share
  BY <1>1, <1>3, <1>6, <1>7, WindowReaches
<1>9. FairWindow = Available \div Pending
  BY <1>3, <1>6, <1>8 DEF FairWindow
<1>10. Available \div Pending \in Int
  BY <1>3, <1>6
<1> QED BY <1>1, <1>8, <1>9, <1>10 DEF CallTimeout, Least

LEMMA PassOverStep ==
    ASSUME IInv, PassOver
    PROVE  IInv'
<1>1. /\ UNCHANGED <<config, clock, results, cascade, pool, queue, status, share, overran>>
      /\ pc = "decide" /\ lap' = 0
  BY DEF PassOver
<1>2. PICK o \in Outcome : Decided(o)
  BY DEF PassOver, Outcome, NotCalled
<1>3. /\ outcomes' \in Seq(Outcome) /\ reason_codes' \in Seq(Reasons)
      /\ Decisions' = Decisions + 1 /\ pc' = "context"
      /\ Place' /\ Records' /\ Final'
  BY <1>1, <1>2, OneDecided
<1>4. /\ Pending' = Pending - 1 /\ QueueReserve' = QueueReserve
      /\ pool' = pool /\ limit' = limit /\ budget' = budget /\ configured' = configured
      /\ earlier' = earlier
  BY <1>1, <1>3, PendingShrinks DEF config
<1>5. TypeOK'
  BY <1>1, <1>3, <1>4 DEF IInv, TypeOK
<1>6. /\ Decisions \in Nat /\ pool \in Nat /\ limit \in Nat /\ budget \in Int
      /\ clock \in Int /\ QueueReserve \in Int /\ ContextReserve \in Nat
      /\ lap \in Int /\ ContextReserve * (pool - Decisions) \in Int
  BY Numbers DEF IInv
<1> DEFINE c == ContextReserve * (pool - Decisions)
<1>7. ContextReserve * (pool' - Decisions') = c - ContextReserve
  BY <1>3, <1>4, <1>6, ReserveShrinks
<1>8. Kept' <=> Kept
  BY <1>1 DEF Kept
<1>9. Left'
  <2>1. Kept' => budget - clock >= QueueReserve + (c - ContextReserve) + ContextReserve - 0
    <3>1. ASSUME NEW b \in Int, NEW k \in Int, NEW q \in Int, NEW w \in Int,
                 NEW r \in Int, NEW l \in Int, l <= r, b - k >= q + w + r - l
          PROVE  b - k >= q + (w - r) + r - 0
      BY <3>1
    <3>2. Kept => budget - clock >= QueueReserve + c + ContextReserve - lap
      BY <1>1 DEF IInv, Left
    <3>3. Kept => lap <= ContextReserve
      BY <1>6 DEF IInv, Left, Kept
    <3> HIDE DEF c
    <3> QED BY <1>6, <1>8, <3>1, <3>2, <3>3 DEF c
  <2>2. share' > 0 => configured' /\ (lap' > ContextReserve => overran')
    BY <1>1, <1>4, <1>6 DEF IInv, Left
  <2>3. Len(results') # 4 /\ pc' # "stage"
    <3>1. Len(results) = 2 /\ results' = results
      BY <1>1 DEF IInv, Place
    <3> QED BY <1>3, <3>1
  <2> HIDE DEF c
  <2> QED BY <1>1, <1>4, <1>7, <2>1, <2>2, <2>3 DEF Left
<1>10. Windows'
  <2> SUFFICES ASSUME Kept, Decisions' < limit' PROVE FALSE
    BY <1>8 DEF Windows
  <2>1. Decisions < limit
    BY <1>3, <1>4, <1>6
  <2>2. configured /\ CallTimeout >= 1
    BY <1>1, <2>1, NextWindow DEF IInv, Left, Kept
  <2>3. CallTimeout \in Int
    <3>1. FairWindow \in Int
      <4>1. Pending \in Int /\ Available \in Int /\ Pending >= 1
        BY <1>1, <1>3, <1>6, <2>1, PendingShrinks DEF Available, Decisions
      <4> QED BY <4>1 DEF FairWindow
    <3> QED BY <3>1, Numbers DEF CallTimeout, Least, IInv
  <2>4. Len(outcomes) = Decisions
    BY DEF Decisions
  <2> QED BY <1>6, <2>1, <2>2, <2>3, <2>4 DEF PassOver
<1> QED BY <1>3, <1>5, <1>9, <1>10 DEF IInv

LEMMA CallModelStep ==
    ASSUME IInv, CallModel
    PROVE  IInv'
<1>1. /\ UNCHANGED <<config, results, cascade, pool, queue, status>>
      /\ pc = "decide" /\ Decisions < limit /\ configured /\ CallTimeout > 0
      /\ share' = FairWindow
  BY DEF CallModel, Decisions
<1>2. PICK t \in 0..CallTimeout, d \in 0..MaxWork :
         /\ clock' = clock + t + d
         /\ lap' = d
         /\ overran' = (d > ContextReserve)
  BY DEF CallModel
<1>3. PICK o \in Outcome : Decided(o)
  BY DEF CallModel, Outcome
<1>4. /\ outcomes' \in Seq(Outcome) /\ reason_codes' \in Seq(Reasons)
      /\ Decisions' = Decisions + 1 /\ pc' = "context"
      /\ Place' /\ Records' /\ Final'
  BY <1>1, <1>3, OneDecided
<1>5. /\ Pending' = Pending - 1 /\ QueueReserve' = QueueReserve
      /\ pool' = pool /\ limit' = limit /\ budget' = budget /\ configured' = configured
      /\ earlier' = earlier
      /\ Pending \in Int /\ Pending >= 1
  BY <1>1, <1>4, PendingShrinks DEF config
<1>6. /\ Decisions \in Nat /\ pool \in Nat /\ limit \in Nat /\ budget \in Int
      /\ clock \in Nat /\ QueueReserve \in Int /\ ContextReserve \in Nat
      /\ GatewayTimeout \in Nat /\ ContextReserve * (pool - Decisions) \in Int
  BY Numbers DEF IInv
<1> DEFINE c == ContextReserve * (pool - Decisions)
           w == FairWindow
<1>7. ContextReserve * (pool' - Decisions') = c - ContextReserve
  BY <1>4, <1>5, <1>6, ReserveShrinks
<1>8. Available = budget - clock - QueueReserve - c /\ Available \in Int
  BY <1>6 DEF Available, Decisions
<1>9. w \in Int /\ w >= 1 /\ CallTimeout <= w /\ CallTimeout \in Int
  <2>1. w \in Int
    BY <1>5, <1>8 DEF FairWindow
  <2> QED BY <1>1, <1>6, <2>1 DEF CallTimeout, Least
<1>10. w = Available \div Pending /\ Available >= Pending
  BY <1>5, <1>8, <1>9 DEF FairWindow
<1>11. w \in Nat /\ w * Pending <= Available /\ w <= Available
  BY <1>5, <1>8, <1>10, WindowFits
<1>12. t \in Nat /\ t <= w /\ d \in Nat
  BY <1>2, <1>9, ConfigAssumption
<1> HIDE DEF w
<1>13. TypeOK'
  <2>1. clock' \in Nat /\ lap' \in Nat /\ overran' \in BOOLEAN /\ share' \in Nat
    BY <1>1, <1>2, <1>6, <1>11, <1>12 DEF w
  <2> QED BY <1>1, <1>4, <1>5, <2>1 DEF IInv, TypeOK
<1>14. Left'
  <2>1. budget - (clock + t + d) >= QueueReserve + (c - ContextReserve) + ContextReserve - d
    <3>1. ASSUME NEW a \in Int, NEW b \in Int, NEW k \in Int, NEW q \in Int, NEW v \in Int,
                 NEW r \in Int, NEW l \in Int, NEW x \in Int,
                 a = b - k - q - v, x <= a
          PROVE  b - (k + x + l) >= q + (v - r) + r - l
      BY <3>1
    <3>2. t <= Available
      BY <1>8, <1>11, <1>12
    <3> HIDE DEF c
    <3> QED BY <1>6, <1>8, <1>12, <3>1, <3>2 DEF c
  <2>2. configured' /\ (lap' > ContextReserve => overran')
    BY <1>1, <1>2, <1>5
  <2>3. Len(results') # 4 /\ pc' # "stage"
    <3>1. Len(results) = 2 /\ results' = results
      BY <1>1 DEF IInv, Place
    <3>2. pc' = "context"
      BY <1>4
    <3> QED BY <3>1, <3>2
  <2> HIDE DEF c
  <2> QED BY <1>2, <1>5, <1>7, <2>1, <2>2, <2>3 DEF Left
<1>15. Windows'
  <2>1. budget - (clock + t + d)
            - (QueueReserve + (c - ContextReserve) + ContextReserve - d) >= w * (Pending - 1)
    <3>1. ASSUME NEW a \in Int, NEW b \in Int, NEW k \in Int, NEW q \in Int, NEW v \in Int,
                 NEW r \in Int, NEW l \in Int, NEW x \in Int, NEW y \in Int, NEW z \in Int,
                 a = b - k - q - v, x <= y, z <= a
          PROVE  b - (k + x + l) - (q + (v - r) + r - l) >= z - y
      BY <3>1
    <3>2. w * (Pending - 1) = w * Pending - w
      BY <1>5, <1>11, SMT
    <3>3. w * Pending \in Int
      BY <1>5, <1>11
    <3> HIDE DEF c
    <3> QED BY <1>5, <1>6, <1>8, <1>11, <1>12, <3>1, <3>2, <3>3 DEF c
  <2> HIDE DEF c
  <2> QED BY <1>1, <1>2, <1>5, <1>7, <2>1 DEF Windows, w
<1> QED BY <1>4, <1>13, <1>14, <1>15 DEF IInv

LEMMA NextIInv == IInv /\ [Next]_vars => IInv'
<1> SUFFICES ASSUME IInv, [Next]_vars PROVE IInv'
  OBVIOUS
<1>1. CASE Next
  BY <1>1, BeginStageStep, StageRaisesStep, RecordRunStep, ScanStep, BuildPoolStep,
     BuildQueueStep, ReadContextStep, PassOverStep, CallModelStep, EndDiligenceStep
     DEF Next, Progress
<1>2. CASE UNCHANGED vars
  <2> USE <1>2 DEF vars, config, diligence, history
  <2>1. TypeOK'
    BY DEF IInv, TypeOK
  <2>2. Place' /\ Records'
    BY DEF IInv, Place, Records, Decisions
  <2>3. Final'
    BY DEF IInv, Final, DeriveRunStatus, Items, Stages
  <2>4. Left' /\ Windows'
    BY DEF IInv, Left, Windows, Kept, Pending, Decisions, QueueReserve
  <2> QED BY <2>1, <2>2, <2>3, <2>4 DEF IInv
<1> QED BY <1>1, <1>2

LEMMA Invariance == Spec => []IInv
BY InitIInv, NextIInv, PTL DEF Spec

-----------------------------------------------------------------------------
(* The variables of a run keep their types; the clock, the windows and the *)
(* laps are whole seconds.                                                 *)
THEOREM TypeCorrect == Spec => []TypeOK
<1>1. IInv => TypeOK
  BY DEF IInv
<1> QED BY <1>1, Invariance, PTL

(* However the budget is divided among the calls, the queue is not given   *)
(* up because of them: diligence_call_timeout_seconds leaves its reserves. *)
THEOREM QueueTimeIsKept == Spec => []CallsLeaveTimeForQueue
<1>1. IInv => CallsLeaveTimeForQueue
  BY DEF IInv, Left, Kept, CallsLeaveTimeForQueue, StageCount
<1> QED BY <1>1, Invariance, PTL

(* No call takes time from the candidates after it: their windows are at   *)
(* least as large as its own was.                                          *)
THEOREM WindowsDoNotShrink == Spec => []LaterWindowNotSmaller
<1>1. IInv => LaterWindowNotSmaller
  BY NextWindow DEF LaterWindowNotSmaller, Kept, Decisions
<1> QED BY <1>1, Invariance, PTL

(* A stage that failed is the last that ran: run_stages skips the others.  *)
THEOREM FailureEndsTheRun == Spec => []NothingRunsAfterFailure
<1>1. IInv => NothingRunsAfterFailure
  BY DEF IInv, Records, NothingRunsAfterFailure
<1> QED BY <1>1, Invariance, PTL

(* A queue stage that did not fail keeps every candidate of the pool, and  *)
(* gives a reason for each that has no viewpoint.                          *)
THEOREM CandidatesAreKept == Spec => []EveryCandidateQueued
<1>1. IInv => EveryCandidateQueued
  <2> SUFFICES ASSUME IInv, Len(results) = 4, results[4].status \in {"passed", "partial"}
               PROVE  /\ queue = pool /\ Len(outcomes) = pool
                      /\ \A i \in 1..pool :
                            outcomes[i] # "generated" => ReasonCode(outcomes[i]) # "none"
    BY DEF EveryCandidateQueued, StageCount
  <2>1. queue = pool /\ Len(outcomes) = pool
    BY DEF IInv, Records, Decisions
  <2>2. ASSUME NEW i \in 1..pool PROVE outcomes[i] \in Outcome
    BY <2>1, Numbers DEF IInv, TypeOK
  <2>3. \A o \in Outcome : o # "generated" => ReasonCode(o) # "none"
    BY DEF Outcome, Called, NotCalled, ReasonCode
  <2> QED BY <2>1, <2>2, <2>3
<1> QED BY <1>1, Invariance, PTL

(* What derive_run_status calls passed ran in full, with a call for every  *)
(* candidate and none that failed or timed out, or found no candidate      *)
(* while items of an earlier run are stored under its id; what it calls    *)
(* empty found no candidate.                                               *)
THEOREM StatusIsTrue == Spec => []StatusTellsWhatRan
<1>1. IInv => StatusTellsWhatRan
  <2> SUFFICES ASSUME IInv, status \in {"passed", "empty"}
               PROVE  StatusTellsWhatRan
    BY DEF StatusTellsWhatRan
  <2>1. Len(results) = 4 /\ DeriveRunStatus = status
    BY DEF IInv, Final
  <2>2. results \in Seq(StageRecord) /\ DOMAIN results = 1..4
    BY <2>1 DEF IInv, TypeOK
  <2>3. ASSUME NEW i \in 1..4
        PROVE  \/ results[i].status = "passed"
               \/ /\ results[i].status = "skipped" /\ results[i].reason = "no_candidates"
                  /\ i >= 3 /\ pool = 0
    <3>1. results[i] \in StageRecord
      <4>1. i \in 1..Len(results)
        BY <2>1
      <4>2. results \in Seq(StageRecord)
        BY <2>2
      <4> QED BY <4>1, <4>2
    <3>2. results[i].status \in StageStatus
      BY <3>1 DEF StageRecord
    <3>3. results[i].status # "failed" /\ results[i].status # "partial"
      BY <2>1, <2>2 DEF DeriveRunStatus, Stages
    <3>4. results[i].status = "skipped" => results[i].reason = "no_candidates"
      BY <2>1, <2>2 DEF DeriveRunStatus, Stages
    <3>5. results[i].status = "skipped" => i >= 3 /\ pool = 0
      BY <2>2, <3>4 DEF IInv, Records
    <3> QED BY <3>2, <3>3, <3>4, <3>5 DEF StageStatus
  <2>4. status = "passed" <=> earlier + queue # 0
    BY <2>1 DEF DeriveRunStatus, Items
  <2>5. pool \in Nat /\ queue \in Nat /\ queue <= pool /\ earlier \in Nat
    BY ConfigAssumption DEF IInv, TypeOK, Place
  <2>6. results[1].status = "passed" /\ results[2].status = "passed"
    BY <2>3
  <2>7. CASE status = "passed" /\ pool # 0
    <3>1. pool # 0
      BY <2>7
    <3>2. \A i \in 1..4 : results[i].status = "passed"
      BY <2>3, <3>1
    <3>3. queue = pool /\ Len(outcomes) = pool
      BY <2>1, <3>2 DEF IInv, Records, Decisions
    <3>4. \A i \in DOMAIN outcomes : outcomes[i] \in Calls
      <4>1. reason_codes = << >>
        BY <2>1, <3>2 DEF IInv, Records
      <4> QED BY <4>1 DEF IInv, Records
    <3>5. DOMAIN outcomes = 1..pool
      BY <3>3 DEF IInv, TypeOK
    <3>6. Stages("passed") = 1..4
      BY <2>2, <3>2 DEF Stages
    <3> QED BY <2>7, <3>3, <3>4, <3>5, <3>6 DEF StatusTellsWhatRan, Calls, StageCount
  <2>8. CASE status = "passed" /\ pool = 0
    <3>1. earlier > 0
      BY <2>4, <2>5, <2>8
    <3> QED BY <2>2, <2>8, <2>6, <3>1 DEF StatusTellsWhatRan, Stages
  <2>9. CASE status = "empty"
    <3>1. queue = 0 /\ earlier = 0
      BY <2>4, <2>5, <2>9
    <3>2. pool = 0
      <4> SUFFICES ASSUME pool # 0 PROVE FALSE
        OBVIOUS
      <4>1. results[4].status = "passed"
        BY <2>3
      <4> QED BY <2>1, <3>1, <4>1 DEF IInv, Records
    <3> QED BY <2>2, <2>9, <2>6, <3>1, <3>2 DEF StatusTellsWhatRan, Stages
  <2> QED BY <2>7, <2>8, <2>9
<1> QED BY <1>1, Invariance, PTL
-----------------------------------------------------------------------------
(* The step measure. *)

LEMMA Offsets ==
    /\ Offset["stage"] = 1 /\ Offset["decide"] = -1
    /\ Offset["scan"] = 0 /\ Offset["pool"] = 0 /\ Offset["context"] = 0
    /\ Offset["queue"] = 0 /\ Offset["end"] = 0
BY DEF Offset

(* Where the run is tells what it has left to do. *)
LEMMA Position ==
    ASSUME IInv
    PROVE  /\ CandidateLimit \in Nat
           /\ Len(results) \in Nat /\ Len(results) <= 4
           /\ Decisions \in Nat /\ Decisions <= CandidateLimit
           /\ pc \in {"scan", "pool", "context", "decide"} => Len(results) <= 2
           /\ pc = "decide" => Len(results) = 2 /\ Decisions < CandidateLimit
           /\ pc \in {"stage", "scan", "pool", "context", "decide", "queue", "end"}
<1>1. /\ Len(results) \in Nat /\ Len(results) <= 4 /\ Decisions \in Nat /\ pool \in Nat
  BY Numbers DEF IInv
<1>2. CandidateLimit \in Nat /\ pool \in 0..CandidateLimit /\ Decisions <= pool
  BY ConfigAssumption DEF IInv, TypeOK, Place
<1>3. pc = "decide" => Decisions < pool
  BY DEF IInv, Place
<1>4. pc \in {"scan", "pool", "context", "decide"} => Len(results) <= 2
  <2>1. /\ pc = "scan" => Len(results) = 0
        /\ pc = "pool" => Len(results) = 1
        /\ pc \in {"context", "decide"} => Len(results) = 2
    BY DEF IInv, Place
  <2>2. ASSUME NEW n \in {0, 1, 2} PROVE n <= 2
    OBVIOUS
  <2>3. pc \in {"scan", "pool", "context", "decide"} => Len(results) \in {0, 1, 2}
    BY <2>1
  <2> QED BY <2>2, <2>3
<1>5. pc = "decide" => Len(results) = 2
  BY DEF IInv, Place
<1>6. pc \in {"stage", "scan", "pool", "context", "decide", "queue", "end"}
  BY DEF IInv, TypeOK
<1> QED BY <1>1, <1>2, <1>3, <1>4, <1>5, <1>6

LEMMA StepsLeft ==
    ASSUME IInv
    PROVE  /\ StepsToGo = 2 * (4 - Len(results)) + Offset[pc]
                 + (IF Len(results) <= 2 THEN 2 * (CandidateLimit - Decisions) ELSE 0)
           /\ StepsToGo \in Int /\ StepsToGo >= 0
<1>1. StepsToGo = 2 * (4 - Len(results)) + Offset[pc]
          + (IF Len(results) <= 2 THEN 2 * (CandidateLimit - Decisions) ELSE 0)
  BY DEF StepsToGo, Decisions, StageCount
<1>2. /\ Offset[pc] \in Int /\ Offset[pc] >= -1
      /\ Offset[pc] < 0 => Len(results) <= 2
  BY Position, Offsets
<1> DEFINE n == Len(results)
           k == Decisions
           o == Offset[pc]
<1>3. n \in Nat /\ n <= 4 /\ k \in Nat /\ CandidateLimit \in Nat /\ k <= CandidateLimit
  BY Position
<1>4. o = -1 => n = 2 /\ k < CandidateLimit
  BY Position, Offsets
<1> HIDE DEF n, k, o
<1>5. /\ 2 * (4 - n) + o + (IF n <= 2 THEN 2 * (CandidateLimit - k) ELSE 0) \in Int
      /\ 2 * (4 - n) + o + (IF n <= 2 THEN 2 * (CandidateLimit - k) ELSE 0) >= 0
  BY <1>2, <1>3, <1>4 DEF o
<1> QED BY <1>1, <1>5 DEF n, k, o

(* A stage that is over takes what was left of it along. *)
LEMMA StageEnds ==
    ASSUME IInv, IInv', Len(results') = Len(results) + 1, pc' = "stage", pc # "end",
           Decisions' = Decisions
    PROVE  StepsToGo' < StepsToGo
<1> DEFINE n == Len(results)
           m == Len(results)'
           k == Decisions
           o == Offset[pc]
<1>1. /\ StepsToGo = 2 * (4 - n) + o + (IF n <= 2 THEN 2 * (CandidateLimit - k) ELSE 0)
      /\ StepsToGo' = 2 * (4 - m) + 1 + (IF m <= 2 THEN 2 * (CandidateLimit - k) ELSE 0)
  <2>1. Offset[pc'] = 1
    BY Offsets
  <2>2. StepsToGo' = 2 * (4 - m) + Offset[pc']
          + (IF m <= 2 THEN 2 * (CandidateLimit - Decisions') ELSE 0)
    BY DEF StepsToGo, Decisions, StageCount, Offset
  <2> QED BY <2>1, <2>2, StepsLeft
<1>2. m = n + 1 /\ n \in Nat /\ k \in Nat /\ CandidateLimit \in Nat /\ k <= CandidateLimit
  BY Position
<1>3. \/ o \in {0, 1}
      \/ o = -1 /\ n = 2 /\ k < CandidateLimit
  BY Position, Offsets
<1> HIDE DEF n, m, k, o
<1> QED BY <1>1, <1>2, <1>3

(* Within a stage the number of records stays, and a step either decides   *)
(* on a candidate or goes from the beginning of the stage inwards.         *)
LEMMA StageGoesOn ==
    ASSUME IInv, IInv', results' = results,
           \/ Decisions' = Decisions /\ Offset[pc'] < Offset[pc]
           \/ Decisions' = Decisions + 1 /\ pc = "decide" /\ pc' = "context"
    PROVE  StepsToGo' < StepsToGo
<1> DEFINE n == Len(results)
           k == Decisions
           l == Decisions'
           o == Offset[pc]
           p == Offset[pc']
<1>1. /\ StepsToGo = 2 * (4 - n) + o + (IF n <= 2 THEN 2 * (CandidateLimit - k) ELSE 0)
      /\ StepsToGo' = 2 * (4 - n) + p + (IF n <= 2 THEN 2 * (CandidateLimit - l) ELSE 0)
  <2>1. StepsToGo' = 2 * (4 - Len(results')) + p
          + (IF Len(results') <= 2 THEN 2 * (CandidateLimit - l) ELSE 0)
    BY DEF StepsToGo, Decisions, StageCount, Offset
  <2> QED BY <2>1, StepsLeft
<1>2. n \in Nat /\ k \in Nat /\ l \in Nat /\ CandidateLimit \in Nat
  <2>1. Decisions' \in Nat
    BY Position
  <2> QED BY <2>1, Position
<1>3. pc' \in {"stage", "scan", "pool", "context", "decide", "queue", "end"}
  BY DEF IInv, TypeOK
<1>4. o \in Int /\ p \in Int
  BY <1>3, Position, Offsets
<1>5. \/ l = k /\ p < o
      \/ l = k + 1 /\ p = 0 /\ o = -1 /\ n = 2
  BY Position, Offsets
<1> HIDE DEF n, k, l, o, p
<1> QED BY <1>1, <1>2, <1>4, <1>5

LEMMA EveryStepCounts ==
    ASSUME IInv, IInv', Next
    PROVE  0 <= StepsToGo' /\ StepsToGo' < StepsToGo
<1>0. 0 <= StepsToGo'
  <2>1. IInv' => (StepsToGo \in Int /\ StepsToGo >= 0)'
    BY StepsLeft, PTL
  <2> QED BY <2>1
<1> SUFFICES StepsToGo' < StepsToGo
  BY <1>0
<1> USE DEF diligence
<1>1. results \in Seq(StageRecord)
  BY DEF IInv, TypeOK
<1>2. ASSUME NEW s, NEW r, Report(s, r)
      PROVE  Len(results') = Len(results) + 1 /\ pc' = "stage"
  BY <1>1, <1>2 DEF Report
<1>3. CASE BeginStage
  <2>1. pc = "stage" /\ Len(results) < 4 /\ UNCHANGED outcomes
    BY <1>3 DEF BeginStage, StageCount
  <2>2. CASE cascade = "none" /\ clock <= budget
    <3>1. results' = results /\ pc' = <<"scan", "pool", "context", "queue">>[Len(results) + 1]
      BY <1>3, <2>2 DEF BeginStage
    <3>2. Len(results) = 0 \/ Len(results) = 1 \/ Len(results) = 2 \/ Len(results) = 3
      BY <2>1, Position, FirstFour
    <3>3. pc' \in {"scan", "pool", "context", "queue"}
      <4>1. ASSUME NEW m \in 1..4
            PROVE  <<"scan", "pool", "context", "queue">>[m]
                       \in {"scan", "pool", "context", "queue"}
        BY <4>1
      <4>2. Len(results) + 1 \in 1..4
        <5>1. ASSUME NEW n \in {0, 1, 2, 3} PROVE n + 1 \in 1..4
          OBVIOUS
        <5> QED BY <3>2, <5>1
      <4> QED BY <3>1, <4>1, <4>2
    <3>4. Offset[pc'] < Offset[pc]
      BY <2>1, <3>3, Offsets
    <3>5. Decisions' = Decisions
      BY <2>1 DEF Decisions
    <3> QED BY <3>1, <3>4, <3>5, StageGoesOn
  <2>3. CASE ~(cascade = "none" /\ clock <= budget)
    <3>1. PICK r : results' = Append(results, r) /\ pc' = pc
      BY <1>3, <2>3 DEF BeginStage
    <3>2. Len(results') = Len(results) + 1
      BY <1>1, <3>1
    <3>3. Decisions' = Decisions
      BY <2>1 DEF Decisions
    <3> QED BY <2>1, <3>1, <3>2, <3>3, StageEnds
  <2> QED BY <2>2, <2>3
<1>4. CASE StageRaises \/ Scan \/ BuildPool \/ BuildQueue \/ EndDiligence
  <2>1. \E s, r : Report(s, r)
    <3>1. StageRaises => Report("failed", "stage_runner_error")
      BY DEF StageRaises
    <3>2. Scan \/ BuildPool => \E s, r : Report(s, r)
      BY Zenon DEF Scan, BuildPool
    <3>3. BuildQueue => \E s, r : Report(s, r)
      BY Zenon DEF BuildQueue
    <3>4. EndDiligence => \E s, r : Report(s, r)
      BY Zenon DEF EndDiligence
    <3> QED BY <1>4, <3>1, <3>2, <3>3, <3>4, Zenon
  <2>2. pc # "end" /\ UNCHANGED outcomes
    BY <1>4 DEF StageRaises, Scan, BuildPool, BuildQueue, EndDiligence
  <2>3. Decisions' = Decisions
    BY <2>2 DEF Decisions
  <2>4. Len(results') = Len(results) + 1 /\ pc' = "stage"
    BY <1>2, <2>1
  <2> QED BY <2>2, <2>3, <2>4, StageEnds
<1>5. CASE ReadContext
  <2>1. results' = results /\ outcomes' = outcomes /\ pc = "context" /\ pc' = "decide"
    BY <1>5 DEF ReadContext
  <2>2. Offset[pc'] < Offset[pc]
    BY <2>1, Offsets
  <2>3. Decisions' = Decisions
    BY <2>1 DEF Decisions
  <2> QED BY <2>1, <2>2, <2>3, StageGoesOn
<1>6. CASE PassOver \/ CallModel
  <2>1. results' = results /\ pc = "decide"
    BY <1>6 DEF PassOver, CallModel
  <2>2. PICK o : Decided(o)
    BY <1>6 DEF PassOver, CallModel
  <2>3. outcomes \in Seq(Outcome)
    BY DEF IInv, TypeOK
  <2>4. Len(outcomes') = Len(outcomes) + 1 /\ pc' = "context"
    BY <2>2, <2>3 DEF Decided
  <2>5. Decisions' = Decisions + 1
    BY <2>4 DEF Decisions
  <2> QED BY <2>1, <2>4, <2>5, StageGoesOn
<1>7. CASE RecordRun
  <2>1. results' = results /\ outcomes' = outcomes /\ pc = "stage" /\ pc' = "end"
    BY <1>7 DEF RecordRun
  <2>2. Offset[pc'] < Offset[pc]
    BY <2>1, Offsets
  <2>3. Decisions' = Decisions
    BY <2>1 DEF Decisions
  <2> QED BY <2>1, <2>2, <2>3, StageGoesOn
<1> QED BY <1>3, <1>4, <1>5, <1>6, <1>7 DEF Next, Progress

(* The run comes to its end whatever the market, the candidates and the    *)
(* model do: each step of run_stages and of the stages is one of the few   *)
(* there are, and none of them is taken back.                              *)
THEOREM RunEnds == Spec => RunIsShort
<1>1. IInv /\ IInv' /\ [Next]_vars => [0 <= StepsToGo' /\ StepsToGo' < StepsToGo]_vars
  BY EveryStepCounts
<1> QED BY <1>1, Invariance, PTL DEF Spec, RunIsShort
=============================================================================
