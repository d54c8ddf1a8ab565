---------------------------- MODULE DailyMainline ----------------------------
(***************************************************************************)
(* One run of the daily mainline, SystemService.run_daily_mainline         *)
(* (app/services.py) over run_stages (app/service_modules/                 *)
(* daily_mainline.py): scan the market, build the candidate pool, have a   *)
(* language model look into the first candidates, queue them all for       *)
(* research.  The four stages share one time budget, and a candidate's     *)
(* call to the model gets a share of what is left of it, so that the       *)
(* contexts still to be read and the queue keep theirs.  The run id may    *)
(* come with the request: the items an earlier run left under it are       *)
(* counted with those of this run.                                         *)
(*                                                                         *)
(* Time passes in whole seconds.  A call ends within its own timeout       *)
(* (LLMGateway._send_with_hard_timeout); everything else the run does may  *)
(* take longer than the code allows for, up to MaxWork a step.             *)
(***************************************************************************)
EXTENDS Integers, Sequences

CONSTANTS
    Budgets,        \* timeout_seconds a request may come with
    Limits,         \* diligence_limit it may come with
    CandidateLimit, \* candidate_limit
    Earlier,        \* how many items may be stored under its run_id before
    GatewayTimeout, \* LLMGateway.timeout
    ContextReserve, \* DILIGENCE_NON_LLM_RESERVE_SECONDS
    ReserveMax,     \* QUEUE_STAGE_RESERVE_MAX_SECONDS
    MaxWork         \* bound of the model: seconds of other work in one step

ASSUME ConfigAssumption ==
    /\ Budgets \subseteq Nat \ {0}
    /\ Limits \subseteq Nat \ {0}
    /\ CandidateLimit \in Nat \ {0}
    /\ Earlier \subseteq Nat
    /\ GatewayTimeout \in Nat \ {0}
    /\ ContextReserve \in Nat
    /\ ReserveMax \in Nat \ {0}
    /\ MaxWork \in Nat

VARIABLES
    budget, limit,  \* the configuration of this run
    configured,     \* the gateway has a key
    earlier,        \* queue items stored under the run id before the run
    clock,          \* seconds since the run began
    pc,             \* the stage that runs, or where run_stages is
    results,        \* the stage records so far
    cascade,        \* cascade_reason
    pool,           \* how many candidates the pool has
    outcomes,       \* what came of the candidates so far, in rank order
    reason_codes,   \* reason_codes of the diligence stage
    queue,          \* queue items this run creates, from its first candidate
    status,         \* of the run record; "none" until there is one
    (***********************************************************************)
    (* History: how the run kept to its allowances since its last call.    *)
    (***********************************************************************)
    share,          \* the fair window of the last call, 0 before the first
    lap,            \* other work since the last candidate was decided on
    overran         \* a lap was longer than ContextReserve since that call

config == <<budget, limit, configured, earlier>>
diligence == <<pool, outcomes, reason_codes>>
history == <<share, lap, overran>>
vars == <<config, clock, pc, results, cascade, diligence, queue, status,
          history>>

StageCount == 4
StageStatus == {"passed", "partial", "failed", "skipped"}
RunStatus == {"passed", "partial", "failed", "empty"}

(* What may come of a candidate: a viewpoint, one without evidence, one    *)
(* without text; a call that failed or timed out; no call at all.          *)
Called == {"generated", "unsupported", "no_text", "call_failed", "timed_out"}
NotCalled == {"over_limit", "unconfigured", "no_time"}

(* diligence_reason_code; "none" stands for the empty string. *)
ReasonCode(o) ==
    CASE o = "generated"    -> "none"
      [] o = "unsupported"  -> "evidence_missing"
      [] o = "no_text"      -> "llm_call_failed"
      [] o = "call_failed"  -> "llm_call_failed"
      [] o = "timed_out"    -> "llm_timeout"
      [] o = "over_limit"   -> "diligence_budget_exhausted"
      [] o = "unconfigured" -> "llm_gateway_unconfigured"
      [] o = "no_time"      -> "timeout_budget_exceeded"

Reasons == {ReasonCode(o) : o \in Called \cup NotCalled} \cup
    {"upstream_stage_failed", "stage_runner_error", "market_data_stale",
     "market_data_unavailable", "no_candidates", "completeness_unavailable",
     "store_write_failed"}

Outcome == Called \cup NotCalled
StageRecord == [status : StageStatus, reason : Reasons]

TypeOK ==
    /\ budget \in Nat \ {0} /\ limit \in Nat \ {0} /\ configured \in BOOLEAN
    /\ earlier \in Nat
    /\ clock \in Nat
    /\ pc \in {"stage", "scan", "pool", "context", "decide", "queue", "end"}
    /\ results \in Seq(StageRecord)
    /\ cascade \in Reasons
    /\ pool \in 0..CandidateLimit
    /\ outcomes \in Seq(Outcome)
    /\ reason_codes \in Seq(Reasons)
    /\ queue \in 0..CandidateLimit
    /\ status \in RunStatus \cup {"none"}
    /\ share \in Nat /\ lap \in Nat /\ overran \in BOOLEAN

Init ==
    /\ budget \in Budgets /\ limit \in Limits /\ configured \in BOOLEAN
    /\ earlier \in Earlier
    /\ clock = 0
    /\ pc = "stage"
    /\ results = << >> /\ cascade = "none"
    /\ pool = 0 /\ outcomes = << >> /\ reason_codes = << >>
    /\ queue = 0
    /\ status = "none"
    /\ share = 0 /\ lap = 0 /\ overran = FALSE

-----------------------------------------------------------------------------
(* run_stages *)

(* Other work goes on for d seconds. *)
Work(d) ==
    /\ clock' = clock + d
    /\ lap' = lap + d
    /\ overran' = (overran \/ lap + d > ContextReserve)
    /\ UNCHANGED share

(* Seeded fault: a failed stage does not stop the ones after it. *)
FaultReport(s, r) ==
    /\ results' = Append(results, [status |-> s, reason |-> r])
    /\ cascade' = IF clock' > budget THEN "timeout_budget_exceeded" ELSE "none"
    /\ pc' = "stage"

(* A stage has returned: its record is kept, and if it failed, or the      *)
(* budget is exceeded, all that follow are skipped.                        *)
Report(s, r) ==
    /\ results' = Append(results, [status |-> s, reason |-> r])
    /\ cascade' = IF s = "failed" THEN "upstream_stage_failed"
                  ELSE IF clock' > budget THEN "timeout_budget_exceeded"
                  ELSE "none"
    /\ pc' = "stage"

(* The next stage begins, or is skipped. *)
BeginStage ==
    /\ pc = "stage"
    /\ Len(results) < StageCount
    /\ IF cascade = "none" /\ clock <= budget
       THEN /\ pc' = <<"scan", "pool", "context", "queue">>[Len(results) + 1]
            /\ UNCHANGED <<results, cascade>>
       ELSE LET reason == IF cascade # "none" THEN cascade
                          ELSE "timeout_budget_exceeded"
            IN /\ results' = Append(results, [status |-> "skipped",
                                              reason |-> reason])
               /\ cascade' = reason
               /\ UNCHANGED pc
    /\ UNCHANGED <<config, clock, diligence, queue, status, history>>

(* A stage raises: _audit could not commit, a template is not approved...  *)
(* The queue stage reports its own exceptions.                             *)
StageRaises ==
    /\ pc \in {"scan", "pool", "context", "decide"}
    /\ UNCHANGED <<config, clock, diligence, queue, status, history>>
    /\ Report("failed", "stage_runner_error")

-----------------------------------------------------------------------------
(* The stages *)

(* _daily_mainline_scan_stage: are there rows, and are they of the day? *)
Scan ==
    /\ pc = "scan"
    /\ \E d \in 0..MaxWork : Work(d)
    /\ \/ Report("failed", "market_data_unavailable")
       \/ Report("partial", "market_data_stale")
       \/ Report("passed", "none")
    /\ UNCHANGED <<config, diligence, queue, status>>

(* _daily_mainline_candidate_stage: build_candidate_pool finds some. *)
BuildPool ==
    /\ pc = "pool"
    /\ \E d \in 0..MaxWork : Work(d)
    /\ pool' \in 0..CandidateLimit
    /\ Report("passed", IF pool' = 0 THEN "no_candidates" ELSE "none")
    /\ UNCHANGED <<config, outcomes, reason_codes, queue, status>>

Least(a, b) == IF a < b THEN a ELSE b

(* queue_stage_reserve_seconds: a tenth of the budget, within bounds.  It  *)
(* is rounded up, as the shares of what it leaves are rounded down.        *)
QueueReserve == Least(ReserveMax, (budget + 9) \div 10)

(* Seeded faults: only the contexts of candidates that get a call are      *)
(* allowed for; the window is not divided among the calls to come.         *)
FaultAvailable ==
    budget - clock - QueueReserve
        - ContextReserve * (Least(pool, limit) - Len(outcomes))

(* What diligence_call_timeout_seconds may give away: the queue's reserve  *)
(* and one context for every candidate not decided on are kept back.       *)
Available ==
    budget - clock - QueueReserve - ContextReserve * (pool - Len(outcomes))

Pending == Least(pool, limit) - Len(outcomes)

FaultFairWindow == IF Available < Pending THEN 0 ELSE Available

FairWindow == IF Available < Pending THEN 0 ELSE Available \div Pending

CallTimeout == Least(GatewayTimeout, FairWindow)

(* _daily_mainline_candidate_context of the next candidate. *)
ReadContext ==
    /\ pc = "context"
    /\ Len(outcomes) < pool
    /\ \E d \in 0..MaxWork : Work(d)
    /\ pc' = "decide"
    /\ UNCHANGED <<config, results, cascade, diligence, queue, status>>

(* Seeded fault: a call that timed out is made again. *)
FaultDecided(o) ==
    /\ outcomes' = IF o = "timed_out" THEN outcomes ELSE Append(outcomes, o)
    /\ reason_codes' = IF o \in NotCalled \cup {"call_failed"}
                       THEN Append(reason_codes, ReasonCode(o))
                       ELSE reason_codes
    /\ pc' = "context"

(* The item of a candidate.  A viewpoint that build_viewpoint finds        *)
(* unsupported, or without text, leaves no reason code with the stage.     *)
Decided(o) ==
    /\ outcomes' = Append(outcomes, o)
    /\ reason_codes' = IF o \in NotCalled \cup {"call_failed", "timed_out"}
                       THEN Append(reason_codes, ReasonCode(o))
                       ELSE reason_codes
    /\ pc' = "context"

(* Seeded fault: a gateway without a key is not noticed. *)
FaultPassOver ==
    /\ pc = "decide"
    /\ \/ Len(outcomes) >= limit /\ Decided("over_limit")
       \/ /\ Len(outcomes) < limit /\ configured /\ CallTimeout <= 0
          /\ Decided("no_time")
    /\ lap' = 0
    /\ UNCHANGED <<config, clock, results, cascade, pool, queue, status,
                   share, overran>>

(* The candidate gets no call: it is past the limit, there is no gateway,  *)
(* or there is no time.                                                    *)
PassOver ==
    /\ pc = "decide"
    /\ \/ Len(outcomes) >= limit /\ Decided("over_limit")
       \/ Len(outcomes) < limit /\ ~configured /\ Decided("unconfigured")
       \/ /\ Len(outcomes) < limit /\ configured /\ CallTimeout <= 0
          /\ Decided("no_time")
    /\ lap' = 0
    /\ UNCHANGED <<config, clock, results, cascade, pool, queue, status,
                   share, overran>>

(* run_llm_task: the call, and d seconds for its record and its audit. *)
CallModel ==
    /\ pc = "decide"
    /\ Len(outcomes) < limit /\ configured /\ CallTimeout > 0
    /\ \E o \in Called : Decided(o)
    /\ \E t \in 0..CallTimeout, d \in 0..MaxWork :
          /\ clock' = clock + t + d
          /\ lap' = d
          /\ overran' = (d > ContextReserve)
    /\ share' = FairWindow
    /\ UNCHANGED <<config, results, cascade, pool, queue, status>>

(* _daily_mainline_diligence_stage returns. *)
EndDiligence ==
    /\ pc = "context"
    /\ Len(outcomes) = pool
    /\ UNCHANGED <<config, clock, diligence, queue, status, history>>
    /\ IF pool = 0 THEN Report("skipped", "no_candidates")
       ELSE IF reason_codes = << >> THEN Report("passed", "none")
       ELSE Report("partial",
                   IF \E i \in DOMAIN reason_codes :
                         reason_codes[i] = "timeout_budget_exceeded"
                   THEN "timeout_budget_exceeded" ELSE Head(reason_codes))

(* Seeded fault: candidates that were not called are left out. *)
FaultQueued == Least(pool, limit)

(* Every candidate gets an item. *)
Queued == pool

(* _daily_mainline_queue_stage: an item for each candidate; the audit of   *)
(* an answer may fail and end it early; the completeness verdict of a      *)
(* company may be missing.                                                 *)
BuildQueue ==
    /\ pc = "queue"
    /\ \E d \in 0..MaxWork : Work(d)
    /\ IF pool = 0
       THEN Report("skipped", "no_candidates") /\ UNCHANGED queue
       ELSE \/ queue' = Queued /\ Report("passed", "none")
            \/ queue' = Queued /\ Report("partial", "completeness_unavailable")
            \/ queue' \in 0..(pool - 1) /\ Report("failed", "store_write_failed")
    /\ UNCHANGED <<config, diligence, status>>

-----------------------------------------------------------------------------
(* The run record *)

Stages(s) == {i \in DOMAIN results : results[i].status = s}

(* All items of the run id: those of this run have ids of their own and    *)
(* are added to what was stored.                                           *)
Items == earlier + queue

(* Seeded fault: a skipped stage counts for nothing. *)
FaultDeriveRunStatus ==
    IF Stages("failed") # {} THEN "failed"
    ELSE IF Stages("partial") # {} THEN "partial"
    ELSE IF Items = 0 THEN "empty" ELSE "passed"

(* derive_run_status *)
DeriveRunStatus ==
    IF Stages("failed") # {} THEN "failed"
    ELSE IF \/ Stages("partial") # {}
            \/ \E i \in Stages("skipped") : results[i].reason # "no_candidates"
         THEN "partial"
    ELSE IF Items = 0 THEN "empty" ELSE "passed"

(* The artifact is written, or cannot be, and the run is recorded. *)
RecordRun ==
    /\ pc = "stage"
    /\ Len(results) = StageCount
    /\ status' \in {DeriveRunStatus, "failed"}
    /\ pc' = "end"
    /\ UNCHANGED <<config, clock, results, cascade, diligence, queue, history>>

Progress ==
    \/ BeginStage \/ RecordRun
    \/ Scan \/ BuildPool \/ BuildQueue
    \/ ReadContext \/ PassOver \/ CallModel \/ EndDiligence

Next == Progress \/ StageRaises

Spec == Init /\ [][Next]_vars

(* The run is one thread, and nothing in it waits without a timeout.  It   *)
(* never has to raise.                                                     *)
FairSpec == Spec /\ WF_vars(Progress)

-----------------------------------------------------------------------------
(* The model calls keep to their shares: if every stretch of other work    *)
(* since the last call fitted its allowance, the queue is not given up for *)
(* lack of time.  (diligence_call_timeout_seconds: "without consuming      *)
(* context or queue reserves".)                                            *)
CallsLeaveTimeForQueue ==
    share > 0 /\ ~overran /\ Len(results) = StageCount
        => results[StageCount].reason # "timeout_budget_exceeded"

(* Nor does a call starve the candidates after it: within the limit, each  *)
(* of them is offered a window no smaller than the last one that was used. *)
LaterWindowNotSmaller ==
    (/\ share > 0 /\ ~overran
     /\ pc = "decide" /\ Len(outcomes) < limit)
        => FairWindow >= share

(* A recorded run is "passed" only if all four stages ran, the model was   *)
(* called for every candidate and no call failed or timed out; and "empty" *)
(* only if it looked for candidates and found none.  Items an earlier run  *)
(* left under the same id blur the two, and nothing else: then one that    *)
(* found no candidate is "passed" on their account, and none is "empty".   *)
(* (An answer without a text counts as a call that returned.)              *)
StatusTellsWhatRan ==
    /\ status = "passed" =>
          \/ /\ Stages("passed") = 1..StageCount
             /\ queue = pool /\ Len(outcomes) = pool
             /\ \A i \in 1..pool :
                   outcomes[i] \in Called \ {"call_failed", "timed_out"}
          \/ earlier > 0 /\ {1, 2} \subseteq Stages("passed") /\ pool = 0
    /\ status = "empty" =>
          earlier = 0 /\ {1, 2} \subseteq Stages("passed") /\ pool = 0

(* Whatever came of the candidates, a queue stage that did not fail keeps  *)
(* every one of them, and none that was not served lacks its reason        *)
(* (design.md, Property 13).                                               *)
EveryCandidateQueued ==
    (Len(results) = StageCount /\ results[StageCount].status \in {"passed", "partial"}) =>
        /\ queue = pool /\ Len(outcomes) = pool
        /\ \A i \in 1..pool : outcomes[i] # "generated" => ReasonCode(outcomes[i]) # "none"

(* A stage that failed, or that ended after the budget, is the last that   *)
(* ran (design.md, Properties 6 and 7).                                    *)
NothingRunsAfterFailure ==
    \A i, j \in DOMAIN results :
        (i < j /\ results[i].status = "failed") =>
            results[j] = [status |-> "skipped", reason |-> "upstream_stage_failed"]

(* How many steps the run is from its end, at the most: two for each stage *)
(* to come and two for each candidate to be decided on.                    *)
Offset ==
    [stage |-> 1, scan |-> 0, pool |-> 0, context |-> 0, decide |-> -1, queue |-> 0, end |-> 0]

StepsToGo ==
    2 * (StageCount - Len(results)) + Offset[pc]
        + (IF Len(results) <= 2 THEN 2 * (CandidateLimit - Len(outcomes)) ELSE 0)

(* No stage is run again, no candidate gets a second call, and whatever is *)
(* raised or skipped brings the run nearer to its end: it takes no more    *)
(* than 2 * CandidateLimit + 9 steps, however long each of them is.        *)
RunIsShort == [][0 <= StepsToGo' /\ StepsToGo' < StepsToGo]_vars

(* The run always ends with a record: no stage, candidate or call can hold *)
(* it up.                                                                  *)
RunIsRecorded == <>(status # "none")

(* What design.md:481 says: a run in which a call to the model failed is   *)
(* partial.  Not so when the call came back without a text.                *)
CallFailureNotPassed ==
    (\E i \in DOMAIN outcomes :
        ReasonCode(outcomes[i]) \in {"llm_call_failed", "llm_timeout"})
    => status # "passed"
=============================================================================
