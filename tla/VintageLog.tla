------------------------------ MODULE VintageLog ------------------------------
(***************************************************************************)
(* What the observation repository promises (README.md, strict refresh;    *)
(* docs/api-contracts.md, T-589): for every observation date and vintage   *)
(* day an append-only log of distinct values.  A refresh of a day adds to  *)
(* some logs of that day one value each, all of them at once.              *)
(***************************************************************************)
EXTENDS Naturals, Sequences

CONSTANTS
    Obs,            \* observation dates of the series
    Day,            \* vintage days
    Value           \* values a source may report

VARIABLE log        \* log[<<o, d>>]: revisions of o with vintage d

Init == log = [x \in Obs \X Day |-> << >>]

Added(x, v) == IF \E i \in DOMAIN log[x] : log[x][i] = v THEN log[x] ELSE Append(log[x], v)

Refresh(d, values) ==
    log' = [x \in Obs \X Day |->
               IF x[2] = d /\ x[1] \in DOMAIN values THEN Added(x, values[x[1]]) ELSE log[x]]

Next ==
    /\ log' # log
    /\ \E d \in Day : \E S \in SUBSET Obs : \E values \in [S -> Value] : Refresh(d, values)

Spec == Init /\ [][Next]_log
=============================================================================
