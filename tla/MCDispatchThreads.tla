-------------------------- MODULE MCDispatchThreads --------------------------
(* DispatchThreads with two business records of two collections and the    *)
(* usage metric.                                                           *)
EXTENDS DispatchThreads, TLC

CONSTANTS r1, r2, record, other, usage, v1, v2

MCCollection == {"sources", "reports", "usage_metrics", "market_data"}

MCCollectionOf ==
    [k \in Key |-> CASE k = usage -> "usage_metrics"
                     [] k = other -> "reports"
                     [] OTHER -> "sources"]
=============================================================================
