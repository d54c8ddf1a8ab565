---------------------------- MODULE MCRecordStore ----------------------------
(* RecordStore with up to four records: one audited under a type that      *)
(* names its collection (a report), one audited under a type that names    *)
(* none (an entity mapping), a market-data bar and one usage metric.       *)
EXTENDS RecordStore, TLC

CONSTANTS report, mapping, bar, usage, v1, v2

MCCollection ==
    {"research_reports", "entity_mappings", "market_data", "usage_metrics"}

MCCollectionOf ==
    [k \in Key |-> CASE k = report -> "research_reports"
                     [] k = mapping -> "entity_mappings"
                     [] k = bar -> "market_data"
                     [] k = usage -> "usage_metrics"]

MCResource == {"research_report", "mapping", "market_data", "usage_metric"}

MCFiledAs ==
    [k \in Key |-> CASE k = report -> "research_report"
                     [] k = mapping -> "mapping"
                     [] k = bar -> "market_data"
                     [] k = usage -> "usage_metric"]

MCCandidates ==
    [r \in MCResource |-> CASE r = "research_report" -> {"research_reports"}
                            [] r = "mapping" -> {}
                            [] r = "market_data" -> {"market_data"}
                            [] r = "usage_metric" -> {"usage_metrics"}]

PayloadSymmetry == Permutations(Payload)
=============================================================================
