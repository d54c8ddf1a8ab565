SPECIFICATION Spec
CONSTANTS
    report = report
    mapping = mapping
    bar = bar
    usage = usage
    v1 = v1
    v2 = v2
    Key = {mapping, bar, usage}
    Payload = {v1, v2}
    Absent = Absent
    MarketData = "market_data"
    TypedBars = TRUE
    UsageKey = usage
    MaxAudit = 2
    Collection <- MCCollection
    CollectionOf <- MCCollectionOf
    Resource <- MCResource
    FiledAs <- MCFiledAs
    Candidates <- MCCandidates
SYMMETRY PayloadSymmetry
INVARIANTS CacheMatchesRows AckedSurvives TelemetryNotAhead AuditTrailIsPrefix
PROPERTIES ContractSpec BarsLeaveMemoryStored AuditedRecordDurable
