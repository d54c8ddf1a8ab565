SPECIFICATION FairSpec
CONSTANTS
    r1 = r1
    r2 = r2
    other = other
    record = record
    usage = usage
    v1 = v1
    v2 = v2
    Request = {r1, r2}
    Key = {record, other, usage}
    Payload = {v1, v2}
    Absent = Absent
    None = None
    MarketData = "market_data"
    TypedBars = FALSE
    UsageKey = usage
    Kinds = {"write", "denied", "allocation", "allocation_denied"}
    Collection <- MCCollection
    CollectionOf <- MCCollectionOf
INVARIANTS CommitsSerialized CacheSettled AckedUnlessRefused
PROPERTIES AllocationAnswered ContractUnlessRefused
