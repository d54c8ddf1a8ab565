SPECIFICATION DailySpec
CONSTANTS
    Process = {p1, p2}
    Snapshot = {d1, d2}
    Newline = Newline
    Torn = Torn
    None = None
    Failed = Failed
SYMMETRY Symmetry
INVARIANTS FailedRunIsVisible
