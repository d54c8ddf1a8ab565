SPECIFICATION Spec
CONSTANTS
    Process = {p1, p2}
    Snapshot = {d1, d2, d3, d4}
    Newline = Newline
    Torn = Torn
    None = None
SYMMETRY Symmetry
INVARIANTS PromisedReplayed PromisedOnDisk WholeLinesAreValid HashesTellHistory
PROPERTIES LogSpec
