SPECIFICATION Spec
CONSTANTS
    load = load
    score = score
    publish = publish
    Task = {load, score, publish}
    Deps <- MCDeps
    Position <- MCPosition
    Key = {k1}
    Fresh = Fresh
    RunId = {r1, r2}
    NoRun = NoRun
    NoTask = NoTask
    Claim = {"succeeded"}
SYMMETRY RunSymmetry
CONSTRAINT OneExecuted
INVARIANTS RanAfterUpstream SucceededIsDone
