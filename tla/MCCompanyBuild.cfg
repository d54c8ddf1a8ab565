SPECIFICATION Spec
CONSTANTS
    i1 = i1
    i2 = i2
    r1 = r1
    Issuer = {i1, i2}
    Layer <- MCLayer
    Profile = "profile"
    Order <- MCOrder
    Options <- MCOptions
    SelfNamed = {"event"}
    PerRecord = {"workflow"}
    Material <- MCMaterial
    Claims <- MCClaims
    BatchSize = 1
    RunId = {r1}
    NoRun = NoRun
INVARIANTS BatchedIsDurable CompletedIsBuilt StatusTellsWhatRan AnsweredIsDurable
