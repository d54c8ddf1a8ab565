SPECIFICATION Spec
CONSTANTS
    p1 = p1
    p2 = p2
    o1 = o1
    o2 = o2
    v1 = v1
    v2 = v2
    v3 = v3
    None = None
    Process = {p1, p2}
    Obs = {o1, o2}
    Day = {1, 2}
    Value = {v1, v2, v3}
SYMMETRY Symmetry
CONSTRAINT FewRows
PROPERTIES LogSpec AnsweredIsStored OlderAnswersKept
