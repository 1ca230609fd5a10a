\* A flush() from a context that shares the span, during its close.
CONSTANTS
    c1 = c1  c2 = c2  s1 = s1  s2 = s2  e1 = e1  k1 = k1  i1 = i1
    Contexts = {c1, c2}
    Main = c1
    Spans = {s1}
    Logs = {}
    Keys = {}
    Inbound = {}
    WithParent = {}
    MaxDepth = 1
    MaxSweeps = 1
    MaxContinues = 0
    MaxResets = 0
    Faults = FALSE
    None = None
SPECIFICATION Spec
INVARIANTS EndArrives
