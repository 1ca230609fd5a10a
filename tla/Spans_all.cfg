\* Requests in one context, with nested calls, baggage, inbound traces and a flush; or two contexts
\* that share a span: level calls, flushes and the close.  Each step may fail, or be overtaken.
CONSTANTS
    c1 = c1  c2 = c2  s1 = s1  s2 = s2  e1 = e1  k1 = k1  i1 = i1
    Contexts = {c1, c2}
    Main = c1
    Spans = {s1, s2}
    Logs = {e1}
    Keys = {k1}
    Inbound = {i1}
    WithParent = {i1}
    MaxDepth = 2
    MaxSweeps = 2
    MaxContinues = 1
    MaxResets = 1
    Faults = TRUE
    None = None
SPECIFICATION ApartSpec
SYMMETRY Symmetry
INVARIANTS TypeOK DeliveredOnce LostOnlyLate OneTracePerSpan BoundaryComplete NothingLeaks StaysOnStack
