\* Two submissions onto a queue of one, after and around a shutdown().
SPECIFICATION Spec
CONSTANTS
    s1 = s1
    s2 = s2
    f1 = f1
    f2 = f2
    p1 = p1
    p2 = p2
    Groups = {{s1, s2, p1}}
    Submitters = {s1, s2}
    Flushers = {}
    Stoppers = {p1}
    LateStoppers = {}
    Bounded = {p1}
    MaxQueue = 1
    BatchSize = 2
    MaxRetries = 0
    Reentrant = FALSE
    SHUTDOWN = SHUTDOWN
    DrainThread = DrainThread
    None = None
SYMMETRY CallerSymmetry
INVARIANTS
    LossCountedOnce
