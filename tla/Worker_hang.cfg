\* A sink that may raise, kill the thread or never return, and a queue of one: a submission and an
\* unbounded flush() against a bounded shutdown(); two submissions and a bounded flush(), whose
\* marker meets a full queue.
SPECIFICATION GroupsSpec
CONSTANTS
    s1 = s1
    s2 = s2
    f1 = f1
    f2 = f2
    p1 = p1
    p2 = p2
    Groups = {{s1, f1, p1}, {s1, s2, f2}}
    Submitters = {s1, s2}
    Flushers = {f1, f2}
    Stoppers = {p1}
    LateStoppers = {}
    Bounded = {f2, p1}
    MaxQueue = 1
    BatchSize = 2
    MaxRetries = 0
    Reentrant = FALSE
    SHUTDOWN = SHUTDOWN
    DrainThread = DrainThread
    None = None
INVARIANTS
    FlushKeepsPromise
PROPERTIES
    ImplementsDelivery
    SettledReleasesFlush
    BoundedCallsReturn
