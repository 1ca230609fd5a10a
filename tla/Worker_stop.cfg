\* An unbounded shutdown(), a bounded one that meets the worker late, a sink that calls shutdown()
\* itself, a retry: the first with a submission and an unbounded flush(), and the two together with
\* the one or the other.
SPECIFICATION FairSpec
CONSTANTS
    s1 = s1
    s2 = s2
    f1 = f1
    f2 = f2
    p1 = p1
    p2 = p2
    Groups = {{s1, f1, p1}, {s1, p1, p2}, {f1, p1, p2}}
    Submitters = {s1}
    Flushers = {f1}
    Stoppers = {p1, p2}
    LateStoppers = {p2}
    Bounded = {p2}
    MaxQueue = 2
    BatchSize = 2
    MaxRetries = 1
    Reentrant = TRUE
    SHUTDOWN = SHUTDOWN
    DrainThread = DrainThread
    None = None
INVARIANTS
    TypeOK
    NoStrandedWaiter
    NoSilentLoss
    GivenUpMeansExpired
    JoinerOwnsDeadline
    OneSentinel
PROPERTIES
    AllCallsReturn
    AcceptedIsSettled
