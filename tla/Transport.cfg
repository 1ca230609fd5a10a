\* Client buffers: two emitting threads, a flush() and a close().  Rotation: none, one or three
\* backups, three faults.  Wrappers: two children, two events, a retry.  NATS: two calls, a reconnect
\* and a close().
SPECIFICATION Spec
CONSTANTS
    e1 = e1  e2 = e2  f1 = f1  c1 = c1
    Emitters = {e1, e2}
    Flushers = {f1}
    Closers = {c1}
    PerBatch <- BatchOf
    MaxPending = 1
    Unboundable <- NoTimeout
    BackupCounts = {0, 1, 3}
    FileBytes = 2
    MaxLines = 6
    BatchLines = 2
    MaxGens = 6
    MaxFaults = 3
    Fan = 2
    BatchEvents = {1, 2}
    MaxTries = 2
    Batch = 2
    MaxCalls = 2
    MaxReconnects = 1
INVARIANTS
    NoPublishForgotten
    RotationKeepsLines
    FanOutAccounts
    CountedOnce
PROPERTIES
    CloseEnds
