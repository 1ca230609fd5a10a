\* One event, two calls of the worker, and a store whose commit may go unanswered.
SPECIFICATION Spec
CONSTANTS
    Size = 1
    MaxLoad = 1
    MaxEmits = 2
    MaxRetries = 0
    RecordKinds = {"postgres", "redis", "mongodb"}
    MaxRecord = 2
    MaxBytes = 3
    MaxCount = 2
    MaxBreaks = 0
    HttpKinds = {}
    MaxRendered = 5
    MaxBatchBytes = 8
    MaxBatchCount = 3
    EventCeiling = 2
    MaxReductions = 1
    Limits = {2}
INVARIANT
    RetryDuplicatesNothing
