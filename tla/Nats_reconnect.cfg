\* One emit() of one event, and a reconnect.
SPECIFICATION NatsSpec
CONSTANTS
    Batch = 1
    MaxCalls = 1
    MaxReconnects = 1
INVARIANT ConfirmedOrCounted
CHECK_DEADLOCK FALSE
