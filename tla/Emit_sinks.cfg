\* Every delivering sink: three events, two calls of the worker, one retry of the sink.
SPECIFICATION Spec
CONSTANTS
    Size = 3
    MaxLoad = 3
    MaxEmits = 2
    MaxRetries = 1
    RecordKinds = {"kinesis", "firehose", "sns", "sqs", "eventhubs", "clickhouse", "postgres",
                   "sqlite", "mongodb", "redis", "rabbitmq", "tcp", "udp", "file"}
    MaxRecord = 2
    MaxBytes = 3
    MaxCount = 2
    MaxBreaks = 1
    HttpKinds = {"ndjson", "gzip", "splunk", "datadog", "es", "honeycomb", "loki", "otlp", "sentry"}
    MaxRendered = 5
    MaxBatchBytes = 8
    MaxBatchCount = 3
    EventCeiling = 2
    MaxReductions = 1
    Limits = {2, 5}
INVARIANTS
    Accounted
    RaiseIsTotal
    DroppedOnce
    StaleConnection
    NoInventedLoss
    RequestFits
PROPERTY
    EmitEnds
