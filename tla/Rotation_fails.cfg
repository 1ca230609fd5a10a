\* One backup, one failing call.
SPECIFICATION RotatingSpec
CONSTANTS
    BackupCounts = {1}
    FileBytes = 1
    MaxLines = 3
    BatchLines = 1
    MaxGens = 3
    MaxFaults = 1
INVARIANT FailedRotationLosesNothing
CHECK_DEADLOCK FALSE
