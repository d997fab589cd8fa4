SPECIFICATION Spec
CONSTANTS
    Logs = {transcript}
    Notes = {memory}
    MaxRead = 4
    MaxRecords = 1
    MaxLen = 6
    MaxChanges = 3
INVARIANTS AgreesWhenIdle DeltasAddUp RecordsOnce
CHECK_DEADLOCK FALSE
