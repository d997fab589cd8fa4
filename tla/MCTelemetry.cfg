SPECIFICATION SpecTelemetry
CONSTANTS
    MaxCost = 3
    MaxTurns = 2
    MaxExports = 2
    MaxRetries = 1
    MaxResumes = 1
INVARIANTS CostAddsUp CostNeverEarly
CHECK_DEADLOCK FALSE
