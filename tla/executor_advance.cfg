SPECIFICATION Spec
CONSTANTS
    Items = {i1}
    Calls = {c1}
    MaxRuns = 1
    MaxRetries = 0
    MaxCancels = 0
    MaxFaults = 0
INVARIANT AdvanceRecorded
CHECK_DEADLOCK FALSE
