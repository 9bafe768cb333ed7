SPECIFICATION Spec
CONSTANTS
    Saved = {"work"}
    Logged = {"run"}
    Telemetry = {"agent"}
    Writers = {w1}
    Retrier = Retrier
    MaxEvents = 2
    MaxQueue = 2
    BatchCap = 2
    MaxTries = 1
    MaxFaults = 0
INVARIANT AtLeastOnce
CHECK_DEADLOCK FALSE
