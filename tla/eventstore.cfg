SPECIFICATION FairSpec
CONSTANTS
    Saved = {"work"}
    Logged = {"run"}
    Telemetry = {"agent"}
    Writers = {w1}
    Retrier = Retrier
    MaxEvents = 3
    MaxQueue = 2
    BatchCap = 2
    MaxTries = 1
    MaxFaults = 1
INVARIANTS
    TypeOK
    NothingVanishes
    DrainKeepsQueued
    StreamSavable
PROPERTY QueueSettles
CHECK_DEADLOCK FALSE
