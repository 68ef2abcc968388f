\* A Qoder login that times out waits for its own mutex.
SPECIFICATION QoderSpec
CONSTANTS
    MaxAttempts = 1
    MaxCalls = 2
    MaxFaults = 0
CHECK_DEADLOCK FALSE
INVARIANT NothingWaitsForItself
