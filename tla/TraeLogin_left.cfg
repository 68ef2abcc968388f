\* A login left pending by the closing that a success has scheduled.
SPECIFICATION Spec
CONSTANTS
    MaxAttempts = 2
    MaxCalls = 1
    MaxRestarts = 0
CHECK_DEADLOCK FALSE
INVARIANT ClosedMeansCancelled
