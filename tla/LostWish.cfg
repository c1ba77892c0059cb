SPECIFICATION Spec
CONSTANTS
    Lib = {l1, l2}
    Thread = {r1}
    Tasks = tasks
    Mode = {"disable"}
    MaxAttempts = 2
    MaxChanges = 3
    MaxFaults = 0
    SlowCalls = FALSE
PROPERTY ChangesAreQueued
CHECK_DEADLOCK FALSE
