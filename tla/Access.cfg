SPECIFICATION FairSpec
CONSTANTS
    Lib = {l1}
    Thread = {r1}
    Tasks = tasks
    Mode = {"disable", "warn_then_disable"}
    MaxAttempts = 2
    MaxChanges = 2
    MaxFaults = 1
    SlowCalls = TRUE
INVARIANT JellyfinForgetsNothing
PROPERTY ViewsConverge
PROPERTY JellyfinExpiryRemoves
PROPERTY RenewedIsNotBarred
CHECK_DEADLOCK FALSE
