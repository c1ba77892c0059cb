SPECIFICATION MCSpec
CONSTANTS
    Task = {1, 2}
    Priority <- SamePriority
    MaxRetries <- NoRetry
    Scheduled = {1}
    Worker = {w1, w2}
    Page = {}
    Client = {}
    Sched = sched
    NoTask = none
    MaxFaults = 1
    CheckUpdate = 1
    ExpiryTask = {1}
    Wakened = {1}
    Telemetry = {2}
    Slow = {1}
    BootRule <- BootEnables
    MaxChanges = 2
    MaxRestarts = 1
SYMMETRY SlotSymmetry
INVARIANT OneWorker
PROPERTY NoLostWakeup
PROPERTY QueueSpec
PROPERTY WatchdogSparesLive
PROPERTY OrphansComeFromFaults
CHECK_DEADLOCK FALSE
