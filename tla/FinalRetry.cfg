SPECIFICATION Spec
CONSTANTS
    Task = {1}
    Priority <- SamePriority
    MaxRetries <- OneRetry
    Scheduled = {1}
    Worker = {w1, w2}
    Page = {}
    Client = {}
    Sched = sched
    NoTask = none
    MaxFaults = 0
    CheckUpdate = 1
    ExpiryTask = {1}
    Wakened = {1}
    Telemetry = {}
    Slow = {}
    BootRule <- BootEnables
    MaxChanges = 0
    MaxRestarts = 0
INVARIANT AnnouncedRetryIsPending
