SPECIFICATION MCFairSpec
CONSTANTS
    Task = {1, 2}
    Priority <- SamePriority
    MaxRetries <- NoRetry
    Scheduled = {1}
    Worker = {w1}
    Page = {p}
    Client = {c}
    Sched = sched
    NoTask = none
    MaxFaults = 1
    CheckUpdate = 1
    ExpiryTask = {2}
    Wakened = {1}
    Telemetry = {}
    Slow = {}
    BootRule <- BootEnables
    MaxChanges = 0
    MaxRestarts = 0
PROPERTY PendingIsServed
 
