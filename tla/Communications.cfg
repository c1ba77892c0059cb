SPECIFICATION MCSpec
CONSTANTS
    u1 = u1
    u2 = u2
    r1 = r1
    User = {u1, u2}
    NeverUsed = {u2}
    Thread = {r1}
    MaxAttempts = 2
    MaxCatchups = 1
    MaxAsks = 2
    MaxFailures = 2
    MaxDeaths = 1
    Event = {"expiration", "suggestion", "creation", "none"}
INVARIANT NoDoubleDelivery
INVARIANT SentWasDelivered
PROPERTY CampaignsEnd
PROPERTY EveryoneIsServed
CHECK_DEADLOCK FALSE
