SPECIFICATION MCSpec
CONSTANTS
    c1 = c1
    c2 = c2
    u1 = u1
    u2 = u2
    Campaign = {c1, c2}
    User = {u1, u2}
    Targets <- Overlapping
    Moving = {c1}
    Batch = 1
    MaxAsks = 3
    MaxFailures = 1
    MaxDeaths = 1
INVARIANT OneCampaignPerUser
INVARIANT CompletedLeavesNobody
INVARIANT RemovalCanBeUndone
PROPERTY RunningUsersAreTakenUp
CHECK_DEADLOCK FALSE
