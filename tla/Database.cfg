SPECIFICATION MCFairSpec
CONSTANTS
    b1 = b1
    b2 = b2
    Backup <- MCBackup
    Keyed <- MCKeyed
    MaxAsks = 2
    MaxFailures = 2
    MaxDeaths = 2
    MaxKills = 2
    MaxFaults = 1
INVARIANT NeverMixed
INVARIANT PreviousIsKept
INVARIANT KeyFits
INVARIANT BackupWaitsForRestart
PROPERTY RestoreEnds
INVARIANT NoRowsAreLost
INVARIANT UpgradeKeepsRows
INVARIANT DeletedStayDeleted
PROPERTY UpgradedForGood
PROPERTY StartsAtLast
CHECK_DEADLOCK FALSE
