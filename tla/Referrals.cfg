SPECIFICATION MCSpec
CONSTANTS
    a = a
    b = b
    c = c
    User <- MCUser
    Referred <- MCReferred
    Reward = 2
    Gift = 1
    Qualify = 1
    Archiving = 1
    DateChoice = {1}
    FirstDate = {1, 2}
    MaxDay = 3
    MaxAsks = 2
    MaxFaults = 1
SYMMETRY Alike
INVARIANT RewardedOnce
INVARIANT RewardsAreOnRecord
 
INVARIANT RestoreGivesBack
 
CHECK_DEADLOCK FALSE
