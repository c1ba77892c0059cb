SPECIFICATION MCSpec
CONSTANTS
    s1 = s1
    s2 = s2
    u1 = u1
    u2 = u2
    Session = {s1, s2}
    User = {u1, u2}
    Collector = {"worker", "socket"}
    SameClient <- MCSameClient
    Limit <- MCLimit
    Barred = {u2}
    MaxPlays = 2
    MaxBudget <- MCBudget
    MaxTries = 2
INVARIANT RecordedOnce
PROPERTY NothingIsLost
PROPERTY StoppedSessionsEnd
 
CHECK_DEADLOCK FALSE
