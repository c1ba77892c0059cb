SPECIFICATION MCSpec
CONSTANTS
    p = p
    j = j
    Plex <- MCPlex
    Jellyfin <- MCJellyfin
    MaxRequests = 2
    MaxMishaps = 1
PROPERTY SyncMovesNothing
PROPERTY AccountsSettle
CHECK_DEADLOCK FALSE
