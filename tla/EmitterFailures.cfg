SPECIFICATION FairSpec
CONSTANTS
    DbCanFail = TRUE
    MaxDbSize = 1
    MaxEvents = 3
    MaxSessions = 1
    MaxRestarts = 1
PROPERTIES
    StashedIsDelivered
    ShutdownCompletes
CHECK_DEADLOCK FALSE
