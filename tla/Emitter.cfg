SPECIFICATION Spec
CONSTANTS
    DbCanFail = FALSE
    MaxDbSize = 2
    MaxEvents = 4
    MaxSessions = 2
    MaxRestarts = 2
INVARIANTS
    TypeOK
    TokenAccounting
    SlotAccounting
    NoMutualWait
    RowsBounded
    NoRowForgotten
    AtLeastOnce
    FreshPid
PROPERTIES
    PruneOnlyDelivered
    ImplementsChannel
CHECK_DEADLOCK FALSE
