SPECIFICATION FairSpec
CONSTANTS
    VecSize = 3
    UpdatePos = 2
    Modulus = 16
    Workers = {1, 2}
    Epochs = {0, 1, 3, 4, 5}
    Cold = FALSE
    MaxRestarts = 1
INVARIANTS
    TypeOK
    Aligned
    Bounded
PROPERTIES
    RejectsOnlyOutside
    Served
CHECK_DEADLOCK FALSE
