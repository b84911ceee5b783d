SPECIFICATION Spec
CONSTANTS
    VecSize = 3
    UpdatePos = 2
    Modulus = 16
    Workers = {1, 2}
    Epochs = {2, 3, 4, 5, 6}
    Cold = TRUE
    MaxRestarts = 1
INVARIANT
    InitializedOnce
CHECK_DEADLOCK FALSE
