SPECIFICATION Spec
CONSTANTS
    MaxBlock = 4
    MaxForks = 1
    MaxTraces = 1
    MaxRestarts = 1
    Capacity = 2
INVARIANTS
    TypeOK
    IrreversibleInOrder
    NoIrreversibleSkipped
    ChainIsTold
    ParentBeforeChild
CHECK_DEADLOCK FALSE
