SPECIFICATION Spec
CONSTANTS
    SourceBase = 16
    TargetBase = 10
    Lengths = {0, 1, 2, 3, 108, 110, 111, 112, 512}
    FirstBytes <- MCFirstBytes
    MaxFields = 2
    MaxDigits = 4
    Half = 8
    MaxDepth = 2
    Grain = 2
    Doubles <- MCDoubles
    TableNames = {{}, {4}, {5}, {4, 5}, {0}, {1, 4}}
    MaxDeclared = 18
INVARIANTS Decodes SameNumber RowKept ShortNamesApart
CHECK_DEADLOCK FALSE
