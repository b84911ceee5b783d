SPECIFICATION Spec
CONSTANTS
    Accounts = {a, b}
    Codes = {c}
    Abis = {x}
    Values = {v, w}
    Unencodable = Unencodable
    None = None
    MaxAbis = 1
    MaxUndone = 1
INVARIANTS StateIsOwn
PROPERTIES StateIsKept
CHECK_DEADLOCK FALSE
