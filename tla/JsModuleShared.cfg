SPECIFICATION Spec
CONSTANTS
    Accounts = {a, b}
    Codes = {c}
    Abis = {x, y}
    Values = {v}
    Unencodable = Unencodable
    None = None
    MaxAbis = 1
    MaxUndone = 0
INVARIANTS AbiIsReceivers
CHECK_DEADLOCK FALSE
