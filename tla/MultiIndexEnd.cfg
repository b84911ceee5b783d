SPECIFICATION Spec
CONSTANTS
    Codes = {me}
    Receiver = me
    Names = {t1, t2}
    Pids = {0}
    MaxPid = 7
    Idx = {0}
    Keys = {0, 1}
    BadKey = BadKey
    None = None
    Slots = {s1}
    MaxCalls = 4
    MaxCatching = 3
INVARIANTS StaysInTable
