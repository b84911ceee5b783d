SPECIFICATION Spec
CONSTANTS
    Codes = {me, other}
    Receiver = me
    Names = {t1}
    Pids = {0, 1}
    MaxPid = 7
    Idx = {0}
    Keys = {0, 1}
    BadKey = BadKey
    None = None
    Slots = {s1, s2}
    MaxCalls = 4
    MaxCatching = 3
SYMMETRY SlotSymmetry
VIEW WithoutLast
INVARIANTS IndexMatchesRows EndMeansNoData BeginIsFirst
PROPERTIES WritesOwnRow FreshKey
