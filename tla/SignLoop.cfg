SPECIFICATION FairSpec
CONSTANTS
    Limit = 2
    Permissions = {"active", "cross"}
    StartTime = 2
    MaxTime = 3
    MaxRows = 2
    MaxTroubles = 2
INVARIANTS SignedIsFinal
PROPERTIES PassCovers EventuallySigned
CHECK_DEADLOCK FALSE
