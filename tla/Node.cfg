SPECIFICATION FairSpec
CONSTANTS
    Posts = {p, q}
INVARIANTS CloseIsLast
PROPERTIES QuitEnds PostIsAnswered
CHECK_DEADLOCK FALSE
