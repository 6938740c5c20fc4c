SPECIFICATION Spec
CONSTANTS
    Stories = {s1, s2, old}
    Recent = {s1, s2}
    None = none
    MaxVersion = 1
    MaxTaps = 3
    MaxStops = 1
INVARIANTS RowIdentity
PROPERTIES RefreshNeverRegresses RefreshCatchesUp
CHECK_DEADLOCK FALSE
