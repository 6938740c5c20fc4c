SPECIFICATION Spec
CONSTANTS
    Stories = {s1, s2}
    Recent = {s1, s2}
    None = none
    MaxVersion = 1
    MaxTaps = 3
    MaxStops = 1
PROPERTIES RefreshOnlyUpdates
CHECK_DEADLOCK FALSE
