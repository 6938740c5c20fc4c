SPECIFICATION Spec
CONSTANTS
    Tags = {t1}
    Forever = forever
    None = none
    Last = 1
    MaxInstances = 2
    MaxSaves = 1
    MaxFaults = 0
CHECK_DEADLOCK FALSE
INVARIANTS UnsavedIsDirty
