SPECIFICATION Spec
CONSTANTS
    c1 = c1
    c2 = c2
    c3 = c3
    c4 = c4
    c5 = c5
    none = none
    Thread <- MCThread
    Parent <- MCParent
    None = none
    MaxVisits = 2
    MaxToggles = 2
CHECK_DEADLOCK FALSE
PROPERTIES CollapsedPersists
