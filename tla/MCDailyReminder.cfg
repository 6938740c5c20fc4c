SPECIFICATION FairSpec
CONSTANTS
    Posts = {p1, p2}
    None = none
    MaxDay = 1
    Slots = 2
    MaxChanges = 2
    MaxFaults = 2
INVARIANTS ChainUnbroken
PROPERTIES KeepsContract NoRepeatAfterRecord PendingIsDelivered DisabledDiesOut
CHECK_DEADLOCK FALSE
