SPECIFICATION FairSpec
CONSTANTS
    Tags = {t1, t2}
    Forever = forever
    None = none
    Last = 1
    MaxInstances = 1
    MaxSaves = 2
    MaxFaults = 2
CHECK_DEADLOCK FALSE
INVARIANTS InitialIsTable RemoteAgrees
PROPERTIES AnonymousPageNotStored TemporarySurvivesLoad SaveEnds
