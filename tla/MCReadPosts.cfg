SPECIFICATION FairSpec
CONSTANTS
    Posts = {p1, p2}
    Jobs = {j1, j2, j3}
    None = none
    MaxDeaths = 1
INVARIANTS CacheIsTable
PROPERTIES ReadStaysRead MutexReturned
