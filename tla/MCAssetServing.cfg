SPECIFICATION FairServing
CONSTANTS
    m1 = m1
    m2 = m2
    Requests = {r1, r2}
    Modules = {m1, m2}
    Manifest = manifest
    Readers = {c1}
    None = none
    AdminPassword = password
    AdminRequests <- MCAdminRequests
    Paths <- MCPaths
    MaxTime = 1
    MAX_ARCHIVE_BYTES = 4
    MAX_MODULES = 2
    MAX_UNCOMPRESSED_BYTES = 3
INVARIANTS Serialized ReleaseIsWhole SuccessIsActive StoredWithinLimits
    AnnouncedStaysServable ImmutableStaysTrue
PROPERTIES KeepsReleaseContract LockReturned
CHECK_DEADLOCK FALSE
