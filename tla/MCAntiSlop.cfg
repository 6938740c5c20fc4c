CONSTANTS
    None = None
    StackLimit = 14
    Depth = 9
    Batches <- MCBatches
SPECIFICATION Spec
CHECK_DEADLOCK FALSE
INVARIANTS
    NamesAreLexical
    UnknownAliasesReported
    UnsafeDictionariesReported
    EstablishedValuesStayKnown
    ErasedTypesNotTakenBack
    ChainReportedOnce
    CopiesAreOfTheAccumulator
