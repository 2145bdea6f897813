SPECIFICATION MCSpec
CONSTANTS
    Programs = {"client", "fixture"}
    NumBatches = 3
    HeaderLen = 3
    MetaLen = 2
    BatchLen = 4
    SockBuf = 6
    NumWorkers = 3
    Iterations = 3
    Platforms = {"posix", "windows"}
    CanFail = TRUE
INVARIANTS
    RecordedInOrder
    DoneMeansOnItsWay
    LinesAreComplete
PROPERTIES
    ClientStops
    DoneLeadsToFinished
    ImplementsRecording
