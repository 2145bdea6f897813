SPECIFICATION FairSpec
CONSTANTS
    Originals <- MCOriginals
    Renames <- MCRenames
    MaxRoot = 6
    StoresDuplicates = TRUE
    MaxFailures = 2
    MaxRecordings = 2
INVARIANTS
    NeverTruncated
    ChainNeverStalls
PROPERTIES
    ReplacedByItsConversion
    ConvertedInTheEnd
    ImplementsFormat
CHECK_DEADLOCK FALSE
