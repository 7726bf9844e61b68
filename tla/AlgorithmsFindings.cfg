\* Run with -continue: three statements of the documentation, each of which the
\* code violates.
SPECIFICATION AlgorithmsSpec
CONSTANTS
    WordBits = 3
    NumSgprs = 24
    AddressBits = 8
    SegmentSize = 16
    ApertureSize = 32
    InterleaveSize = 2
    Cases = {}
    Inputs <- FindingCases
INVARIANTS
    LanesRunOnce
    WriteExact
    WatchAsPromised
CHECK_DEADLOCK FALSE
