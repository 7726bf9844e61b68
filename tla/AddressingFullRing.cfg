SPECIFICATION Spec
CONSTANTS
    SegmentSize = 16
    ApertureSize = 32
    InterleaveSize = 2
    Cases <- FullRingCases
INVARIANT
    PacketsFound
CHECK_DEADLOCK FALSE
