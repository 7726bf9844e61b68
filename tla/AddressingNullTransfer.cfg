SPECIFICATION Spec
CONSTANTS
    SegmentSize = 16
    ApertureSize = 32
    InterleaveSize = 2
    Cases <- TransfersAtNull
PROPERTY
    TransfersEnd
CHECK_DEADLOCK FALSE
